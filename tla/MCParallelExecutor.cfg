SPECIFICATION ExecutorSpec
CONSTANTS
  Items = {1}
  Leases = {l1, l2}
  MaxConcurrency = 2
  LeaseTtl = 1
  MaxAttempts = 1
  MaxLead = 0
  Executors = {e1, e2}
  Capacity = 1
  BatchSize = 1
  Profiles = {{e1}, {e1, e2}}
  MaxFaults = 1
INVARIANTS
  LaunchedOnce
  WithinCapacity
  ShutdownCancels
PROPERTIES
  LeasesEnd
  LostWorkersStop
CHECK_DEADLOCK FALSE
