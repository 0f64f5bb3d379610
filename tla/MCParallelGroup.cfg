SPECIFICATION Spec
CONSTANTS
  Items = {1, 2}
  Leases = {l1, l2, l3}
  MaxConcurrency = 2
  LeaseTtl = 1
  MaxAttempts = 2
  MaxLead = 1
SYMMETRY LeaseSymmetry
INVARIANTS
  OneHolder
  LeaseOwnsAttempt
  NoOrphans
  GroupStatusHonest
PROPERTIES
  ImplementsLedger
CHECK_DEADLOCK FALSE
