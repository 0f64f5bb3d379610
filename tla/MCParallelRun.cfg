SPECIFICATION RunSpec
CONSTANTS
  Items = {1, 2}
  Leases = {l1, l2}
  MaxConcurrency = 2
  LeaseTtl = 1
  MaxAttempts = 1
  MaxLead = 0
  Handlers = {h1, h2}
  Requests = {"start", "resume", "pause", "fail", "grant", "result", "recover", "retry", "stop_group", "preflight", "pause_group"}
  Alone = {"preflight", "pause_group", "stop_group", "fail"}
  OnCompleted = "next"
SYMMETRY Symmetry
INVARIANTS
  PastGroupOnlyCompleted
CHECK_DEADLOCK FALSE
