SPECIFICATION MCSpec
CONSTANTS
  Items = {1, 2}
  Leases = {l1, l2}
  MaxConcurrency = 1
  LeaseTtl = 1
  MaxAttempts = 1
  MaxLead = 0
SYMMETRY LeaseSymmetry
INVARIANT NoGrantWhilePaused
CHECK_DEADLOCK FALSE
