SPECIFICATION UpSpec
CONSTANTS
  Items = {1, 2}
  Leases = {l1, l2, l3}
  MaxConcurrency = 1
  LeaseTtl = 1
  MaxAttempts = 2
  MaxLead = 0
  Handlers = {h1}
  Requests = {"start", "resume", "pause", "fail", "preflight", "grant", "result", "recover", "retry", "pause_group"}
  Alone = {}
  OnCompleted = "next"
SYMMETRY Symmetry
INVARIANTS
  ConcurrencyRespected
  CompletionMovesOn
CHECK_DEADLOCK FALSE
