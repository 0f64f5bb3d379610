SPECIFICATION UpSpec
CONSTANTS
  Items = {1, 2}
  Leases = {l1, l2}
  MaxConcurrency = 2
  LeaseTtl = 1
  MaxAttempts = 1
  MaxLead = 0
  Handlers = {h1, h2}
  Requests = {"start", "grant", "result"}
  Alone = {}
  OnCompleted = "next"
SYMMETRY Symmetry
PROPERTY NextStepUndisturbed
CHECK_DEADLOCK FALSE
