SPECIFICATION Spec
CONSTANTS
  Handlers = {h1, h2}
  StepCount = 2
  OnCompleted <- MCOnCompleted
  OnBlocked <- MCOnBlocked
  MaxAttempts <- TwoThenOne
SYMMETRY HandlerSymmetry
INVARIANTS
  SentOnce
  CursorHasEvidence
  WaitingIsFounded
CHECK_DEADLOCK FALSE
