SPECIFICATION Spec
CONSTANTS
  Handlers = {h1, h2}
  StepCount = 2
  OnCompleted <- MCOnCompleted
  OnBlocked <- MCOnBlocked
  MaxAttempts <- One
SYMMETRY HandlerSymmetry
PROPERTY FailedIsFinal
CHECK_DEADLOCK FALSE
