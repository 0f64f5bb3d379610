SPECIFICATION UpSpec
CONSTANTS
  Handlers = {h1}
  StepCount = 2
  OnCompleted <- MCOnCompleted
  OnBlocked <- MCOnBlocked
  MaxAttempts <- Three
INVARIANT ReportAfterStart
PROPERTY DispatchResolves
CHECK_DEADLOCK FALSE
