SPECIFICATION Spec
CONSTANTS
  UnsafeIds = {"-"}
  Ids = {1, 2}
  Offered <- MCOffered
  MaxFaults = 0
PROPERTY ReadyIsStarted
CHECK_DEADLOCK FALSE
