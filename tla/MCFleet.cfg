SPECIFICATION Spec
CONSTANTS
  UnsafeIds = {"-"}
  Ids = {1, 2}
  Offered <- MCOffered
  MaxFaults = 1
INVARIANTS
  BindingFits
  RoutesResolve
PROPERTIES
  Turn
CHECK_DEADLOCK FALSE
