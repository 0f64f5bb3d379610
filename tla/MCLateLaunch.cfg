SPECIFICATION CloseoutSpec
CONSTANTS
  Attempts = {a1, a2}
  Closers = {c1}
  MaxCloses = 2
  MaxFaults = 2
PROPERTIES
  LateLaunchBlocked
CHECK_DEADLOCK FALSE
