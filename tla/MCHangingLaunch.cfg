SPECIFICATION ProcessSpec
CONSTANTS
  Tools = {"shell", "daemon"}
  Piped = {"shell"}
  SourceWriter = TRUE
PROPERTIES
  AbortedLaunchEnds
CHECK_DEADLOCK FALSE
