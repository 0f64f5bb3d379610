SPECIFICATION ProcessSpec
CONSTANTS
  Tools = {"shell", "daemon"}
  Piped = {"shell"}
  SourceWriter = TRUE
INVARIANTS
  KillLeavesNothing
  CompletedIsEarned
PROPERTIES
  KilledLaunchEnds
CHECK_DEADLOCK FALSE
