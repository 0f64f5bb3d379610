\* Two runs, two requests at a time, and a crash, a move or an added file.
SPECIFICATION Spec
CONSTANTS
  Runs = {"r1", "r2", "twice"}
  Plan <- MCPlan
  Requests = {q1, q2}
  Moves <- MCMoves
  Notes <- MCNotes
  UserFiles <- MCUserFiles
  MaxEvents = 1
PROPERTIES
  FilesKept
  ReadyInside
  CloseSucceeds
CHECK_DEADLOCK FALSE
SYMMETRY MCSymmetry
