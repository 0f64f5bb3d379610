\* Two runs with the same plan: the close of one deletes the output of the other.
SPECIFICATION Spec
CONSTANTS
  Runs = {"r1", "again"}
  Plan <- MCPlan
  Requests = {q1, q2}
  Moves <- MCMoves
  Notes <- MCNotes
  UserFiles <- MCUserFiles
  MaxEvents = 1
PROPERTIES
  FilesKept
CHECK_DEADLOCK FALSE
SYMMETRY MCSymmetry
