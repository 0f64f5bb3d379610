SPECIFICATION Spec
CONSTANTS
  Transactions = {t1, t2, t3, t4, t5}
  MayFail = {"begin", "write", "reject", "persist", "move", "remove"}
  MaxFaults = 1
  MaxClosing = 1
  ReusedEarly = FALSE
SYMMETRY TransactionSymmetry
INVARIANTS
  NothingLost
  Agreement
  OwnEvidence
CHECK_DEADLOCK FALSE
