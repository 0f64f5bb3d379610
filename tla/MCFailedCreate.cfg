SPECIFICATION Spec
CONSTANTS
  Transactions = {t1, t2, t3, t4}
  MayFail = {"begin"}
  MaxFaults = 1
  MaxClosing = 1
  ReusedEarly = FALSE
SYMMETRY TransactionSymmetry
INVARIANT FailedCreateLeavesNothing
CHECK_DEADLOCK FALSE
