SPECIFICATION Spec
CONSTANTS
  Transactions = {t1, t2, t3, t4}
  MayFail = {"persist"}
  MaxFaults = 1
  MaxClosing = 1
  ReusedEarly = FALSE
SYMMETRY TransactionSymmetry
PROPERTY RetiredAfterDurableDeletion
CHECK_DEADLOCK FALSE
