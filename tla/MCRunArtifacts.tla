--------------------------- MODULE MCRunArtifacts ---------------------------
(* One run id with small sets of transaction ids: they are interchangeable.   *)
EXTENDS RunArtifacts, TLC

TransactionSymmetry == Permutations(Transactions)
=============================================================================
