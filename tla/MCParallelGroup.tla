--------------------------- MODULE MCParallelGroup ---------------------------
(* The parallel group with small sets: lease ids are interchangeable, items  *)
(* are numbers because a grant takes them in id order.                        *)
EXTENDS ParallelGroupLedger, TLC

LeaseSymmetry == Permutations(Leases)
=============================================================================
