---------------------------- MODULE MCParallelRun ----------------------------
(* The run and its group with small sets.                                     *)
EXTENDS ParallelRun, TLC

Symmetry == Permutations(Leases) \cup Permutations(Handlers)
=============================================================================
