---------------------------- MODULE MCRunControl ----------------------------
(* A plan of two serial steps.  The first goes on to the second when it is    *)
(* completed and pauses when it is blocked; the second ends the run when it   *)
(* is completed and sends it back to the first when it is blocked.            *)
EXTENDS RunControl, TLC

MCOnCompleted == <<[action |-> "next", step |-> 0], [action |-> "stop", step |-> 0]>>

MCOnBlocked == <<[action |-> "pause", step |-> 0], [action |-> "go_to", step |-> 1]>>

TwoThenOne == <<2, 1>>

Three == <<3, 3>>

One == <<1, 1>>

HandlerSymmetry == Permutations(Handlers)
=============================================================================
