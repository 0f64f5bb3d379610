------------------------------- MODULE MCPause -------------------------------
(* The parallel group with an observer of the operator's pause: `paused` from *)
(* a pause until an operation that an operator asks for (preflight, retry,    *)
(* stop), and the leases that were active when it began.                      *)
EXTENDS ParallelGroup, TLC

VARIABLES paused, holders

MCInit == Init /\ paused = FALSE /\ holders = {}

PauseStep == Pause /\ paused' = TRUE /\ holders' = Active

OperatorStep ==
  /\ RecordPreflight \/ Stop \/ \E i \in Items : Retry(i)
  /\ paused' = FALSE /\ holders' = {}

OtherStep ==
  /\ \/ \E outcome \in {"passed", "failed"} : PreflightChecks(outcome)
     \/ \E capacity \in 1 .. MaxConcurrency : Grant(capacity)
     \/ \E l \in Leases : Heartbeat(l) \/ MakeAttemptDir(l)
     \/ \E l \in Leases, result \in ResultStatus : RecordResult(l, result)
     \/ \E lead \in 0 .. MaxLead : RecoverStale(lead)
     \/ Tick
  /\ UNCHANGED <<paused, holders>>

MCNext == PauseStep \/ OperatorStep \/ OtherStep

MCSpec == MCInit /\ [][MCNext]_<<vars, paused, holders>>

\* "Group was paused; no new leases should be granted while paused"
\* (contracts/protocol-runner.openapi.yaml): between a pause and the next operator
\* request, only leases that were active at the pause are active.
NoGrantWhilePaused == paused => Active \subseteq holders

LeaseSymmetry == Permutations(Leases)
=============================================================================
