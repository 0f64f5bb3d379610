----------------------------- MODULE ParallelRun -----------------------------
(***************************************************************************)
(* A run whose current step is a parallel group, and the requests of       *)
(* protocol-runner-api that touch both.  Such a request of controller.ts   *)
(* changes the group in one transaction of the store (an action of         *)
(* ParallelGroup), and the run in a later one: it loads the run again,     *)
(* waits, and writes the whole run state back, computed from what it       *)
(* loaded.  `handler[h]` is a request between its steps:                   *)
(*   pc       what it does next                                            *)
(*   outcome  what it is to make of the run                                *)
(*   state    the run state it is to write                                 *)
(*   starting it is a start request, with one more write to come           *)
(*                                                                         *)
(* Step 1 of the plan is the group, step 2 a serial step, whose life is    *)
(* RunControl's: here it is only started.  A request that changes the      *)
(* group needs step 1 when it loads the run; when the store's transaction  *)
(* has guards of its own, load and transaction are one step, since nothing *)
(* is left to lease, retry or answer once the run is past the group.       *)
(***************************************************************************)
EXTENDS ParallelGroup

CONSTANTS
  Handlers,   \* the requests that can be in flight at a time
  Requests,   \* the kinds of request that arrive
  Alone,      \* bound: the kinds that arrive only when no request is in flight
  OnCompleted \* the group step's rule for completed: "next", "pause" or "stop"

RequestKinds == {"preflight", "start", "resume", "pause", "fail", "grant", "result",
                 "recover", "retry", "pause_group", "stop_group"}

ASSUME RequestsAssumption ==
  /\ IsFiniteSet(Handlers)
  /\ Requests \subseteq RequestKinds
  /\ Alone \subseteq RequestKinds
  /\ OnCompleted \in {"next", "pause", "stop"}

VARIABLES run, handler

runVars == <<vars, run, handler>>

RunState ==
  [status : {"bound", "ready", "running", "paused", "blocked", "failed", "completed",
             "dispatching_prompt"},
   step : {1, 2}]

Outcome == {"granted", "preflight_passed", "retried", "paused", "blocked", "completed"}

Idle == [pc |-> "idle", outcome |-> "blocked", state |-> [status |-> "bound", step |-> 1],
         starting |-> FALSE]

RunInit ==
  /\ Init
  /\ run = [status |-> "bound", step |-> 1]
  /\ handler = [h \in Handlers |-> Idle]

-----------------------------------------------------------------------------
(* What the requests are made of.                                           *)

Proceeds(h, local) == handler' = [handler EXCEPT ![h] = local]

Ends(h) == Proceeds(h, Idle)

Reloads(h, outcome) == Proceeds(h, [handler[h] EXCEPT !.pc = "load", !.outcome = outcome])

\* A request of this kind arrives: it finds the group to be the current step.
Arrives(h, kind) ==
  /\ handler[h].pc = "idle" /\ kind \in Requests /\ run.step = 1
  /\ kind \in Alone => \A o \in Handlers : handler[o].pc = "idle"

WithStatus(state, status) == [state EXCEPT !.status = status]

\* The transition of a completed group, from the step the request found current
\* and the state it has just loaded.
Transition(state) ==
  CASE OnCompleted = "next"  -> [status |-> "ready", step |-> 2]
    [] OnCompleted = "pause" -> WithStatus(state, "paused")
    [] OnCompleted = "stop"  -> WithStatus(state, "completed")

Becomes(state, outcome) ==
  CASE outcome = "granted" -> WithStatus(state, "running")
    [] outcome \in {"preflight_passed", "retried"} -> WithStatus(state, "ready")
    [] outcome = "completed" -> Transition(state)
    [] OTHER -> WithStatus(state, outcome)

\* Mutant: a run that was paused meanwhile is left alone.
NothingToWritePaused(outcome) ==
  \/ outcome = "granted" /\ run.status = "running"
  \/ outcome = "retried" /\ run.status = "ready"
  \/ run.status = "paused"

\* A grant, a result and a retry leave a run alone that has the status already.
NothingToWrite(outcome) ==
  \/ outcome = "granted" /\ run.status = "running"
  \/ outcome = "retried" /\ run.status = "ready"

LoadAgain(h) ==
  LET me == handler[h]
  IN  /\ me.pc = "load"
      /\ IF NothingToWrite(me.outcome) THEN Ends(h)
         ELSE Proceeds(h, [me EXCEPT !.pc = "write", !.state = Becomes(run, me.outcome)])
      /\ UNCHANGED <<vars, run>>

\* updateStoredState: the whole state is replaced, whatever it has become.
WriteState(h) ==
  LET me == handler[h]
  IN  /\ me.pc = "write"
      /\ run' = me.state
      /\ IF me.starting THEN Proceeds(h, [Idle EXCEPT !.pc = "started"]) ELSE Ends(h)
      /\ UNCHANGED vars

-----------------------------------------------------------------------------
(* Preflight, on its own or as the first part of a start.                   *)

StartRequest(h) ==
  /\ \/ Arrives(h, "start") /\ run.status \in {"bound", "ready"}
     \/ Arrives(h, "resume") /\ run.status = "blocked"
  /\ Proceeds(h, [Idle EXCEPT !.pc = "preflight", !.starting = TRUE])
  /\ UNCHANGED <<vars, run>>

\* The run is loaded, then the group is; the checks fail in the wrong run status.
Checks(h, outcome) ==
  /\ \/ Arrives(h, "preflight")
     \/ handler[h].pc = "preflight" /\ run.step = 1
  /\ outcome = "passed" => run.status \in {"bound", "ready", "blocked"}
  /\ PreflightChecks(outcome)
  /\ Proceeds(h, [handler[h] EXCEPT !.pc = "record"])
  /\ UNCHANGED run

PreflightRefused(h) ==
  /\ handler[h].pc = "preflight" /\ run.step # 1
  /\ Ends(h)
  /\ UNCHANGED <<vars, run>>

RecordChecks(h) ==
  /\ handler[h].pc = "record"
  /\ RecordPreflight
  /\ Reloads(h, IF checks = "passed" THEN "preflight_passed" ELSE "blocked")
  /\ UNCHANGED run

\* The start goes on when the group's row says that its preflight passed.
Started(h) ==
  /\ handler[h].pc = "started"
  /\ IF preflight = "passed"
     THEN Proceeds(h, [Idle EXCEPT !.pc = "write", !.state = WithStatus(run, "running")])
     ELSE Ends(h)
  /\ UNCHANGED <<vars, run>>

-----------------------------------------------------------------------------
(* Requests of the run: resume of a paused run, pause, fail.                *)

Resume(h) ==
  /\ Arrives(h, "resume") /\ run.status = "paused"
  /\ Proceeds(h, [Idle EXCEPT !.pc = "resume", !.state = WithStatus(run, "running")])
  /\ UNCHANGED <<vars, run>>

ResumeIfLeaseable(h) ==
  /\ handler[h].pc = "resume"
  /\ IF group \in {"ready_to_lease", "leasing", "running"}
     THEN Proceeds(h, [handler[h] EXCEPT !.pc = "write"])
     ELSE Ends(h)
  /\ UNCHANGED <<vars, run>>

PauseRun(h) ==
  /\ Arrives(h, "pause") /\ run.status \in {"ready", "running"}
  /\ Proceeds(h, [Idle EXCEPT !.pc = "write", !.state = WithStatus(run, "paused")])
  /\ UNCHANGED <<vars, run>>

FailRun(h) ==
  /\ Arrives(h, "fail") /\ run.status \notin {"completed", "failed"}
  /\ Proceeds(h, [Idle EXCEPT !.pc = "write", !.state = WithStatus(run, "failed")])
  /\ UNCHANGED <<vars, run>>

-----------------------------------------------------------------------------
(* Requests of the group.                                                   *)

GrantLeasesOf(h, capacity) ==
  /\ Arrives(h, "grant")
  /\ Grant(capacity)
  /\ Reloads(h, "granted")
  /\ UNCHANGED run

HeartbeatOf(l) == run.step = 1 /\ Heartbeat(l) /\ UNCHANGED <<run, handler>>

\* acceptParallelAttemptResult and cancelParallelAttempt.
AcceptResult(h, l, result) ==
  /\ Arrives(h, "result")
  /\ RecordResult(l, result)
  /\ Proceeds(h, [Idle EXCEPT !.pc = "outcome"])
  /\ UNCHANGED run

\* Mutant: a group that needs attention counts as done.
OutcomeOfAnyEnd(h) ==
  /\ handler[h].pc = "outcome"
  /\ Reloads(h, IF group \in {"completed", "needs_attention"} THEN "completed" ELSE "granted")
  /\ UNCHANGED <<vars, run>>

\* The store reads the group for its answer after its transaction: the outcome
\* is what the group has become by then.
ReadOutcome(h) ==
  /\ handler[h].pc = "outcome"
  /\ Reloads(h, CASE group = "completed" -> "completed"
                  [] group = "needs_attention" -> "blocked"
                  [] OTHER -> "granted")
  /\ UNCHANGED <<vars, run>>

RecoverLeases(h, lead) ==
  /\ Arrives(h, "recover")
  /\ RecoverStale(lead)
  /\ IF \E l \in StaleLeases(lead) : ~Requeued(l)
     THEN Proceeds(h, [Idle EXCEPT !.pc = "recovered"])
     ELSE UNCHANGED handler
  /\ UNCHANGED run

ReadRecovered(h) ==
  /\ handler[h].pc = "recovered"
  /\ IF group = "needs_attention" THEN Reloads(h, "blocked") ELSE Ends(h)
  /\ UNCHANGED <<vars, run>>

RetryItem(h, i) ==
  /\ Arrives(h, "retry")
  /\ Retry(i)
  /\ Reloads(h, "retried")
  /\ UNCHANGED run

\* Pause and stop of the group take effect whatever the group has become.
ControlRequest(h, kind) ==
  /\ Arrives(h, kind)
  /\ Proceeds(h, [Idle EXCEPT !.pc = kind])
  /\ UNCHANGED <<vars, run>>

ControlGroup(h) ==
  /\ \/ handler[h].pc = "pause_group" /\ Pause /\ Reloads(h, "paused")
     \/ handler[h].pc = "stop_group" /\ Stop /\ Reloads(h, "blocked")
  /\ UNCHANGED run

-----------------------------------------------------------------------------
(* What happens around the requests.                                        *)

\* The driver, or an operator, starts the step after the group.
StartNextStep ==
  /\ run.step = 2 /\ run.status = "ready"
  /\ run' = WithStatus(run, "dispatching_prompt")
  /\ UNCHANGED <<vars, handler>>

World == (Tick \/ \E l \in Leases : MakeAttemptDir(l)) /\ UNCHANGED <<run, handler>>

\* The service stops and starts again; the checks of a preflight are gone too.
Restart ==
  /\ handler' = [h \in Handlers |-> Idle]
  /\ checks' = "none"
  /\ UNCHANGED <<group, preflight, itemStatus, latest, attempts, lease, dirs, run>>

HandlerStep(h) ==
  \/ LoadAgain(h) \/ WriteState(h)
  \/ StartRequest(h) \/ PreflightRefused(h) \/ RecordChecks(h) \/ Started(h)
  \/ \E outcome \in {"passed", "failed"} : Checks(h, outcome)
  \/ Resume(h) \/ ResumeIfLeaseable(h) \/ PauseRun(h) \/ FailRun(h)
  \/ \E capacity \in 1 .. MaxConcurrency : GrantLeasesOf(h, capacity)
  \/ \E l \in Leases, result \in ResultStatus : AcceptResult(h, l, result)
  \/ ReadOutcome(h)
  \/ \E lead \in 0 .. MaxLead : RecoverLeases(h, lead)
  \/ ReadRecovered(h)
  \/ \E i \in Items : RetryItem(h, i)
  \/ \E kind \in {"pause_group", "stop_group"} : ControlRequest(h, kind)
  \/ ControlGroup(h)

UpNext ==
  \/ \E h \in Handlers : HandlerStep(h)
  \/ \E l \in Leases : HeartbeatOf(l)
  \/ StartNextStep
  \/ World

RunSpec == RunInit /\ [][UpNext \/ Restart]_runVars

\* The service does not stop.
UpSpec == RunInit /\ [][UpNext]_runVars

-----------------------------------------------------------------------------
(* Properties.                                                              *)

HandlerState ==
  [pc : {"idle", "preflight", "record", "started", "resume", "outcome", "recovered",
         "pause_group", "stop_group", "load", "write"},
   outcome : Outcome, state : RunState, starting : BOOLEAN]

\* What the requests carry and write are run states.
RunTypeOK ==
  /\ run \in RunState
  /\ handler \in [Handlers -> HandlerState]

\* The run gets past the group only when every item is completed, and stays there
\* only if they do: whatever requests of the past are still under way, none of
\* them carries the run over open work, or opens an item behind its back.
PastGroupOnlyCompleted ==
  /\ RunTypeOK
  /\ run.step = 2 => \A i \in Items : itemStatus[i] = "completed"

\* A completed group moves the run on: when no request is in flight, the run is
\* past the group, or what its rule says, and not left behind at a step on which
\* nothing can be leased, resumed or retried any more.
Quiet == \A h \in Handlers : handler[h].pc = "idle"

CompletionMovesOn ==
  Quiet /\ group = "completed" => run.step = 2 \/ OnCompleted # "next"

\* "advances from a completed parallel group to the next serial step and sends it
\* normally" (server.test.ts): once the next step has been started, no request of
\* the group touches the run any more.
NextStepUndisturbed == [][run.step = 2 /\ run.status = "dispatching_prompt" => run' = run]_runVars
=============================================================================
