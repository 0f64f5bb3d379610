----------------------------- MODULE RunControl -----------------------------
(***************************************************************************)
(* The life of one serial run in protocol-runner-api.                      *)
(*                                                                         *)
(* Every request is an asynchronous handler of controller.ts: it loads the *)
(* run, checks the status it loaded, waits for files, for the relay or for *)
(* the Desktop, and writes the WHOLE run state back, computed from what it *)
(* loaded.  Nothing but the store's single writes is atomic, so requests   *)
(* interleave between their steps.  `handler[h]` is a request in flight:   *)
(*   pc     what it does next                                              *)
(*   state  the run state it loaded, then the one it is to write           *)
(*   then   its pc after that write                                        *)
(*   prompt the prompt attempt <<step, number>> it works on                *)
(*   report the verdict of the report it carries                           *)
(*                                                                         *)
(* Evidence files are written with the flag wx: creating one that exists   *)
(* throws, and the request ends there.  A request on a run that has been   *)
(* deleted throws as well.  The run's id is not used again.                *)
(***************************************************************************)
EXTENDS Naturals, FiniteSets, FiniteSetsExt, DesktopHelper

CONSTANTS
  Handlers,    \* the requests that can be in flight at a time
  StepCount,   \* number of steps of the work plan, all serial
  OnCompleted, \* the rule of each step for a completed report: "next",
  OnBlocked,   \*   "pause", "stop" or a step to go to; the same for blocked
  MaxAttempts  \* bound: the prompt attempts at each step

Steps == 1 .. StepCount

Prompts == UNION {{s} \X (1 .. MaxAttempts[s]) : s \in Steps}

NoPrompt == <<0, 0>>

Rules == {[action |-> a, step |-> 0] : a \in {"next", "pause", "stop"}}
         \cup {[action |-> "go_to", step |-> s] : s \in Steps}

ASSUME HandlersAssumption == IsFiniteSet(Handlers)
ASSUME PlanAssumption ==
  /\ StepCount \in Nat \ {0}
  /\ MaxAttempts \in [Steps -> Nat \ {0}]
  /\ OnCompleted \in [Steps -> Rules]
  /\ OnBlocked \in [Steps -> Rules]

VARIABLES
  run,       \* the stored run state
  exists,    \* the run has a row and a directory
  snapshots, \* the steps whose snapshot file exists
  prompts,   \* the prompt files
  starts,    \* the start-report files
  reports,   \* the status-report files, with their verdict
  sends,     \* how often each prompt was handed to the Desktop adapter
  handler

files == <<snapshots, prompts, starts, reports>>
vars == <<run, exists, files, sends, handler>>

RunStatus == {"draft", "bound", "ready", "dispatching_prompt", "waiting_for_start_report",
              "waiting_for_completion_report", "paused", "blocked", "completed",
              "failed", "closed"}

RunState == [status : RunStatus, step : Steps, pending : Prompts \cup {NoPrompt},
             bound : BOOLEAN, pickup : BOOLEAN]

Verdict == {"completed", "blocked", "other_step", "invalid"}

FirstState == [status |-> "draft", step |-> 1, pending |-> NoPrompt,
               bound |-> FALSE, pickup |-> TRUE]

Idle == [pc |-> "idle", state |-> FirstState, then |-> "idle",
         prompt |-> NoPrompt, report |-> "completed"]

Init ==
  /\ run = FirstState
  /\ exists = TRUE
  /\ snapshots = {} /\ prompts = {} /\ starts = {} /\ reports = {}
  /\ sends = [p \in Prompts |-> 0]
  /\ handler = [h \in Handlers |-> Idle]

-----------------------------------------------------------------------------
(* What workers report (completion.ts).  A field that should be a string is   *)
(* missing ("none"), names what it should or something else.                 *)

Field == {"none", "this", "other"}

\* Keys of its own and a summary that is not a text make a report invalid.
StatusReport ==
  [run : Field, step : Field, status : {"none", "completed", "blocked", "other"},
   unexpected : BOOLEAN, summary : {"none", "text", "not_text"}]

ParsesStatus(r) ==
  /\ ~r.unexpected
  /\ r.run # "none" /\ r.step # "none"
  /\ r.status \in {"completed", "blocked"}
  /\ r.summary # "not_text"

StatusFitsStep(r) == r.run = "this" /\ r.step = "this"

VerdictOf(r) ==
  IF ~ParsesStatus(r) THEN "invalid"
  ELSE IF ~StatusFitsStep(r) THEN "other_step"
  ELSE r.status

StatusVerdicts == {VerdictOf(r) : r \in StatusReport}

\* A start report names the prompt attempt it received (0 and NoPrompt: nothing)
\* and its token.
StartReport ==
  [run : Field, step : {0} \cup Steps, prompt : Prompts \cup {NoPrompt},
   token : Field, unexpected : BOOLEAN]

ParsesStart(r) ==
  ~r.unexpected /\ r.run # "none" /\ r.step # 0 /\ r.prompt # NoPrompt /\ r.token # "none"

\* The prompt attempt a start report answers for: none when it does not parse or
\* does not hold together.
ReportedPrompt(r) ==
  IF ParsesStart(r) /\ r.run = "this" /\ r.token = "this" /\ r.step = r.prompt[1]
  THEN r.prompt ELSE NoPrompt

StartedPrompts == {ReportedPrompt(r) : r \in StartReport}

-----------------------------------------------------------------------------
(* What the handlers are made of.                                           *)

\* Mutant: a return is accepted before the start report.
AllowedEarly(action) ==
  IF action = "return" THEN {"waiting_for_start_report", "waiting_for_completion_report"}
  ELSE RunStatus

\* ENABLED_BY_STATUS of diagnostics.ts, by action, and the statuses that the
\* requests outside that table check for themselves.
AllowedIn(action) ==
 LET statuses ==
  [bind   |-> {"draft", "bound", "paused", "blocked"},
   start  |-> {"bound", "ready"},
   pause  |-> {"ready", "waiting_for_start_report", "waiting_for_completion_report"},
   resume |-> {"paused", "blocked"},
   fail   |-> RunStatus \ {"completed", "failed", "closed"},
   close  |-> {"paused", "blocked", "completed", "failed"},
   return |-> {"waiting_for_completion_report"},
   start_report |-> {"waiting_for_start_report"},
   automation   |-> RunStatus \ {"closed"}]
 IN statuses[action]

\* A request arrives: the handler loads the run and checks its status.
Loads(h, action) ==
  /\ handler[h].pc = "idle"
  /\ exists
  /\ run.status \in AllowedIn(action)

\* The handler goes on with these fields changed.
Goes(h, local) == handler' = [handler EXCEPT ![h] = local]

Ends(h) == Goes(h, Idle)

\* The request goes on to write `state` and then to `then`.
ToWrite(local, state, then) ==
  [local EXCEPT !.pc = "write", !.state = state, !.then = then]

Blocked(state) == [state EXCEPT !.status = "blocked", !.pending = NoPrompt]

\* nextAttemptNumber: one more than the highest number among the files.
AttemptsOf(step) ==
  {p[2] : p \in {q \in prompts \cup starts \cup {r.prompt : r \in reports} : q[1] = step}}

NextAttempt(step) == IF AttemptsOf(step) = {} THEN 1 ELSE Max(AttemptsOf(step)) + 1

\* The store's writeState: a run without a row is not written, it throws.
Stored(state) == IF exists THEN state ELSE run

(* updateStoredState: the whole state is replaced, whatever it has become   *)
(* since it was loaded.                                                     *)
WriteState(h) ==
  LET me == handler[h]
  IN  /\ me.pc = "write"
      /\ run' = Stored(me.state)
      /\ IF exists /\ me.then # "idle"
         THEN Goes(h, [Idle EXCEPT !.pc = me.then, !.prompt = me.prompt])
         ELSE Ends(h)
      /\ UNCHANGED <<exists, files, sends>>

-----------------------------------------------------------------------------
(* Requests that load, check and write: bindRun (between its load and its   *)
(* write it waits for the relay; when the relay refuses nothing happens),   *)
(* setAutomation, pauseRun, failRun.                                        *)

Request(h, action, patched) ==
  /\ Loads(h, action)
  /\ Goes(h, ToWrite(Idle, patched, "idle"))
  /\ UNCHANGED <<run, exists, files, sends>>

BindRun(h) ==
  Request(h, "bind",
    [run EXCEPT !.status = IF @ = "draft" THEN "bound" ELSE @, !.bound = TRUE])

SetAutomation(h) == Request(h, "automation", [run EXCEPT !.pickup = ~@])

PauseRun(h) == Request(h, "pause", [run EXCEPT !.status = "paused"])

FailRun(h) == Request(h, "fail", [run EXCEPT !.status = "failed"])

-----------------------------------------------------------------------------
(* startRun, resumeRun, retryCurrent: sendCurrentPrompt.                    *)

\* resume and retry-current are allowed in the same statuses and do the same.
LoadToSend(h) ==
  /\ Loads(h, "start") \/ Loads(h, "resume")
  /\ run.bound
  /\ Goes(h, [Idle EXCEPT !.pc = "prepare", !.state = run])
  /\ UNCHANGED <<run, exists, files, sends>>

\* The contract files are checked and the attempt is numbered; the run is then
\* written as dispatching, or blocked when a contract file is missing.
Prepare(h, contractsOk) ==
  LET me == handler[h]
      p == <<me.state.step, NextAttempt(me.state.step)>>
      dispatching == [me.state EXCEPT !.status = "dispatching_prompt", !.pending = NoPrompt]
  IN  /\ me.pc = "prepare"
      /\ contractsOk => p \in Prompts
      /\ IF ~exists THEN Ends(h)
         ELSE IF contractsOk THEN Goes(h, ToWrite([me EXCEPT !.prompt = p], dispatching, "snapshot"))
         ELSE Goes(h, ToWrite(Idle, Blocked(me.state), "idle"))
      /\ UNCHANGED <<run, exists, files, sends>>

\* writeStepSnapshot, for the first attempt at a step only.
WriteSnapshot(h) ==
  LET me == handler[h]
      first == me.prompt[2] = 1
      fails == ~exists \/ (first /\ me.prompt[1] \in snapshots)
  IN  /\ me.pc = "snapshot"
      /\ snapshots' = IF fails \/ ~first THEN snapshots ELSE snapshots \cup {me.prompt[1]}
      /\ IF fails THEN Ends(h) ELSE Goes(h, [me EXCEPT !.pc = "prompt"])
      /\ UNCHANGED <<run, exists, prompts, starts, reports, sends>>

\* Mutant: the prompt file is opened without the flag wx.
WritePromptOver(h) ==
  /\ handler[h].pc = "prompt"
  /\ prompts' = IF exists THEN prompts \cup {handler[h].prompt} ELSE prompts
  /\ IF exists THEN Goes(h, [handler[h] EXCEPT !.pc = "send"]) ELSE Ends(h)
  /\ UNCHANGED <<run, exists, snapshots, starts, reports, sends>>

WritePrompt(h) ==
  LET me == handler[h]
      fails == ~exists \/ me.prompt \in prompts
  IN  /\ me.pc = "prompt"
      /\ prompts' = IF fails THEN prompts ELSE prompts \cup {me.prompt}
      /\ IF fails THEN Ends(h) ELSE Goes(h, [me EXCEPT !.pc = "send"])
      /\ UNCHANGED <<run, exists, snapshots, starts, reports, sends>>

SendPrompt(h) ==
  LET me == handler[h]
  IN  /\ me.pc = "send"
      /\ sends' = [sends EXCEPT ![me.prompt] = @ + 1]
      /\ Goes(h, [me EXCEPT !.pc = "answer"])
      /\ UNCHANGED <<run, exists, files>>

Waiting(state, p) ==
  [state EXCEPT !.status = "waiting_for_start_report", !.pending = p]

\* Mutant: an answer other than "sent" is logged and no more.
AnsweredOnlySent(h, send_status) ==
  LET me == handler[h]
  IN  /\ me.pc = "answer"
      /\ IF exists /\ run.status = "dispatching_prompt" /\ ShouldAwaitStartReport(send_status)
         THEN Goes(h, ToWrite(Idle, Waiting(run, me.prompt), "idle"))
         ELSE Ends(h)
      /\ UNCHANGED <<run, exists, files, sends>>

\* The adapter answers, or fails: only "sent" leads on to a start report.  The
\* run is loaded again, and left alone unless it is still dispatching.
SendAnswered(h, send_status) ==
  LET me == handler[h]
  IN  /\ me.pc = "answer"
      /\ IF exists /\ run.status = "dispatching_prompt"
         THEN Goes(h, ToWrite(Idle, IF ShouldAwaitStartReport(send_status)
                                    THEN Waiting(run, me.prompt) ELSE Blocked(run), "idle"))
         ELSE Ends(h)
      /\ UNCHANGED <<run, exists, files, sends>>

-----------------------------------------------------------------------------
(* acceptStartReport.  A worker reports the prompt attempt it received, by  *)
(* its token; NoPrompt stands for a report that does not parse.             *)

ReportMatches(state, p) == p = state.pending /\ p[1] = state.step

AcceptStartReport(h, p) ==
  /\ Loads(h, "start_report")
  /\ IF ReportMatches(run, p)
     THEN Goes(h, [Idle EXCEPT !.pc = "start_file", !.state = run, !.prompt = p])
     ELSE Goes(h, ToWrite(Idle, Blocked(run), "idle"))
  /\ UNCHANGED <<run, exists, files, sends>>

Started(state) ==
  [state EXCEPT !.status = "waiting_for_completion_report", !.pending = NoPrompt]

StartFile(state) == <<state.step, state.pending[2]>>

\* Mutant: the patch is applied to the run as it is when the file is written.
StartedFromLatest(h) ==
  LET me == handler[h]
      fails == ~exists \/ StartFile(me.state) \in starts
  IN  /\ me.pc = "start_file"
      /\ starts' = IF fails THEN starts ELSE starts \cup {StartFile(me.state)}
      /\ IF fails THEN Ends(h) ELSE Goes(h, ToWrite(Idle, Started(run), "idle"))
      /\ UNCHANGED <<run, exists, snapshots, prompts, reports, sends>>

WriteStartReport(h) ==
  LET me == handler[h]
      fails == ~exists \/ StartFile(me.state) \in starts
  IN  /\ me.pc = "start_file"
      /\ starts' = IF fails THEN starts ELSE starts \cup {StartFile(me.state)}
      /\ IF fails THEN Ends(h) ELSE Goes(h, ToWrite(Idle, Started(me.state), "idle"))
      /\ UNCHANGED <<run, exists, snapshots, prompts, reports, sends>>

-----------------------------------------------------------------------------
(* acceptReturn and acceptStructuredStatusReport.  The report names a step   *)
(* and no attempt: the handler takes the newest attempt at the step it       *)
(* loaded.  A report that does not parse blocks the run.                     *)

AcceptReturn(h, verdict) ==
  /\ Loads(h, "return")
  /\ run.pickup
  /\ Goes(h, [Idle EXCEPT !.pc = "number", !.state = run, !.report = verdict])
  /\ UNCHANGED <<run, exists, files, sends>>

NumberReturn(h) ==
  LET me == handler[h]
      step == me.state.step
      fails == ~exists \/ NextAttempt(step) = 1
  IN  /\ me.pc = "number"
      /\ IF fails THEN Ends(h)
         ELSE IF me.report # "invalid"
         THEN Goes(h, [me EXCEPT !.pc = "report_file", !.prompt = <<step, NextAttempt(step) - 1>>])
         ELSE Goes(h, ToWrite(Idle, Blocked(me.state), "idle"))
      /\ UNCHANGED <<run, exists, files, sends>>

(* resolveTransition and applyTransition: the state after an accepted report.*)

At(state, status, step) ==
  [state EXCEPT !.status = status, !.step = step, !.pending = NoPrompt]

AfterRule(state, rule) ==
  CASE rule.action = "pause" -> At(state, "paused", state.step)
    [] rule.action = "stop"  -> At(state, "completed", state.step)
    [] rule.action = "go_to" -> At(state, "ready", rule.step)
    [] rule.action = "next" /\ state.step < StepCount -> At(state, "ready", state.step + 1)
    [] OTHER -> Blocked(state)

RuleFor(step, verdict) == IF verdict = "completed" THEN OnCompleted[step] ELSE OnBlocked[step]

\* Mutant: whatever the worker reports, the rule for completed is taken.
TransitionAlwaysCompleted(state, verdict) ==
  IF verdict = "other_step" THEN Blocked(state) ELSE AfterRule(state, OnCompleted[state.step])

Transition(state, verdict) ==
  IF verdict = "other_step" THEN Blocked(state)
  ELSE AfterRule(state, RuleFor(state.step, verdict))

WriteReport(h) ==
  LET me == handler[h]
      fails == ~exists \/ \E r \in reports : r.prompt = me.prompt
  IN  /\ me.pc = "report_file"
      /\ reports' = IF fails THEN reports
                    ELSE reports \cup {[prompt |-> me.prompt, verdict |-> me.report]}
      /\ IF fails THEN Ends(h)
         ELSE Goes(h, ToWrite(Idle, Transition(me.state, me.report), "idle"))
      /\ UNCHANGED <<run, exists, snapshots, prompts, starts, sends>>

-----------------------------------------------------------------------------
(* closeRun: the run is written as closed; it is then loaded again, its      *)
(* relay channel is closed and the state just loaded is written back with    *)
(* the outcome; then the run and its directory are deleted.                  *)

CloseRun(h) ==
  /\ Loads(h, "close")
  /\ Goes(h, ToWrite(Idle, [run EXCEPT !.status = "closed"], "cleanup"))
  /\ UNCHANGED <<run, exists, files, sends>>

CleanUpRelay(h) ==
  LET me == handler[h]
  IN  /\ me.pc = "cleanup"
      /\ IF ~exists THEN Ends(h)
         ELSE IF run.bound THEN Goes(h, ToWrite(me, run, "delete"))
         ELSE Goes(h, [me EXCEPT !.pc = "delete"])
      /\ UNCHANGED <<run, exists, files, sends>>

DeleteRun(h) ==
  /\ handler[h].pc = "delete"
  /\ exists' = FALSE
  /\ run' = FirstState
  /\ snapshots' = {} /\ prompts' = {} /\ starts' = {} /\ reports' = {}
  /\ Ends(h)
  /\ UNCHANGED sends

-----------------------------------------------------------------------------
\* The service stops and starts again: what was in flight is gone, the stored
\* state and the files stay.
Restart ==
  /\ handler' = [h \in Handlers |-> Idle]
  /\ UNCHANGED <<run, exists, files, sends>>

Arrives(h) ==
  \/ BindRun(h) \/ SetAutomation(h) \/ PauseRun(h) \/ FailRun(h) \/ CloseRun(h)
  \/ LoadToSend(h)
  \/ \E p \in {q \in StartedPrompts : q = NoPrompt \/ sends[q] > 0} : AcceptStartReport(h, p)
  \/ \E verdict \in StatusVerdicts : AcceptReturn(h, verdict)

Advances(h) ==
  \/ WriteState(h)
  \/ \E ok \in BOOLEAN : Prepare(h, ok)
  \/ WriteSnapshot(h) \/ WritePrompt(h) \/ SendPrompt(h)
  \/ \E status \in SendStatuses : SendAnswered(h, status)
  \/ WriteStartReport(h)
  \/ NumberReturn(h)
  \/ WriteReport(h)
  \/ CleanUpRelay(h) \/ DeleteRun(h)

Next == Restart \/ \E h \in Handlers : Arrives(h) \/ Advances(h)

Spec == Init /\ [][Next]_vars

\* The requests of a service that does not stop; every request in flight goes
\* on: file operations end, and the Desktop and relay calls have time limits.
UpSpec ==
  /\ Init
  /\ [][\E h \in Handlers : Arrives(h) \/ Advances(h)]_vars
  /\ \A h \in Handlers : WF_vars(Advances(h))

-----------------------------------------------------------------------------
(* Properties.                                                              *)

HandlerState ==
  [pc : {"idle", "write", "prepare", "snapshot", "prompt", "send", "answer", "start_file",
         "number", "report_file", "cleanup", "delete"},
   state : RunState, then : {"idle", "snapshot", "cleanup", "delete"},
   prompt : Prompts \cup {NoPrompt}, report : Verdict]

\* The state a request writes back is a run state, and every file belongs to a
\* step of the plan and to an attempt at it.
TypeOK ==
  /\ run \in RunState
  /\ exists \in BOOLEAN
  /\ snapshots \subseteq Steps
  /\ prompts \subseteq Prompts
  /\ starts \subseteq Prompts
  /\ reports \subseteq [prompt : Prompts, verdict : Verdict \ {"invalid"}]
  /\ sends \in [Prompts -> Nat]
  /\ handler \in [Handlers -> HandlerState]

\* A prompt attempt is handed to the Desktop at most once, whatever requests to
\* start, resume and retry run side by side and wherever the service stopped.
SentOnce == \A p \in Prompts : sends[p] <= 1

\* The cursor never runs ahead of the evidence: a run is past its first step, or
\* completed, only through an accepted status report whose rule leads there,
\* even when a request overwrites the run with a state it loaded long ago.
LeadsTo(r, status, step) ==
  /\ r.verdict # "other_step"
  /\ LET after == AfterRule([FirstState EXCEPT !.step = r.prompt[1]],
                            RuleFor(r.prompt[1], r.verdict))
     IN  after.status = status /\ after.step = step

CursorHasEvidence ==
  /\ TypeOK
  /\ run.step # 1 => \E r \in reports : LeadsTo(r, "ready", run.step)
  /\ run.status = "completed" => \E r \in reports : LeadsTo(r, "completed", run.step)

\* The run waits only for what can come: a start report for a prompt that was
\* sent, a completion report from a worker whose start report for this step is
\* on file.
WaitingIsFounded ==
  /\ run.pending # NoPrompt => sends[run.pending] = 1 /\ run.pending \in prompts
  /\ run.status = "waiting_for_start_report" => run.pending # NoPrompt
  /\ run.status = "waiting_for_completion_report" => \E p \in starts : p[1] = run.step

\* With one request at a time, a status report counts for an attempt that
\* reported its start ("a separate return report supplies completion status").
ReportAfterStart == \A r \in reports : r.prompt \in starts

\* With one request at a time and no restart, a dispatch is resolved: the run
\* does not stay in a status that only a manual failure can leave.
DispatchResolves ==
  run.status = "dispatching_prompt" ~> run.status # "dispatching_prompt"

\* ALLOWED_RUN_STATUS_TRANSITIONS of state-machine.ts lists `closed` alone after
\* `failed`: a run an operator failed stays failed until it is closed.
FailedIsFinal ==
  [][exists' /\ run.status = "failed" => run'.status \in {"failed", "closed"}]_vars
=============================================================================
