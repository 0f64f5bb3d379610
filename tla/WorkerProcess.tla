---------------------------- MODULE WorkerProcess ----------------------------
(***************************************************************************)
(* One launch of CodexExecWorkerLauncher: a worker process (the leader of  *)
(* its own process group, on POSIX), the tools it starts, the kill a hard  *)
(* timeout or an abort asks for, and what the launcher and then the API    *)
(* make of the files the worker left.                                      *)
(*                                                                         *)
(* Node's `close` event comes when the leader has ended AND its output     *)
(* streams are closed, and a tool that inherited them keeps them open.     *)
(* `exitCode` is null while the leader runs, and stays null when a signal  *)
(* ended it.  No tool leaves the process group, and signals are delivered. *)
(***************************************************************************)
EXTENDS Naturals

CONSTANTS
  Tools,       \* the tools the worker may start
  Piped,       \* those of them that inherit its output streams
  SourceWriter \* the attempt works in a Git worktree of its own

ASSUME ToolsAssumption == Piped \subseteq Tools /\ SourceWriter \in BOOLEAN

VARIABLES
  leader,  \* "none", "running", or how it ended: "ok", "error" or "signal"
  tools,   \* each tool: "none", "running" or "gone"
  report,  \* status_report.json: "none", "broken", "foreign", "completed", "blocked"
  output,  \* the sealed output exists
  abort,   \* the launch's signal: "none", or aborted for a lost "lease" or a "shutdown"
  kill,    \* the kill: its reason, and its next step
  launch,  \* the launcher: its next step, an error it met, what it has read
  result,  \* the launcher's verdict, "none" before there is one
  contribution, \* what becomes of a source writer's work: "none", "captured" or "retained"
  recorded \* what the API makes of it, "unreported" when it is not told

workerVars == <<leader, tools, report, output>>
processVars == <<workerVars, abort, kill, launch, result, contribution, recorded>>

Reports == {"none", "broken", "foreign", "completed", "blocked"}

ProcessInit ==
  /\ leader = "none"
  /\ tools = [t \in Tools |-> "none"]
  /\ report = "none" /\ output = FALSE
  /\ abort = "none"
  /\ kill = [reason |-> "none", pc |-> "idle", error |-> FALSE]
  /\ launch = [pc |-> "prepare", trouble |-> FALSE, report |-> "none", output |-> FALSE]
  /\ result = "none" /\ contribution = "none" /\ recorded = "none"

-----------------------------------------------------------------------------
(* The worker and its tools.                                                *)

Gone == leader \in {"ok", "error", "signal"}

Alive(t) == tools[t] = "running"

\* Nothing of the process group is left.
GroupEmpty == leader # "running" /\ \A t \in Tools : ~Alive(t)

\* A tool may be started by the worker or by another tool, and outlive both.
ToolStarts(t) ==
  /\ leader = "running" \/ \E u \in Tools : Alive(u)
  /\ tools[t] = "none"
  /\ tools' = [tools EXCEPT ![t] = "running"]
  /\ UNCHANGED <<leader, report, output, abort, kill, launch, result, contribution, recorded>>

ToolEnds(t) ==
  /\ Alive(t)
  /\ tools' = [tools EXCEPT ![t] = "gone"]
  /\ UNCHANGED <<leader, report, output, abort, kill, launch, result, contribution, recorded>>

\* The report, which can be half-written or carry another item's identity, and
\* the output: by the worker or by a tool of its, while it lasts.
Writes ==
  /\ ~GroupEmpty
  /\ \/ report' \in Reports \ {"none"} /\ UNCHANGED output
     \/ output' \in BOOLEAN /\ UNCHANGED report
  /\ UNCHANGED <<leader, tools, abort, kill, launch, result, contribution, recorded>>

LeaderEnds(how) ==
  /\ leader = "running"
  /\ leader' = how
  /\ UNCHANGED <<tools, report, output, abort, kill, launch, result, contribution, recorded>>

-----------------------------------------------------------------------------
(* The launch: the attempt's files, then the process.                       *)

Goes(pc) == launch' = [launch EXCEPT !.pc = pc]

\* requestKill does nothing once the leader has an exit code, and keeps the first
\* reason when it comes twice.
RequestKill(reason) ==
  IF leader' \in {"ok", "error"} \/ kill.reason # "none" THEN UNCHANGED kill
  ELSE kill' = [kill EXCEPT !.reason = reason, !.pc = "term"]

\* The packet, the prompt, the worktree or the command cannot be made or found:
\* launch throws.
PrepareFails ==
  /\ launch.pc = "prepare"
  /\ result' = "failed"
  /\ Goes("conclude")
  /\ UNCHANGED <<workerVars, abort, kill, contribution, recorded>>

SpawnFails ==
  /\ launch.pc = "prepare"
  /\ launch' = [launch EXCEPT !.pc = "read_report", !.trouble = TRUE]
  /\ UNCHANGED <<workerVars, abort, kill, result, contribution, recorded>>

\* A launch that is aborted already kills what it has just started.
Spawn ==
  /\ launch.pc = "prepare"
  /\ leader' = "running"
  /\ IF abort = "none" THEN UNCHANGED kill ELSE RequestKill("cancelled")
  /\ Goes("running")
  /\ UNCHANGED <<tools, report, output, abort, result, contribution, recorded>>

\* process_started.json or the logs cannot be written, or the prompt not be sent.
FileTrouble ==
  /\ launch.pc \in {"running", "closing"}
  /\ ~launch.trouble
  /\ launch' = [launch EXCEPT !.trouble = TRUE]
  /\ UNCHANGED <<workerVars, abort, kill, result, contribution, recorded>>

HardTimeout ==
  /\ launch.pc = "running"
  /\ UNCHANGED leader
  /\ RequestKill("hard_timeout")
  /\ UNCHANGED <<tools, report, output, abort, launch, result, contribution, recorded>>

\* The executor aborts the launch: its monitor saw the lease lost, or it shuts down.
Abort(cause) ==
  /\ launch.pc \notin {"conclude", "ended"}
  /\ abort = "none"
  /\ abort' = cause
  /\ UNCHANGED leader
  /\ IF launch.pc = "running" THEN RequestKill("cancelled") ELSE UNCHANGED kill
  /\ UNCHANGED <<tools, report, output, launch, result, contribution, recorded>>

-----------------------------------------------------------------------------
(* terminateChildProcessTree: SIGTERM to the group, up to two seconds, then  *)
(* SIGKILL to the group, and two seconds more.                               *)

StreamsClosed == \A t \in Piped : ~Alive(t)

\* What the two signals leave of the group: any of it, and nothing.
SendTerm ==
  /\ kill.pc = "term"
  /\ leader' \in IF leader = "running" THEN {"running", "signal"} ELSE {leader}
  /\ \E S \in SUBSET {t \in Tools : Alive(t)} :
       tools' = [t \in Tools |-> IF t \in S THEN "gone" ELSE tools[t]]
  /\ kill' = [kill EXCEPT !.pc = "wait"]
  /\ UNCHANGED <<report, output, abort, launch, result, contribution, recorded>>

\* Mutant: a leader that ended at the first signal ends the kill.
WaitedOnce ==
  /\ kill.pc = "wait"
  /\ kill' = [kill EXCEPT !.pc = IF Gone THEN "done" ELSE "kill"]
  /\ UNCHANGED <<workerVars, abort, launch, result, contribution, recorded>>

\* Whether the leader ended in time or not, the second signal follows.
Waited ==
  /\ kill.pc = "wait"
  /\ kill' = [kill EXCEPT !.pc = "kill"]
  /\ UNCHANGED <<workerVars, abort, launch, result, contribution, recorded>>

\* Mutant: the second signal goes to the leader alone.
SendKillLeader ==
  /\ kill.pc = "kill"
  /\ leader' = IF leader = "running" THEN "signal" ELSE leader
  /\ \E late \in BOOLEAN : kill' = [kill EXCEPT !.pc = "done", !.error = late]
  /\ UNCHANGED <<tools, report, output, abort, launch, result, contribution, recorded>>

\* The end of a leader that was still running may be noticed too late: the kill
\* then counts as failed.
SendKill ==
  /\ kill.pc = "kill"
  /\ leader' = IF leader = "running" THEN "signal" ELSE leader
  /\ tools' = [t \in Tools |-> IF Alive(t) THEN "gone" ELSE tools[t]]
  /\ \E late \in BOOLEAN :
       /\ late => leader = "running"
       /\ kill' = [kill EXCEPT !.pc = "done", !.error = late]
  /\ UNCHANGED <<report, output, abort, launch, result, contribution, recorded>>

-----------------------------------------------------------------------------
(* The end of the process and what it left.                                 *)

\* The close event: the timer and the listener are removed.
CloseEvent ==
  /\ launch.pc = "running"
  /\ Gone /\ StreamsClosed
  /\ Goes("closing")
  /\ UNCHANGED <<workerVars, abort, kill, result, contribution, recorded>>

\* The kill's end is waited for, then the logs are written.
Flushed ==
  /\ launch.pc = "closing"
  /\ kill.pc \in {"idle", "done"}
  /\ Goes("read_report")
  /\ UNCHANGED <<workerVars, abort, kill, result, contribution, recorded>>

ReadReport ==
  /\ launch.pc = "read_report"
  /\ launch' = [launch EXCEPT !.pc = "read_output", !.report = report]
  /\ UNCHANGED <<workerVars, abort, kill, result, contribution, recorded>>

\* Mutant: the evidence is looked at before the kill.
VerdictByEvidence(read, hasOutput) ==
  IF read = "completed" /\ hasOutput THEN "completed"
  ELSE IF kill.reason = "cancelled" THEN "cancelled"
  ELSE IF kill.reason = "hard_timeout" THEN "timed_out"
  ELSE "failed"

\* inspectWorkerEvidence, in its order.
Verdict(read, hasOutput) ==
  IF kill.reason = "cancelled" THEN "cancelled"
  ELSE IF kill.reason = "hard_timeout" THEN "timed_out"
  ELSE IF launch.trouble \/ leader # "ok" THEN "failed"
  ELSE IF read = "none" THEN "evidence_missing"
  ELSE IF read \in {"broken", "foreign"} THEN "status_invalid"
  ELSE IF read = "blocked" THEN "blocked"
  ELSE IF ~hasOutput THEN "output_missing"
  ELSE "completed"

ReadOutput ==
  /\ launch.pc = "read_output"
  /\ launch' = [launch EXCEPT !.pc = IF SourceWriter THEN "handoff" ELSE "record",
                              !.output = output]
  /\ result' = Verdict(launch.report, output)
  /\ UNCHANGED <<workerVars, abort, kill, contribution, recorded>>

\* sourceWriterProcessStopped: the process group does not exist any more.
Stopped == ~kill.error /\ GroupEmpty

\* The source contribution of a worker that has stopped is captured from its
\* worktree; else, or when that fails, the worktree is retained and so fails the
\* attempt.
HandOffSource ==
  /\ launch.pc = "handoff"
  /\ \/ /\ Stopped
        /\ contribution' = "captured" /\ UNCHANGED result
     \/ contribution' = "retained" /\ result' = "failed"
  /\ Goes("record")
  /\ UNCHANGED <<workerVars, abort, kill, recorded>>

\* classifyParallelAttemptStatus, on what the executor submits.
Classify(verdict) ==
  IF verdict \notin {"completed", "blocked"} THEN verdict
  ELSE IF launch.report = "none" THEN "evidence_missing"
  ELSE IF launch.report \notin {"completed", "blocked"} THEN "status_invalid"
  ELSE IF launch.report = "blocked" \/ verdict = "blocked" THEN "blocked"
  ELSE IF ~launch.output THEN "output_missing"
  ELSE "completed"

\* process.json and result.json are written; launch throws when they cannot be.
WriteResult ==
  /\ launch.pc = "record"
  /\ result' \in {result, "failed"}
  /\ Goes("conclude")
  /\ UNCHANGED <<workerVars, abort, kill, contribution, recorded>>

\* The end of a worker whose lease was lost is kept from the API.
Submit ==
  /\ launch.pc = "conclude"
  /\ recorded' = IF abort = "lease" THEN "unreported" ELSE Classify(result)
  /\ Goes("ended")
  /\ UNCHANGED <<workerVars, abort, kill, result, contribution>>

-----------------------------------------------------------------------------
WorkerNext ==
  \/ \E t \in Tools : ToolStarts(t) \/ ToolEnds(t)
  \/ Writes
  \/ \E how \in {"ok", "error", "signal"} : LeaderEnds(how)

Request == HardTimeout \/ \E cause \in {"lease", "shutdown"} : Abort(cause)

KillStep == SendTerm \/ Waited \/ SendKill

LaunchStep ==
  \/ PrepareFails \/ SpawnFails \/ Spawn
  \/ CloseEvent \/ Flushed \/ ReadReport \/ ReadOutput \/ HandOffSource \/ WriteResult \/ Submit

ProcessNext == WorkerNext \/ Request \/ FileTrouble \/ KillStep \/ LaunchStep

\* The launcher and its kill go on; a worker or a tool may run for ever.
ProcessSpec == ProcessInit /\ [][ProcessNext]_processVars /\ WF_processVars(LaunchStep) /\ WF_processVars(KillStep)

-----------------------------------------------------------------------------
(* Properties.                                                              *)

\* "A worker can exit before its tool subprocesses [...] so terminate surviving
\* group members as well" (launcher.ts:820): a launch that killed its worker, and
\* says so without an error, has left no process behind that could write into the
\* output of a retry.
KillLeavesNothing ==
  kill.reason # "none" /\ ~kill.error /\ launch.pc \in {"record", "conclude", "ended"} => GroupEmpty

\* Whatever a worker has written, the API records an attempt as completed only
\* when the worker ended by itself and well, nobody asked for its end before, and
\* its report and its output were there when they were looked for; and that of a
\* source writer only when its contribution was captured and nobody is left that
\* could have written into the worktree since.
CompletedIsEarned ==
  recorded = "completed" =>
    /\ leader = "ok" /\ kill.reason = "none" /\ abort # "lease"
    /\ launch.report = "completed" /\ launch.output
    /\ SourceWriter => contribution = "captured" /\ GroupEmpty

\* A kill ends the launch, however the worker and its tools behave: the tools that
\* hold its output streams open end with it.
KilledLaunchEnds == kill.reason # "none" ~> launch.pc = "ended"

\* An aborted launch ends.  (It need not: a worker that has exited is not killed
\* any more, while a tool of its holds its output streams open.)
AbortedLaunchEnds == abort # "none" ~> launch.pc = "ended"
=============================================================================
