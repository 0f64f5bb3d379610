--------------------------- MODULE ParallelExecutor ---------------------------
(***************************************************************************)
(* The executors of a parallel group: processes that poll the API, take    *)
(* leases, start one worker process per lease, watch it and submit what    *)
(* came of it (services/protocol-runner-parallel-executor).  What the API  *)
(* does to the group is ParallelGroup; every call to it can be refused,    *)
(* and, MaxFaults times, it is lost: the executor sees an error, and the   *)
(* API has or has not done what it was asked.                              *)
(*                                                                         *)
(* An executor is in one tick at a time: it looks at the group, and then   *)
(* recovers stale leases, or stops a group whose items ask for what its    *)
(* workers have not, or takes leases in batches and waits until every      *)
(* launch has ended.  A launch is the work on one lease:                   *)
(*   granted    the answer of the grant arrives                            *)
(*   proving    the first heartbeat, before there is any evidence          *)
(*   setup      the attempt's directory is to be made                      *)
(*   made       the second heartbeat                                       *)
(*   launching  the worker's files and its process are prepared            *)
(*   running    the worker process runs                                    *)
(*   exited     it has exited; its output is still held open               *)
(*   finished   its output is closed; the monitor may still have a call    *)
(*   submitting the result is to be submitted                              *)
(*   orphaned   the executor is gone and the worker is not                 *)
(***************************************************************************)
EXTENDS ParallelGroup

CONSTANTS
  Executors,
  Capacity,  \* capacity of an executor
  BatchSize, \* launch_batch_size
  Profiles,  \* bound: which executors may be those whose profile has what the group requires
  MaxFaults  \* bound: lost calls, failed setups and crashes

ASSUME ExecutorsAssumption ==
  /\ IsFiniteSet(Executors)
  /\ Capacity \in Nat \ {0} /\ BatchSize \in Nat \ {0}
  /\ Profiles \subseteq SUBSET Executors
  /\ MaxFaults \in Nat

VARIABLES
  executor, \* each executor: its mode, what its tick does, leases still to take, its profile
  launch,   \* each lease's launch
  faults    \* how many faults there were

execVars == <<executor, launch, faults>>
allVars == <<vars, executor, launch, faults>>

Mode == {"up", "shutdown", "gone"}

NoLaunch == [pc |-> "none", by |-> "nobody", aborted |-> FALSE, started |-> FALSE,
             result |-> "failed"]

\* The group's preflight has passed.
ExecutorInit ==
  /\ group = "ready_to_lease"
  /\ preflight = "passed"
  /\ itemStatus = [i \in Items |-> "pending"]
  /\ latest = [i \in Items |-> 0]
  /\ attempts = [i \in Items |-> <<>>]
  /\ lease = [l \in Leases |-> NoLease]
  /\ dirs = {}
  /\ checks = "none"
  /\ \E capable \in Profiles :
       executor = [e \in Executors |->
         [mode |-> "up", tick |-> "polling", left |-> 0, fits |-> e \in capable]]
  /\ launch = [l \in Leases |-> NoLaunch]
  /\ faults = 0

-----------------------------------------------------------------------------
(* Calls to the API.                                                        *)

LaunchesOf(e) == {l \in Leases : launch[l].by = e}

UnderWay(l) == launch[l].pc \notin {"none", "ended", "orphaned"}

ShuttingDown(l) == executor[launch[l].by].mode = "shutdown"

Goes(l, pc) == launch' = [launch EXCEPT ![l].pc = pc]

\* What nobody asks for any more is forgotten: an abort, once there is a result to
\* submit, and the result, once it is submitted.
GoesToEnd(l) ==
  launch' = [launch EXCEPT ![l] =
    [NoLaunch EXCEPT !.pc = "ended", !.by = launch[l].by, !.started = launch[l].started]]

GoesToSubmit(l, result) ==
  launch' = [launch EXCEPT ![l] =
    [@ EXCEPT !.pc = "submitting", !.result = result, !.aborted = FALSE]]

Fault == faults < MaxFaults /\ faults' = faults + 1

NoFault == UNCHANGED faults

Recognised(l) == l \in Active /\ ~Expired(l)

-----------------------------------------------------------------------------
(* A tick: tick, launchAvailableCapacity.                                   *)

\* Mutant: an executor looks after the leases of its own launches only.
SeesStaleOwn(e) == \E l \in LaunchesOf(e) : l \in Active /\ Expired(l)

SeesStale(e) == \E l \in Active : Expired(l)

AvailableCapacity ==
  LET free == IF Cardinality(Active) < MaxConcurrency
              THEN MaxConcurrency - Cardinality(Active) ELSE 0
  IN  IF Capacity < free THEN Capacity ELSE free

\* Whether any of the group's items is left to take is not asked.
Eligible == Leaseable /\ AvailableCapacity > 0

Poll(e) ==
  /\ executor[e].mode = "up" /\ executor[e].tick = "polling"
  /\ \/ /\ SeesStale(e)
        /\ executor' = [executor EXCEPT ![e].tick = "recovering"]
     \/ /\ ~SeesStale(e) /\ Eligible /\ ~executor[e].fits
        /\ executor' = [executor EXCEPT ![e].tick = "refusing"]
     \/ /\ ~SeesStale(e) /\ Eligible /\ executor[e].fits
        /\ executor' = [executor EXCEPT ![e].tick = "taking", ![e].left = AvailableCapacity]
  /\ UNCHANGED <<vars, launch, faults>>

Recover(e) ==
  /\ executor[e].tick = "recovering"
  /\ \/ RecoverStale(0) /\ NoFault
     \/ StaleLeases(0) = {} /\ UNCHANGED vars /\ NoFault
     \/ Fault /\ (RecoverStale(0) \/ UNCHANGED vars)
  /\ executor' = [executor EXCEPT ![e].tick = "polling"]
  /\ UNCHANGED launch

\* The group is stopped for everybody, its workers elsewhere included, by one
\* executor that cannot run it, whatever became of the group since it looked.
RefuseGroup(e) ==
  /\ executor[e].tick = "refusing"
  /\ \/ Stop /\ NoFault
     \/ Fault /\ (Stop \/ UNCHANGED vars)
  /\ executor' = [executor EXCEPT ![e].tick = "polling"]
  /\ UNCHANGED launch

Unused == {l \in Leases : lease[l].status = "none"}

Batch(e) == IF BatchSize < executor[e].left THEN BatchSize ELSE executor[e].left

\* The next batch is asked for when the last one was granted in full.
Taken(e, fresh) ==
  IF Cardinality(fresh) < Batch(e) THEN 0 ELSE executor[e].left - Cardinality(fresh)

TakeLeases(e) ==
  /\ executor[e].mode = "up" /\ executor[e].tick = "taking" /\ executor[e].left > 0
  /\ Grant(Batch(e))
  /\ LET fresh == {l \in Unused : lease'[l].status # "none"}
     IN  /\ launch' = [l \in Leases |->
              IF l \in fresh THEN [NoLaunch EXCEPT !.pc = "granted", !.by = e] ELSE launch[l]]
         /\ executor' = [executor EXCEPT ![e].left = Taken(e, fresh)]
  /\ NoFault

\* Lease ids that are used up are a bound.
NothingToTake ==
  ~Leaseable \/ LeaseCandidates = {} \/ AvailableLeases(1) = 0 \/ Unused = {}

\* No lease is granted, or the call is lost: the tick waits for its launches.
TakesNone(e) ==
  /\ executor[e].mode = "up" /\ executor[e].tick = "taking" /\ executor[e].left > 0
  /\ \/ NothingToTake /\ UNCHANGED vars /\ NoFault
     \/ Fault /\ (Grant(Batch(e)) \/ UNCHANGED vars)
  /\ executor' = [executor EXCEPT ![e].left = 0]
  /\ UNCHANGED launch

\* Mutant: a tick does not wait for its launches.
EndTickEarly(e) ==
  /\ executor[e].tick = "taking"
  /\ executor[e].left = 0 \/ executor[e].mode = "shutdown"
  /\ executor' = [executor EXCEPT ![e].tick = "polling", ![e].left = 0]
  /\ UNCHANGED <<vars, launch, faults>>

EndTick(e) ==
  /\ executor[e].tick = "taking"
  /\ executor[e].left = 0 \/ executor[e].mode = "shutdown"
  /\ \A l \in LaunchesOf(e) : ~UnderWay(l)
  /\ executor' = [executor EXCEPT ![e].tick = "polling", ![e].left = 0]
  /\ UNCHANGED <<vars, launch, faults>>

-----------------------------------------------------------------------------
(* A launch: launchAndSubmit.                                               *)

Enter(l) ==
  /\ launch[l].pc = "granted"
  /\ IF ShuttingDown(l) THEN GoesToSubmit(l, "cancelled") ELSE Goes(l, "proving")
  /\ UNCHANGED <<vars, executor, faults>>

ProveLease(l) ==
  /\ launch[l].pc = "proving"
  /\ \/ Heartbeat(l) /\ NoFault /\ Goes(l, "setup")
     \/ ~Recognised(l) /\ UNCHANGED vars /\ NoFault /\ GoesToEnd(l)
     \/ Fault /\ (Heartbeat(l) \/ UNCHANGED vars) /\ GoesToEnd(l)
  /\ UNCHANGED executor

MakeDirectory(l) ==
  /\ launch[l].pc = "setup"
  /\ \/ MakeAttemptDir(l) /\ NoFault /\ Goes(l, "made")
     \/ Fault /\ UNCHANGED vars /\ GoesToSubmit(l, "failed")
  /\ UNCHANGED executor

\* Mutant: the lease is not proved again once the directory is made.
RevalidateNot(l) ==
  /\ launch[l].pc = "made"
  /\ IF ShuttingDown(l) THEN GoesToSubmit(l, "cancelled") ELSE Goes(l, "launching")
  /\ UNCHANGED <<vars, executor, faults>>

\* Mutant: a shutdown during the setup goes unnoticed.
RevalidateOnly(l) ==
  /\ launch[l].pc = "made"
  /\ \/ Heartbeat(l) /\ NoFault /\ Goes(l, "launching")
     \/ ~Recognised(l) /\ UNCHANGED vars /\ NoFault /\ GoesToSubmit(l, "failed")
  /\ UNCHANGED executor

Revalidate(l) ==
  /\ launch[l].pc = "made"
  /\ \/ /\ Heartbeat(l) /\ NoFault
        /\ IF ShuttingDown(l) THEN GoesToSubmit(l, "cancelled") ELSE Goes(l, "launching")
     \/ ~Recognised(l) /\ UNCHANGED vars /\ NoFault /\ GoesToSubmit(l, "failed")
     \/ Fault /\ (Heartbeat(l) \/ UNCHANGED vars) /\ GoesToSubmit(l, "failed")
  /\ UNCHANGED executor

\* An abort that comes before the process starts kills it once it has.
StartWorker(l) ==
  /\ launch[l].pc = "launching"
  /\ \/ launch' = [launch EXCEPT ![l].pc = "running", ![l].started = TRUE] /\ NoFault
     \/ launch' = [launch EXCEPT ![l].pc = "finished", ![l].result = "failed"] /\ Fault
  /\ UNCHANGED <<vars, executor>>

\* One that is killed for an abort counts as cancelled, unless its time limit had
\* it killed before.
WorkerExits(l, result) ==
  /\ launch[l].pc = "running"
  /\ result \in IF launch[l].aborted THEN {"cancelled", "failed"} ELSE {"completed", "failed"}
  /\ launch' = [launch EXCEPT ![l].pc = "exited", ![l].result = result]
  /\ UNCHANGED <<vars, executor, faults>>

\* The launch goes on when everybody who holds the worker's output has closed it.
\* A tool may hold it for ever: once the worker has exited, an abort kills nobody.
StreamsClose(l) ==
  /\ launch[l].pc = "exited"
  /\ Goes(l, "finished")
  /\ UNCHANGED <<vars, executor, faults>>

\* A worker whose lease was lost has its end kept to itself; one cancelled by a
\* shutdown, or by nothing, is reported.
Conclude(l) ==
  /\ launch[l].pc = "finished"
  /\ IF launch[l].aborted /\ ~ShuttingDown(l) THEN GoesToEnd(l)
     ELSE GoesToSubmit(l, launch[l].result)
  /\ UNCHANGED <<vars, executor, faults>>

Submit(l) ==
  /\ launch[l].pc = "submitting"
  /\ \/ RecordResult(l, launch[l].result) /\ NoFault
     \/ ~Recognised(l) /\ UNCHANGED vars /\ NoFault
     \/ Fault /\ (RecordResult(l, launch[l].result) \/ UNCHANGED vars)
  /\ GoesToEnd(l)
  /\ UNCHANGED executor

-----------------------------------------------------------------------------
(* The monitor of a launch: monitorLeaseControl.  Its calls come at         *)
(* intervals, which nothing makes shorter than a lease: heartbeats may come *)
(* too late, or fail.  Its last call may be answered after the worker ended.*)

HasMonitor(l) == launch[l].pc \in {"launching", "running", "exited", "finished"}

Monitored(l) == HasMonitor(l) /\ ~launch[l].aborted

\* A call under way when the launch is aborted is still answered.
MonitorHeartbeat(l) == HasMonitor(l) /\ Heartbeat(l) /\ UNCHANGED execVars

\* Mutant: only the end of the whole group ends a worker.
ShouldAbortStopped(l) == group = "stopped"

ShouldAbort(l) == group = "stopped" \/ lease[l].status # "active"

MonitorAborts(l) ==
  /\ Monitored(l) /\ ShouldAbort(l)
  /\ launch' = [launch EXCEPT ![l].aborted = TRUE]
  /\ UNCHANGED <<vars, executor, faults>>

-----------------------------------------------------------------------------
(* Shutdown and crash of an executor, and what others do.                   *)

RequestShutdown(e) ==
  /\ executor[e].mode = "up"
  /\ executor' = [executor EXCEPT ![e].mode = "shutdown"]
  /\ launch' = [l \in Leases |->
       IF launch[l].by = e /\ launch[l].pc \in {"launching", "running", "exited"}
       THEN [launch[l] EXCEPT !.aborted = TRUE] ELSE launch[l]]
  /\ UNCHANGED <<vars, faults>>

\* The process dies; a worker it started may go on for any time.
ExecutorCrash(e) ==
  /\ executor[e].mode # "gone" /\ Fault
  /\ executor' = [executor EXCEPT ![e] =
       [@ EXCEPT !.mode = "gone", !.tick = "polling", !.left = 0]]
  /\ launch' = [l \in Leases |->
       IF launch[l].by = e /\ UnderWay(l)
       THEN [launch[l] EXCEPT !.pc = IF @ = "running" THEN "orphaned" ELSE "ended"]
       ELSE launch[l]]
  /\ UNCHANGED vars

\* Before a heartbeat the monitor looks for the newest file of the attempt, and
\* throws when one that it has just listed is gone.  Nobody waits for it before
\* the launch has ended: the process dies of an unhandled rejection.  If the
\* launch has ended meanwhile, its end is not submitted.
MonitorFails(l) ==
  /\ HasMonitor(l)
  /\ IF launch[l].pc = "finished" THEN Fault /\ GoesToEnd(l) /\ UNCHANGED <<vars, executor>>
     ELSE ExecutorCrash(launch[l].by)

\* An operator pauses or stops the group, retries an item or cancels an attempt.
Intervene ==
  /\ \/ Pause
     \/ Stop
     \/ \E i \in Items : Retry(i)
     \/ \E l \in Leases : RecordResult(l, "cancelled")
  /\ UNCHANGED execVars

TimePasses == Tick /\ UNCHANGED execVars

ExecutorStep(e) ==
  Poll(e) \/ Recover(e) \/ RefuseGroup(e) \/ TakeLeases(e) \/ TakesNone(e) \/ EndTick(e)

LaunchStep(l) ==
  \/ Enter(l) \/ ProveLease(l) \/ MakeDirectory(l) \/ Revalidate(l) \/ StartWorker(l)
  \/ Conclude(l) \/ Submit(l)

Worker(l) == \E result \in ResultStatus : WorkerExits(l, result)

ExecutorNext ==
  \/ \E e \in Executors : ExecutorStep(e) \/ RequestShutdown(e) \/ ExecutorCrash(e)
  \/ \E l \in Leases :
       \/ LaunchStep(l) \/ Worker(l) \/ StreamsClose(l)
       \/ MonitorHeartbeat(l) \/ MonitorAborts(l) \/ MonitorFails(l)
  \/ Intervene
  \/ TimePasses

\* Executors poll, launches go on, the monitors look, time passes, and a worker
\* process that runs when its launch is aborted is killed.  Any other may run for
\* ever, and what holds a worker's output may hold it for ever.
Fairness ==
  /\ \A e \in Executors : WF_allVars(ExecutorStep(e))
  /\ \A l \in Leases : /\ WF_allVars(LaunchStep(l))
                       /\ WF_allVars(MonitorAborts(l))
                       /\ WF_allVars(launch[l].aborted /\ Worker(l))
  /\ WF_allVars(TimePasses)

ExecutorSpec == ExecutorInit /\ [][ExecutorNext]_allVars /\ Fairness

-----------------------------------------------------------------------------
(* Properties.                                                              *)

LaunchState ==
  [pc : {"none", "granted", "proving", "setup", "made", "launching", "running", "exited",
         "finished", "submitting", "ended", "orphaned"},
   by : Executors \cup {"nobody"}, aborted : BOOLEAN, started : BOOLEAN, result : ResultStatus]

\* The executors' own state is what it may be, and a worker that runs was started
\* for a lease that was granted.
ExecutorTypeOK ==
  /\ executor \in [Executors ->
       [mode : Mode, tick : {"polling", "recovering", "refusing", "taking"},
        left : 0 .. Capacity, fits : BOOLEAN]]
  /\ launch \in [Leases -> LaunchState]
  /\ faults \in 0 .. MaxFaults
  /\ \A l \in Leases : launch[l].pc # "none" => lease[l].status # "none"

\* "This conservative boundary avoids making a second launch appear safe simply
\* because a timer expired" (docs/architecture.md): whoever expires, recovers,
\* retries and takes what in which order, two worker processes are never started
\* for one attempt.
LaunchedOnce ==
  \A l, m \in Leases :
    launch[l].started /\ launch[m].started /\ AttemptOf(l) = AttemptOf(m) => l = m

\* An executor has no more launches under way than it has capacity.
WithinCapacity ==
  /\ ExecutorTypeOK
  /\ \A e \in Executors : Cardinality({l \in LaunchesOf(e) : UnderWay(l)}) <= Capacity

\* A shutdown "cancels only its own active worker processes" (docs/execution.md),
\* all of them: none escapes it between its setup and its start.
ShutdownCancels ==
  \A l \in Leases :
    launch[l].pc \in {"launching", "running", "exited"} /\ ShuttingDown(l) => launch[l].aborted

SomeoneUp == \E e \in Executors : executor[e].mode = "up"

\* As long as an executor is up, no worker runs for ever (a time limit for workers
\* is optional) and nothing holds a worker's output for ever, no lease stays active
\* for ever: it ends with its launch, or its expiry is seen by whichever executor
\* polls.
WorkersEnd == \A l \in Leases : []<>(launch[l].pc \notin {"running", "exited"})

LeasesEnd ==
  WorkersEnd => \A l \in Leases : l \in Active ~> l \notin Active \/ ~SomeoneUp

\* The worker process of a lease that was taken away is stopped, if its executor
\* is there; nothing is said of its launch, which waits for the worker's output.
LostWorkersStop ==
  \A l \in Leases :
    launch[l].pc = "running" /\ lease[l].status # "active" ~> launch[l].pc # "running"
=============================================================================
