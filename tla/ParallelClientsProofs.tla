----------------------- MODULE ParallelClientsProofs ------------------------
(***************************************************************************)
(* Proofs about the two clients of a group's rows: the executors           *)
(* (ParallelExecutor), for any number of them and of leases and faults,    *)
(* and the requests that change the group and its run (ParallelRun), for   *)
(* any number in flight.  Whatever either does is a step of the store or   *)
(* leaves the group alone, so the group's invariant GroupInv carries over; *)
(* what is added says what a launch, and a request, may rely on.           *)
(***************************************************************************)
EXTENDS ParallelExecutor, ParallelRun, ParallelGroupProofs

-----------------------------------------------------------------------------
(* The executors' invariant.  LaunchedOnce is not inductive: a worker       *)
(* process may be started only because its attempt is claimed.  The claim   *)
(* is made by the heartbeat that follows the making of the directory, and   *)
(* no expiry, recovery or retry undoes it.                                  *)

\* A worker process was started for the lease, or nothing can prevent it now.
Launching(l) == launch[l].started \/ launch[l].pc = "launching"

\* The attempt of the lease will not be given to anybody else, and nobody else
\* to whom it was given will launch it.
Claims(l) ==
  /\ lease[l].status # "none"
  /\ lease[l].attempt \in 1 .. Len(attempts[lease[l].item])
  /\ AttemptStatusOf(l) # "created"
  /\ AttemptOf(l) \in dirs
  /\ \A m \in Leases \ {l} :
       lease[m].status # "none" /\ AttemptOf(m) = AttemptOf(l)
         => lease[m].status # "active" /\ ~Launching(m)

LaunchesUnderWay(e) == {l \in LaunchesOf(e) : UnderWay(l)}

\* A tick takes leases only while none of an earlier tick is under way, and what
\* it may still take fits with what it took.
Room(e) ==
  /\ executor[e].left <= MaxConcurrency
  /\ executor[e].tick # "taking" => LaunchesUnderWay(e) = {}
  /\ Cardinality(LaunchesUnderWay(e)) + executor[e].left <= Capacity

Owned == \A l \in Leases : launch[l].pc # "none" => launch[l].by \in Executors

DirectoryMade == \A l \in Leases : launch[l].pc = "made" => AttemptOf(l) \in dirs

LaunchesClaim == \A l \in Leases : Launching(l) => Claims(l)

EveryRoom == \A e \in Executors : Room(e)

ExecInv ==
  /\ GroupInv
  /\ ExecutorTypeOK
  /\ Owned
  /\ DirectoryMade
  /\ LaunchesClaim
  /\ EveryRoom
  /\ ShutdownCancels

-----------------------------------------------------------------------------
(* What any step of the store keeps.                                        *)

\* A lease row in use stays with its attempt, and does not become active again.
LEMMA LeasesKept ==
  ASSUME TypeInv, [Next]_vars, NEW l \in Leases, lease[l].status # "none"
  PROVE  /\ lease'[l].status # "none"
         /\ lease'[l].item = lease[l].item
         /\ lease'[l].attempt = lease[l].attempt
         /\ lease[l].status # "active" => lease'[l].status # "active"
<1>1. lease \in [Leases -> LeaseRow] /\ lease[l] \in LeaseRow
  BY DEF TypeInv, TypeOK
<1>2. CASE \E capacity \in 1 .. MaxConcurrency : Grant(capacity)
  BY <1>2 DEF Grant, GrantLeases
<1>3. CASE \E k \in Leases : Heartbeat(k)
  BY <1>1, <1>3 DEF Heartbeat, LeaseRow
<1>4. CASE \E k \in Leases, result \in ResultStatus : RecordResult(k, result)
  BY <1>1, <1>4 DEF RecordResult, Active, Ended
<1>5. CASE \E lead \in 0 .. MaxLead : RecoverStale(lead)
  BY <1>5 DEF RecoverStale, Ended
<1>6. CASE Stop
  BY <1>6 DEF Stop, Ended
<1>7. CASE Tick
  BY <1>1, <1>7 DEF Tick, LeaseRow
<1>8. CASE UNCHANGED lease
  BY <1>8
<1>9. QED
  BY <1>2, <1>3, <1>4, <1>5, <1>6, <1>7, <1>8
     DEF Next, vars, PreflightChecks, RecordPreflight, Retry, Pause, MakeAttemptDir

\* Only a grant puts a row in use, and for an attempt nobody has worked on.
LEMMA FreshAttempt ==
  ASSUME GroupInv, [Next]_vars, NEW m \in Leases,
         lease[m].status = "none", lease'[m].status # "none",
         lease'[m].attempt \in 1 .. Len(attempts[lease'[m].item])
  PROVE  attempts[lease'[m].item][lease'[m].attempt] = "created"
<1>1. lease \in [Leases -> LeaseRow] /\ lease[m] \in LeaseRow
  BY DEF GroupInv, TypeInv, TypeOK
<1>2. CASE \E capacity \in 1 .. MaxConcurrency : Grant(capacity)
  <2>1. PICK chosen \in SUBSET LeaseCandidates, fresh \in SUBSET Leases :
          GrantLeases(chosen, fresh)
    BY <1>2 DEF Grant
  <2>2. PICK i \in chosen : lease'[m].item = i /\ lease'[m].attempt = AttemptToLease(i)
    BY <2>1 DEF GrantLeases, Bijection, Injection
  <2>3. i \in Items /\ Startable(i) /\ RowsAgree(i) /\ attempts[i] \in Seq(AttemptStatus)
    BY <2>2 DEF LeaseCandidates, GroupInv, TypeInv, TypeOK
  <2>4. CASE latest[i] = 0
    BY <2>2, <2>3, <2>4 DEF AttemptToLease
  <2>5. CASE latest[i] # 0
    BY <2>2, <2>3, <2>5 DEF AttemptToLease, Startable
  <2>6. QED BY <2>4, <2>5
<1>3. CASE \E k \in Leases : Heartbeat(k)
  BY <1>1, <1>3 DEF Heartbeat, Active, LeaseRow
<1>4. CASE \E k \in Leases, result \in ResultStatus : RecordResult(k, result)
  BY <1>1, <1>4 DEF RecordResult, Active
<1>5. CASE \E lead \in 0 .. MaxLead : RecoverStale(lead)
  BY <1>5 DEF RecoverStale, StaleLeases, Active
<1>6. CASE Stop
  BY <1>6 DEF Stop, Active
<1>7. CASE Tick
  BY <1>1, <1>7 DEF Tick, LeaseRow
<1>8. CASE UNCHANGED lease
  BY <1>8
<1>9. QED
  BY <1>2, <1>3, <1>4, <1>5, <1>6, <1>7, <1>8
     DEF Next, vars, PreflightChecks, RecordPreflight, Retry, Pause, MakeAttemptDir

LEMMA DirsKept ==
  ASSUME [Next]_vars
  PROVE  dirs \subseteq dirs'
BY DEF Next, vars, PreflightChecks, RecordPreflight, Grant, GrantLeases, Heartbeat, RecordResult,
       Retry, RecoverStale, Pause, Stop, MakeAttemptDir, Tick

\* An attempt that was begun and has its directory is never again one to lease.
LEMMA BegunStaysBegun ==
  ASSUME GroupInv, [Next]_vars, NEW i \in Items, NEW n \in 1 .. Len(attempts[i]),
         attempts[i][n] # "created", <<i, n>> \in dirs
  PROVE  n \in 1 .. Len(attempts'[i]) /\ attempts'[i][n] # "created"
<1>1. (KeepsEvidence /\ KeepsStarted) \/ UNCHANGED vars
  BY StepEvidence, StepStarted
<1>2. attempts[i] \in Seq(AttemptStatus) /\ attempts'[i] \in Seq(AttemptStatus)
  BY StepGroup DEF GroupInv, TypeInv, TypeOK
<1>3. Len(attempts'[i]) >= Len(attempts[i])
  BY <1>1, <1>2 DEF KeepsEvidence, vars
<1>4. attempts'[i][n] # "created"
  BY <1>1 DEF KeepsEvidence, KeepsStarted, Finished, vars
<1>5. QED BY <1>2, <1>3, <1>4

-----------------------------------------------------------------------------
(* Every step of the executors is a step of the store, or leaves it alone.  *)

LEMMA BatchSized ==
  ASSUME ExecInv, NEW e \in Executors, executor[e].left > 0
  PROVE  Batch(e) \in 1 .. MaxConcurrency /\ Batch(e) <= executor[e].left
BY ExecutorsAssumption, BoundsAssumption DEF ExecInv, ExecutorTypeOK, EveryRoom, Room, Batch

LEMMA ExecutorStepIsStoreStep == ExecInv /\ [ExecutorNext]_allVars => [Next]_vars
<1>1. SUFFICES ASSUME ExecInv, [ExecutorNext]_allVars, ~UNCHANGED vars PROVE Next
  OBVIOUS
<1>2. ASSUME NEW e \in Executors,
             ExecutorStep(e) \/ RequestShutdown(e) \/ ExecutorCrash(e)
      PROVE  Next
  <2>1. CASE Recover(e)
    BY <1>1, <2>1, BoundsAssumption DEF Recover, Next
  <2>2. CASE RefuseGroup(e)
    BY <1>1, <2>2 DEF RefuseGroup, Next
  <2>3. CASE TakeLeases(e) \/ TakesNone(e)
    BY <1>1, <2>3, BatchSized DEF TakeLeases, TakesNone, Next
  <2>4. QED
    BY <1>1, <1>2, <2>1, <2>2, <2>3
       DEF ExecutorStep, Poll, EndTick, RequestShutdown, ExecutorCrash
<1>3. ASSUME NEW l \in Leases,
             \/ LaunchStep(l) \/ Worker(l) \/ StreamsClose(l)
             \/ MonitorHeartbeat(l) \/ MonitorAborts(l) \/ MonitorFails(l)
      PROVE  Next
  <2>1. CASE ProveLease(l) \/ Revalidate(l) \/ MonitorHeartbeat(l)
    BY <1>1, <2>1 DEF ProveLease, Revalidate, MonitorHeartbeat, Next
  <2>2. CASE MakeDirectory(l)
    BY <1>1, <2>2 DEF MakeDirectory, Next
  <2>3. CASE Submit(l)
    <3>1. launch[l].result \in ResultStatus
      BY <1>1 DEF ExecInv, ExecutorTypeOK, LaunchState
    <3>2. QED BY <1>1, <2>3, <3>1 DEF Submit, Next
  <2>4. QED
    BY <1>1, <1>3, <2>1, <2>2, <2>3
       DEF LaunchStep, Enter, StartWorker, Conclude, Worker, WorkerExits, StreamsClose, MonitorAborts,
           MonitorFails, ExecutorCrash
<1>4. CASE Intervene
  <2>1. "cancelled" \in ResultStatus
    BY DEF ResultStatus
  <2>2. QED BY <1>4, <2>1 DEF Intervene, Next
<1>5. CASE TimePasses
  BY <1>5 DEF TimePasses, Next
<1>6. QED BY <1>1, <1>2, <1>3, <1>4, <1>5 DEF ExecutorNext, allVars

-----------------------------------------------------------------------------
(* What a step of one launch does to it, and to nothing else.               *)

FaultsCounted == faults' \in 0 .. MaxFaults

LaunchMoves(l) ==
  /\ UNCHANGED executor
  /\ FaultsCounted
  /\ launch' \in [Leases -> LaunchState]
  /\ \A m \in Leases \ {l} : launch'[m] = launch[m]
  /\ launch[l].pc # "none" /\ launch'[l].pc # "none"
  /\ launch'[l].by = launch[l].by
  /\ UnderWay(l)' => UnderWay(l)
  /\ Launching(l)' => Launching(l) \/ (launch[l].pc = "made" /\ Heartbeat(l))
  /\ launch'[l].pc = "made" => AttemptOf(l) \in dirs'
  /\ launch'[l].pc \in {"launching", "running", "exited"} /\ ShuttingDown(l) => launch'[l].aborted

LEMMA FaultCounts == ASSUME ExecutorTypeOK, Fault \/ NoFault PROVE FaultsCounted
BY ExecutorsAssumption DEF ExecutorTypeOK, Fault, NoFault, FaultsCounted

LEMMA LaunchRewritten ==
  ASSUME ExecutorTypeOK, NEW l \in Leases, NEW r \in LaunchState,
         launch' = [launch EXCEPT ![l] = r], r.by = launch[l].by, r.pc # "none",
         UNCHANGED executor, FaultsCounted, UnderWay(l),
         r.started = launch[l].started \/ Launching(l),
         r.pc = "launching" => Launching(l) \/ (launch[l].pc = "made" /\ Heartbeat(l)),
         r.pc = "made" => AttemptOf(l) \in dirs',
         r.pc \in {"launching", "running", "exited"} /\ ShuttingDown(l) => r.aborted
  PROVE  LaunchMoves(l)
<1>1. launch'[l] = r /\ \A m \in Leases \ {l} : launch'[m] = launch[m]
  BY DEF ExecutorTypeOK
<1>2. launch' \in [Leases -> LaunchState]
  BY DEF ExecutorTypeOK
<1>3. launch[l].pc # "none" /\ launch'[l].pc # "none" /\ launch'[l].by = launch[l].by
  BY <1>1 DEF UnderWay
<1>4. Launching(l)' => Launching(l) \/ (launch[l].pc = "made" /\ Heartbeat(l))
  BY <1>1 DEF Launching
<1>5. launch'[l].pc = "made" => AttemptOf(l) \in dirs'
  BY <1>1
<1>6. launch'[l].pc \in {"launching", "running", "exited"} /\ ShuttingDown(l) => launch'[l].aborted
  BY <1>1
<1>7. QED BY <1>1, <1>2, <1>3, <1>4, <1>5, <1>6 DEF LaunchMoves

\* Nothing is asked of a step to a pc that is of no consequence.
LEMMA LaunchLeft ==
  ASSUME ExecutorTypeOK, NEW l \in Leases, NEW r \in LaunchState,
         r.pc \in {"proving", "setup", "finished", "submitting", "ended"},
         r.by = launch[l].by, r.started = launch[l].started,
         launch' = [launch EXCEPT ![l] = r],
         UNCHANGED executor, FaultsCounted, UnderWay(l)
  PROVE  LaunchMoves(l)
BY LaunchRewritten

LEMMA LaunchGoes ==
  ASSUME ExecutorTypeOK, NEW l \in Leases,
         NEW pc \in {"proving", "setup", "finished"}, Goes(l, pc),
         UNCHANGED executor, FaultsCounted, UnderWay(l)
  PROVE  LaunchMoves(l)
<1> DEFINE r == [launch[l] EXCEPT !.pc = pc]
<1>1. launch[l] \in LaunchState
  BY DEF ExecutorTypeOK
<1>2. r \in LaunchState /\ r.by = launch[l].by /\ r.started = launch[l].started /\ r.pc = pc
  BY <1>1 DEF LaunchState
<1>3. launch' = [launch EXCEPT ![l] = r]
  BY DEF Goes
<1> HIDE DEF r
<1>4. QED BY <1>2, <1>3, LaunchLeft

LEMMA LaunchEnds ==
  ASSUME ExecutorTypeOK, NEW l \in Leases, GoesToEnd(l),
         UNCHANGED executor, FaultsCounted, UnderWay(l)
  PROVE  LaunchMoves(l)
<1> DEFINE r == [NoLaunch EXCEPT !.pc = "ended", !.by = launch[l].by, !.started = launch[l].started]
<1>1. launch[l] \in LaunchState
  BY DEF ExecutorTypeOK
<1>2. r \in LaunchState /\ r.by = launch[l].by /\ r.started = launch[l].started /\ r.pc = "ended"
  BY <1>1 DEF LaunchState, NoLaunch, ResultStatus
<1>3. launch' = [launch EXCEPT ![l] = r]
  BY DEF GoesToEnd, NoLaunch
<1> HIDE DEF r
<1>4. QED BY <1>2, <1>3, LaunchLeft

LEMMA LaunchSubmits ==
  ASSUME ExecutorTypeOK, NEW l \in Leases, NEW result \in ResultStatus, GoesToSubmit(l, result),
         UNCHANGED executor, FaultsCounted, UnderWay(l)
  PROVE  LaunchMoves(l)
<1> DEFINE r == [launch[l] EXCEPT !.pc = "submitting", !.result = result, !.aborted = FALSE]
<1>1. launch[l] \in LaunchState
  BY DEF ExecutorTypeOK
<1>2. /\ r \in LaunchState /\ r.by = launch[l].by /\ r.started = launch[l].started
      /\ r.pc = "submitting"
  BY <1>1 DEF LaunchState
<1>3. launch' = [launch EXCEPT ![l] = r]
  BY DEF GoesToSubmit
<1> HIDE DEF r
<1>4. QED BY <1>2, <1>3, LaunchLeft

LEMMA LaunchSteps ==
  ASSUME ExecInv, NEW l \in Leases,
         \/ LaunchStep(l) \/ Worker(l) \/ StreamsClose(l) \/ MonitorAborts(l)
         \/ MonitorFails(l) /\ launch[l].pc = "finished"
  PROVE  LaunchMoves(l)
<1>1. ExecutorTypeOK /\ launch[l] \in LaunchState /\ launch \in [Leases -> LaunchState]
  BY DEF ExecInv, ExecutorTypeOK
<1>2. UnderWay(l) /\ FaultsCounted /\ UNCHANGED executor
  BY <1>1, FaultCounts
     DEF LaunchStep, Enter, ProveLease, MakeDirectory, Revalidate, StartWorker, Conclude, Submit,
         Worker, WorkerExits, StreamsClose, MonitorAborts, Monitored, HasMonitor, MonitorFails,
         NoFault, UnderWay
<1>3. Goes(l, "proving") \/ Goes(l, "setup") \/ Goes(l, "finished") \/ GoesToEnd(l) => LaunchMoves(l)
  <2>1. ASSUME NEW pc \in {"proving", "setup", "finished"}, Goes(l, pc)
        PROVE  LaunchMoves(l)
    BY <1>1, <1>2, <2>1, LaunchGoes
  <2>2. QED BY <1>1, <1>2, <2>1, LaunchEnds
<1>4. ASSUME NEW result \in ResultStatus, GoesToSubmit(l, result)
      PROVE  LaunchMoves(l)
  BY <1>1, <1>2, <1>4, LaunchSubmits
<1>5. CASE Enter(l)
  BY <1>3, <1>4, <1>5 DEF Enter, ResultStatus
<1>6. CASE ProveLease(l)
  BY <1>3, <1>6 DEF ProveLease
<1>7. CASE MakeDirectory(l)
  <2>1. CASE GoesToSubmit(l, "failed")
    BY <1>4, <2>1 DEF ResultStatus
  <2>2. CASE MakeAttemptDir(l) /\ Goes(l, "made")
    <3> DEFINE r == [launch[l] EXCEPT !.pc = "made"]
    <3>1. r \in LaunchState /\ r.by = launch[l].by /\ r.started = launch[l].started /\ r.pc = "made"
      BY <1>1 DEF LaunchState
    <3>2. launch' = [launch EXCEPT ![l] = r] /\ AttemptOf(l) \in dirs'
      BY <2>2 DEF Goes, MakeAttemptDir
    <3> HIDE DEF r
    <3>3. QED BY <1>1, <1>2, <3>1, <3>2, LaunchRewritten
  <2>3. QED BY <1>7, <2>1, <2>2 DEF MakeDirectory
<1>8. CASE Revalidate(l)
  <2>1. CASE GoesToSubmit(l, "failed") \/ GoesToSubmit(l, "cancelled")
    BY <1>4, <2>1 DEF ResultStatus
  <2>2. CASE Heartbeat(l) /\ Goes(l, "launching") /\ ~ShuttingDown(l)
    <3> DEFINE r == [launch[l] EXCEPT !.pc = "launching"]
    <3>1. r \in LaunchState /\ r.by = launch[l].by /\ r.started = launch[l].started
          /\ r.pc = "launching"
      BY <1>1 DEF LaunchState
    <3>2. launch' = [launch EXCEPT ![l] = r] /\ launch[l].pc = "made"
      BY <1>8, <2>2 DEF Goes, Revalidate
    <3> HIDE DEF r
    <3>3. QED BY <1>1, <1>2, <2>2, <3>1, <3>2, LaunchRewritten
  <2>3. QED BY <1>8, <2>1, <2>2 DEF Revalidate
<1>9. CASE StartWorker(l)
  <2>1. Launching(l) /\ (ShuttingDown(l) => launch[l].aborted)
    BY <1>9 DEF StartWorker, Launching, ExecInv, ShutdownCancels
  <2>2. CASE launch' = [launch EXCEPT ![l].pc = "running", ![l].started = TRUE]
    <3> DEFINE r == [launch[l] EXCEPT !.pc = "running", !.started = TRUE]
    <3>1. r \in LaunchState /\ r.by = launch[l].by /\ r.aborted = launch[l].aborted
          /\ r.pc = "running"
      BY <1>1 DEF LaunchState
    <3>2. launch' = [launch EXCEPT ![l] = r]
      BY <1>1, <2>2 DEF LaunchState
    <3> HIDE DEF r
    <3>3. QED BY <1>1, <1>2, <2>1, <3>1, <3>2, LaunchRewritten
  <2>3. CASE launch' = [launch EXCEPT ![l].pc = "finished", ![l].result = "failed"]
    <3> DEFINE r == [launch[l] EXCEPT !.pc = "finished", !.result = "failed"]
    <3>1. /\ r \in LaunchState /\ r.by = launch[l].by /\ r.started = launch[l].started
          /\ r.pc = "finished"
      BY <1>1 DEF LaunchState, ResultStatus
    <3>2. launch' = [launch EXCEPT ![l] = r]
      BY <1>1, <2>3 DEF LaunchState
    <3> HIDE DEF r
    <3>3. QED BY <1>1, <1>2, <3>1, <3>2, LaunchLeft
  <2>4. QED BY <1>9, <2>2, <2>3 DEF StartWorker
<1>10. CASE Worker(l)
  <2>1. PICK result \in ResultStatus :
          launch' = [launch EXCEPT ![l].pc = "exited", ![l].result = result]
    BY <1>10 DEF Worker, WorkerExits
  <2>2. ShuttingDown(l) => launch[l].aborted
    BY <1>10 DEF Worker, WorkerExits, ExecInv, ShutdownCancels
  <2> DEFINE r == [launch[l] EXCEPT !.pc = "exited", !.result = result]
  <2>3. /\ r \in LaunchState /\ r.by = launch[l].by /\ r.started = launch[l].started
        /\ r.aborted = launch[l].aborted /\ r.pc = "exited"
    BY <1>1 DEF LaunchState
  <2>4. launch' = [launch EXCEPT ![l] = r]
    BY <1>1, <2>1 DEF LaunchState
  <2>5. launch[l].pc # "launching"
    BY <1>10 DEF Worker, WorkerExits
  <2> HIDE DEF r
  <2>6. QED BY <1>1, <1>2, <2>2, <2>3, <2>4, <2>5, LaunchRewritten DEF Launching
<1>11. CASE Conclude(l)
  <2>1. launch[l].result \in ResultStatus
    BY <1>1 DEF LaunchState
  <2>2. QED BY <1>3, <1>4, <1>11, <2>1 DEF Conclude
<1>12. CASE Submit(l)
  BY <1>3, <1>12 DEF Submit
<1>13. CASE MonitorAborts(l)
  <2> DEFINE r == [launch[l] EXCEPT !.aborted = TRUE]
  <2>1. r \in LaunchState /\ r.by = launch[l].by /\ r.started = launch[l].started
        /\ r.pc = launch[l].pc /\ r.aborted
    BY <1>1 DEF LaunchState
  <2>2. launch' = [launch EXCEPT ![l] = r]
    BY <1>13 DEF MonitorAborts
  <2>3. r.pc \notin {"none", "made"} /\ (r.pc = "launching" => Launching(l))
    BY <1>13, <2>1 DEF MonitorAborts, Monitored, HasMonitor, Launching
  <2> HIDE DEF r
  <2>4. QED BY <1>1, <1>2, <2>1, <2>2, <2>3, LaunchRewritten
<1>14. CASE MonitorFails(l) /\ launch[l].pc = "finished"
  BY <1>3, <1>14 DEF MonitorFails
<1>15. CASE StreamsClose(l)
  BY <1>3, <1>15 DEF StreamsClose
<1>16. QED
  BY <1>5, <1>6, <1>7, <1>8, <1>9, <1>10, <1>11, <1>12, <1>13, <1>14, <1>15 DEF LaunchStep

-----------------------------------------------------------------------------
(* What any step does to every launch.                                      *)

LaunchAllowed(l) ==
  /\ launch'[l] \in LaunchState
  /\ launch'[l].pc # "none" => lease'[l].status # "none" /\ launch'[l].by \in Executors
  /\ Launching(l)' => Launching(l) \/ (launch[l].pc = "made" /\ Heartbeat(l))
  /\ launch'[l].pc = "made" => lease[l].status # "none" /\ AttemptOf(l) \in dirs'
  /\ launch'[l].pc \in {"launching", "running", "exited"} /\ executor'[launch'[l].by].mode = "shutdown"
       => launch'[l].aborted

EveryLaunchMoves == \A l \in Leases : LaunchAllowed(l)

\* The leases of the launches, and the steps that are of one launch.
LEMMA LaunchesLeased ==
  ASSUME ExecInv, [Next]_vars, NEW l \in Leases, launch[l].pc # "none"
  PROVE  /\ lease[l].status # "none" /\ lease'[l].status # "none"
         /\ launch[l].by \in Executors
         /\ launch[l].pc = "made" => AttemptOf(l) \in dirs'
<1>1. lease[l].status # "none" /\ launch[l].by \in Executors
  BY DEF ExecInv, ExecutorTypeOK, Owned
<1>2. lease'[l].status # "none"
  BY <1>1, LeasesKept DEF ExecInv, GroupInv
<1>3. launch[l].pc = "made" => AttemptOf(l) \in dirs'
  BY DirsKept DEF ExecInv, DirectoryMade
<1>4. QED BY <1>1, <1>2, <1>3

LEMMA OneLaunchMoves ==
  ASSUME ExecInv, [Next]_vars, NEW l \in Leases, LaunchMoves(l)
  PROVE  EveryLaunchMoves
<1> SUFFICES ASSUME NEW m \in Leases PROVE LaunchAllowed(m)
  BY DEF EveryLaunchMoves
<1>1. CASE m = l
  <2>1. lease[m].status # "none" /\ lease'[m].status # "none" /\ launch'[m].by \in Executors
    BY <1>1, LaunchesLeased DEF LaunchMoves
  <2>2. QED BY <1>1, <2>1 DEF LaunchAllowed, LaunchMoves, ShuttingDown
<1>2. CASE m # l
  <2>1. launch'[m] = launch[m] /\ executor' = executor /\ launch[m] \in LaunchState
    BY <1>2 DEF LaunchMoves, ExecInv, ExecutorTypeOK
  <2>2. QED
    BY <2>1, LaunchesLeased DEF LaunchAllowed, Launching, ExecInv, ShutdownCancels, ShuttingDown
<1>3. QED BY <1>1, <1>2

LEMMA LaunchesStay ==
  ASSUME ExecInv, [Next]_vars, UNCHANGED launch,
         \A e \in Executors : executor'[e].mode = executor[e].mode
  PROVE  EveryLaunchMoves
<1>1. \A l \in Leases : launch[l] \in LaunchState
  BY DEF ExecInv, ExecutorTypeOK
<1>2. QED
  BY <1>1, LaunchesLeased DEF EveryLaunchMoves, LaunchAllowed, Launching, ExecInv, ShutdownCancels, ShuttingDown

\* What a granted batch is, seen by the executor.
LEMMA BatchGranted ==
  ASSUME ExecInv, NEW e \in Executors, TakeLeases(e)
  PROVE  LET fresh == {l \in Unused : lease'[l].status # "none"}
         IN  /\ IsFiniteSet(fresh) /\ Cardinality(fresh) \in Nat
             /\ Cardinality(fresh) <= Batch(e)
             /\ fresh \subseteq Leases
             /\ \A l \in fresh : launch[l].pc = "none"
<1> DEFINE fresh == {l \in Unused : lease'[l].status # "none"}
<1>1. PICK chosen \in SUBSET LeaseCandidates,
           granted \in SUBSET {l \in Leases : lease[l].status = "none"} :
             FirstCandidates(chosen, AvailableLeases(Batch(e))) /\ GrantLeases(chosen, granted)
  BY DEF TakeLeases, Grant
<1>2. PICK holder \in Bijection(granted, chosen) :
        lease' = [l \in Leases |->
             IF l \in granted
             THEN [status |-> "active", item |-> holder[l],
                   attempt |-> AttemptToLease(holder[l]), expiresIn |-> LeaseTtl]
             ELSE lease[l]]
  BY <1>1 DEF GrantLeases
<1>3. fresh = granted
  BY <1>1, <1>2 DEF Unused
<1>4. fresh \subseteq Leases /\ IsFiniteSet(fresh) /\ Cardinality(fresh) \in Nat
  <2>1. fresh \subseteq Leases
    BY DEF Unused
  <2>2. QED BY <2>1, LeasesAssumption, FS_Subset, FS_CardinalityType
<1>5. Cardinality(chosen) = Cardinality(fresh)
  <2>1. ExistsBijection(fresh, chosen)
    BY <1>2, <1>3 DEF ExistsBijection
  <2>2. QED BY <1>4, <2>1, FS_Bijection
<1>6. AvailableLeases(Batch(e)) <= Batch(e) /\ AvailableLeases(Batch(e)) \in Nat
  <2>1. Batch(e) \in Nat
    BY BatchSized DEF TakeLeases
  <2>2. QED BY <2>1, ActiveFinite, BoundsAssumption DEF AvailableLeases
<1>7. Cardinality(fresh) <= Batch(e)
  <2>1. Cardinality(chosen) <= AvailableLeases(Batch(e))
    BY <1>1 DEF FirstCandidates
  <2>2. Batch(e) \in Nat
    BY BatchSized DEF TakeLeases
  <2>3. QED BY <1>4, <1>5, <1>6, <2>1, <2>2
<1>8. \A l \in fresh : launch[l].pc = "none"
  BY DEF Unused, ExecInv, ExecutorTypeOK
<1>9. QED BY <1>4, <1>7, <1>8

LEMMA TakenLaunches ==
  ASSUME ExecInv, [Next]_vars, NEW e \in Executors, TakeLeases(e)
  PROVE  EveryLaunchMoves
<1> DEFINE fresh == {l \in Unused : lease'[l].status # "none"}
           r == [NoLaunch EXCEPT !.pc = "granted", !.by = e]
<1>1. launch' = [l \in Leases |-> IF l \in fresh THEN r ELSE launch[l]]
  BY DEF TakeLeases
<1>2. r \in LaunchState /\ r.pc = "granted" /\ r.by = e /\ r.started = FALSE
  BY DEF LaunchState, NoLaunch, ResultStatus
<1>3. \A l \in fresh : lease'[l].status # "none"
  OBVIOUS
<1>4. \A d \in Executors : executor'[d].mode = executor[d].mode
  BY DEF TakeLeases, ExecInv, ExecutorTypeOK
<1> HIDE DEF fresh, r
<1>5. SUFFICES ASSUME NEW m \in Leases PROVE LaunchAllowed(m)
  BY DEF EveryLaunchMoves
<1>6. CASE m \in fresh
  BY <1>1, <1>2, <1>3, <1>6 DEF LaunchAllowed, Launching
<1>7. CASE m \notin fresh
  <2>1. launch'[m] = launch[m] /\ launch[m] \in LaunchState
    BY <1>1, <1>7 DEF ExecInv, ExecutorTypeOK
  <2>2. QED
    BY <1>4, <2>1, LaunchesLeased DEF LaunchAllowed, Launching, ExecInv, ShutdownCancels, ShuttingDown
<1>8. QED BY <1>6, <1>7

LEMMA ShutdownLaunches ==
  ASSUME ExecInv, [Next]_vars, NEW e \in Executors, RequestShutdown(e)
  PROVE  EveryLaunchMoves
<1>1. SUFFICES ASSUME NEW m \in Leases PROVE LaunchAllowed(m)
  BY DEF EveryLaunchMoves
<1>2. launch[m] \in LaunchState /\ executor \in [Executors -> [mode : Mode,
         tick : {"polling", "recovering", "refusing", "taking"}, left : 0 .. Capacity, fits : BOOLEAN]]
  BY DEF ExecInv, ExecutorTypeOK
<1>3. CASE launch[m].by = e /\ launch[m].pc \in {"launching", "running", "exited"}
  <2> DEFINE r == [launch[m] EXCEPT !.aborted = TRUE]
  <2>1. launch'[m] = r
    BY <1>3 DEF RequestShutdown
  <2>2. r \in LaunchState /\ r.pc = launch[m].pc /\ r.by = e /\ r.started = launch[m].started /\ r.aborted
    BY <1>2, <1>3 DEF LaunchState
  <2> HIDE DEF r
  <2>3. QED BY <1>3, <2>1, <2>2, LaunchesLeased DEF LaunchAllowed, Launching
<1>4. CASE ~(launch[m].by = e /\ launch[m].pc \in {"launching", "running", "exited"})
  <2>1. launch'[m] = launch[m]
    BY <1>4 DEF RequestShutdown
  <2>2. \A d \in Executors \ {e} : executor'[d].mode = executor[d].mode
    BY DEF RequestShutdown
  <2>3. QED
    BY <1>2, <1>4, <2>1, <2>2, LaunchesLeased DEF LaunchAllowed, Launching, ExecInv, ShutdownCancels, ShuttingDown
<1>5. QED BY <1>3, <1>4

LEMMA CrashLaunches ==
  ASSUME ExecInv, [Next]_vars, NEW e \in Executors, ExecutorCrash(e)
  PROVE  EveryLaunchMoves
<1>1. SUFFICES ASSUME NEW m \in Leases PROVE LaunchAllowed(m)
  BY DEF EveryLaunchMoves
<1>2. launch[m] \in LaunchState /\ executor \in [Executors -> [mode : Mode,
         tick : {"polling", "recovering", "refusing", "taking"}, left : 0 .. Capacity, fits : BOOLEAN]]
  BY DEF ExecInv, ExecutorTypeOK
<1>3. CASE launch[m].by = e /\ UnderWay(m)
  <2> DEFINE r == [launch[m] EXCEPT !.pc = IF launch[m].pc = "running" THEN "orphaned" ELSE "ended"]
  <2>1. launch'[m] = r
    BY <1>3 DEF ExecutorCrash
  <2>2. r \in LaunchState /\ r.pc \in {"orphaned", "ended"} /\ r.by = e /\ r.started = launch[m].started
    BY <1>2, <1>3 DEF LaunchState
  <2>3. launch[m].pc # "none"
    BY <1>3 DEF UnderWay
  <2> HIDE DEF r
  <2>4. QED BY <1>3, <2>1, <2>2, <2>3, LaunchesLeased DEF LaunchAllowed, Launching
<1>4. CASE ~(launch[m].by = e /\ UnderWay(m))
  <2>1. launch'[m] = launch[m]
    BY <1>4 DEF ExecutorCrash
  <2>2. \A d \in Executors \ {e} : executor'[d].mode = executor[d].mode
    BY DEF ExecutorCrash
  <2>3. launch[m].pc \in {"launching", "running", "exited"} => launch[m].by # e
    BY <1>4 DEF UnderWay
  <2>4. QED
    BY <1>2, <2>1, <2>2, <2>3, LaunchesLeased DEF LaunchAllowed, Launching, ExecInv, ShutdownCancels, ShuttingDown
<1>5. QED BY <1>3, <1>4

LEMMA StepLaunches ==
  ASSUME ExecInv, [ExecutorNext]_allVars
  PROVE  EveryLaunchMoves
<1>1. [Next]_vars
  BY ExecutorStepIsStoreStep
<1>2. executor \in [Executors -> [mode : Mode,
         tick : {"polling", "recovering", "refusing", "taking"}, left : 0 .. Capacity, fits : BOOLEAN]]
  BY DEF ExecInv, ExecutorTypeOK
<1>3. ASSUME NEW e \in Executors, ExecutorStep(e) \/ RequestShutdown(e) \/ ExecutorCrash(e)
      PROVE  EveryLaunchMoves
  <2>1. CASE Poll(e) \/ Recover(e) \/ RefuseGroup(e) \/ TakesNone(e) \/ EndTick(e)
    BY <1>1, <1>2, <2>1, LaunchesStay DEF Poll, Recover, RefuseGroup, TakesNone, EndTick
  <2>2. QED
    BY <1>1, <1>3, <2>1, TakenLaunches, ShutdownLaunches, CrashLaunches DEF ExecutorStep
<1>4. ASSUME NEW l \in Leases,
             \/ LaunchStep(l) \/ Worker(l) \/ StreamsClose(l)
             \/ MonitorHeartbeat(l) \/ MonitorAborts(l) \/ MonitorFails(l)
      PROVE  EveryLaunchMoves
  <2>1. CASE MonitorFails(l) /\ launch[l].pc # "finished"
    <3>1. launch[l].by \in Executors /\ ExecutorCrash(launch[l].by)
      BY <2>1 DEF MonitorFails, HasMonitor, ExecInv, Owned
    <3>2. QED BY <1>1, <3>1, CrashLaunches
  <2>2. CASE MonitorHeartbeat(l)
    BY <1>1, <2>2, LaunchesStay DEF MonitorHeartbeat, execVars
  <2>3. QED BY <1>1, <1>4, <2>1, <2>2, LaunchSteps, OneLaunchMoves
<1>5. CASE Intervene \/ TimePasses \/ UNCHANGED allVars
  BY <1>1, <1>5, LaunchesStay DEF Intervene, TimePasses, execVars, allVars
<1>6. QED BY <1>3, <1>4, <1>5 DEF ExecutorNext

-----------------------------------------------------------------------------
(* The claims.                                                              *)

\* An attempt that is claimed is not given to another lease, and the one lease
\* that could still be launching it is the one that claims it.
LEMMA StepClaims ==
  ASSUME ExecInv, [Next]_vars, EveryLaunchMoves
  PROVE  LaunchesClaim'
<1> SUFFICES ASSUME NEW l \in Leases, Launching(l)'
             PROVE  Claims(l)'
  BY DEF LaunchesClaim
<1> DEFINE i == lease[l].item
           n == lease[l].attempt
<1>1. GroupInv /\ LaunchesClaim /\ ExecutorTypeOK /\ TypeInv
  BY DEF ExecInv, GroupInv
<1>2. Launching(l) \/ (launch[l].pc = "made" /\ Heartbeat(l))
  BY DEF EveryLaunchMoves, LaunchAllowed
<1>3. /\ lease[l].status # "none"
      /\ i \in Items
      /\ n \in 1 .. Len(attempts[i])
      /\ attempts[i][n] # "created"
      /\ <<i, n>> \in dirs
      /\ \A m \in Leases \ {l} : lease[m].status # "none" /\ AttemptOf(m) = AttemptOf(l)
           => lease[m].status # "active" /\ ~Launching(m)
  <2>1. CASE Launching(l)
    <3>1. Claims(l)
      BY <1>1, <2>1 DEF LaunchesClaim
    <3>2. QED
      BY <1>1, <3>1 DEF Claims, AttemptOf, AttemptStatusOf, TypeInv, RowsInGroup
  <2>2. CASE launch[l].pc = "made" /\ Heartbeat(l)
    <3>1. l \in Active /\ <<i, n>> \in dirs /\ lease[l].status # "none"
      BY <2>2 DEF Heartbeat, ExecInv, DirectoryMade, AttemptOf, Active
    <3>2. /\ i \in Items /\ n \in 1 .. Len(attempts[i]) /\ attempts[i][n] # "created"
      BY <1>1, <3>1, HolderRows DEF AttemptStatusOf, LiveAttempt
    <3>3. ASSUME NEW m \in Leases \ {l}, lease[m].status # "none", AttemptOf(m) = AttemptOf(l)
          PROVE  lease[m].status # "active" /\ ~Launching(m)
      <4>1. lease[m].item = lease[l].item
        BY <3>3 DEF AttemptOf
      <4>2. m \notin Active
        BY <1>1, <3>1, <4>1 DEF GroupInv, OneHolder
      <4>3. ~Claims(m)
        BY <3>1, <3>3 DEF Claims, Active
      <4>4. QED BY <1>1, <4>2, <4>3 DEF Active, LaunchesClaim
    <3>4. QED BY <3>1, <3>2, <3>3
  <2>3. QED BY <1>2, <2>1, <2>2
<1>4. lease'[l].status # "none" /\ lease'[l].item = i /\ lease'[l].attempt = n
  BY <1>1, <1>3, LeasesKept
<1>5. n \in 1 .. Len(attempts'[i]) /\ attempts'[i][n] # "created" /\ <<i, n>> \in dirs'
  BY <1>1, <1>3, BegunStaysBegun, DirsKept
<1>6. ASSUME NEW m \in Leases \ {l}, lease'[m].status # "none",
             lease'[m].item = i, lease'[m].attempt = n
      PROVE  lease'[m].status # "active" /\ ~Launching(m)'
  <2>1. lease[m].status # "none"
    BY <1>1, <1>3, <1>6, FreshAttempt
  <2>2. lease[m].item = i /\ lease[m].attempt = n
    BY <1>1, <1>6, <2>1, LeasesKept
  <2>3. lease[m].status # "active" /\ ~Launching(m)
    BY <1>3, <2>1, <2>2 DEF AttemptOf
  <2>4. lease'[m].status # "active"
    BY <1>1, <2>1, <2>3, LeasesKept
  <2>5. ~Heartbeat(m)
    BY <2>3 DEF Heartbeat, Active
  <2>6. QED BY <2>3, <2>4, <2>5 DEF EveryLaunchMoves, LaunchAllowed
<1>7. QED BY <1>4, <1>5, <1>6 DEF Claims, AttemptOf, AttemptStatusOf

LEMMA StepDirectories ==
  ASSUME ExecInv, [Next]_vars, EveryLaunchMoves
  PROVE  DirectoryMade'
<1> SUFFICES ASSUME NEW l \in Leases, launch'[l].pc = "made"
             PROVE  AttemptOf(l)' \in dirs'
  BY DEF DirectoryMade
<1>1. lease[l].status # "none" /\ AttemptOf(l) \in dirs'
  BY DEF EveryLaunchMoves, LaunchAllowed
<1>2. AttemptOf(l)' = AttemptOf(l)
  BY <1>1, LeasesKept DEF AttemptOf, ExecInv, GroupInv
<1>3. QED BY <1>1, <1>2

-----------------------------------------------------------------------------
(* The executors' own state, and their room.                                *)

TickPhase == {"polling", "recovering", "refusing", "taking"}

ExecutorState == [mode : Mode, tick : TickPhase, left : 0 .. Capacity, fits : BOOLEAN]

ExecutorsTyped == executor \in [Executors -> ExecutorState]

LEMMA LaunchesFinite ==
  ASSUME NEW e
  PROVE  IsFiniteSet(LaunchesUnderWay(e)) /\ Cardinality(LaunchesUnderWay(e)) \in Nat
<1>1. IsFiniteSet(LaunchesUnderWay(e))
  BY LeasesAssumption, FS_Subset DEF LaunchesUnderWay, LaunchesOf
<1>2. QED BY <1>1, FS_CardinalityType

\* An executor keeps its room when it takes nothing and no launch is added.
LEMMA RoomKept ==
  ASSUME NEW e \in Executors, Room(e), executor[e] \in ExecutorState,
         executor'[e].left <= executor[e].left, executor'[e].left \in Nat,
         executor'[e].tick # "taking" => executor[e].tick # "taking" \/ LaunchesUnderWay(e)' = {},
         LaunchesUnderWay(e)' \subseteq LaunchesUnderWay(e)
  PROVE  Room(e)'
<1>1. /\ IsFiniteSet(LaunchesUnderWay(e)) /\ Cardinality(LaunchesUnderWay(e)) \in Nat
  BY LaunchesFinite
<1>2. /\ Cardinality(LaunchesUnderWay(e)') <= Cardinality(LaunchesUnderWay(e))
      /\ IsFiniteSet(LaunchesUnderWay(e)')
  BY <1>1, FS_Subset
<1>3. Cardinality(LaunchesUnderWay(e)') \in Nat
  BY <1>2, FS_CardinalityType
<1>4. QED
  BY <1>1, <1>2, <1>3, ExecutorsAssumption, BoundsAssumption DEF Room, ExecutorState

LEMMA PollRoom ==
  ASSUME ExecInv, ExecutorsTyped, NEW e \in Executors, Poll(e)
  PROVE  ExecutorsTyped' /\ EveryRoom'
<1>1. AvailableCapacity \in 0 .. Capacity /\ AvailableCapacity <= MaxConcurrency
  BY ActiveFinite, ExecutorsAssumption, BoundsAssumption DEF AvailableCapacity
<1>2. ExecutorsTyped'
  BY <1>1 DEF Poll, ExecutorsTyped, ExecutorState, TickPhase
<1>3. \A d \in Executors : LaunchesUnderWay(d)' = LaunchesUnderWay(d)
  BY DEF Poll, LaunchesUnderWay, LaunchesOf, UnderWay
<1>4. LaunchesUnderWay(e) = {} /\ Cardinality(LaunchesUnderWay(e)) = 0
  BY FS_EmptySet DEF Poll, ExecInv, EveryRoom, Room
<1>5. \A d \in Executors \ {e} : executor'[d] = executor[d]
  BY DEF Poll, ExecutorsTyped
<1>6. \A d \in Executors \ {e} : Room(d)'
  BY <1>3, <1>5 DEF ExecInv, EveryRoom, Room
<1>7. Room(e)'
  <2>1. executor'[e].left = executor[e].left \/ executor'[e].left = AvailableCapacity
    BY DEF Poll, ExecutorsTyped, ExecutorState
  <2>2. executor'[e].left \in 0 .. Capacity /\ executor'[e].left <= MaxConcurrency
    BY <1>1, <2>1 DEF ExecInv, EveryRoom, Room, ExecutorsTyped, ExecutorState
  <2>3. LaunchesUnderWay(e)' = {}
    BY <1>3, <1>4
  <2>4. Cardinality(LaunchesUnderWay(e)') = 0
    BY <2>3, FS_EmptySet
  <2>5. 0 + executor'[e].left <= Capacity
    BY <2>2, ExecutorsAssumption
  <2>6. QED BY <2>2, <2>3, <2>4, <2>5 DEF Room
<1>8. QED BY <1>2, <1>6, <1>7 DEF EveryRoom

LEMMA TakeRoom ==
  ASSUME ExecInv, ExecutorsTyped, NEW e \in Executors, TakeLeases(e)
  PROVE  ExecutorsTyped' /\ EveryRoom'
<1> DEFINE fresh == {l \in Unused : lease'[l].status # "none"}
           r == [NoLaunch EXCEPT !.pc = "granted", !.by = e]
<1>1. /\ IsFiniteSet(fresh) /\ Cardinality(fresh) \in Nat
      /\ Cardinality(fresh) <= Batch(e)
      /\ fresh \subseteq Leases
      /\ \A l \in fresh : launch[l].pc = "none"
  BY BatchGranted
<1>2. /\ launch' = [l \in Leases |-> IF l \in fresh THEN r ELSE launch[l]]
      /\ executor' = [executor EXCEPT ![e].left = Taken(e, fresh)]
  BY DEF TakeLeases
<1>3. r.pc = "granted" /\ r.by = e
  BY DEF NoLaunch
<1>4. /\ executor[e] \in ExecutorState /\ executor[e].left \in Nat
      /\ Batch(e) \in Nat /\ Batch(e) <= executor[e].left
      /\ executor[e].tick = "taking"
  BY BatchSized DEF TakeLeases, ExecutorsTyped, ExecutorState
<1> HIDE DEF fresh, r
<1>5. Taken(e, fresh) \in Nat /\ Taken(e, fresh) <= executor[e].left - Cardinality(fresh)
  BY <1>1, <1>4 DEF Taken
<1>6. Taken(e, fresh) \in 0 .. Capacity
  BY <1>1, <1>4, <1>5, ExecutorsAssumption DEF ExecutorState
<1>7. ExecutorsTyped'
  BY <1>2, <1>6 DEF ExecutorsTyped, ExecutorState
<1>8. ASSUME NEW d \in Executors \ {e} PROVE Room(d)'
  <2>1. executor'[d] = executor[d]
    BY <1>2 DEF ExecutorsTyped
  <2>2. LaunchesUnderWay(d)' = LaunchesUnderWay(d)
    BY <1>1, <1>2, <1>3 DEF LaunchesUnderWay, LaunchesOf, UnderWay
  <2>3. QED BY <2>1, <2>2 DEF ExecInv, EveryRoom, Room
<1>9. Room(e)'
  <2>1. LaunchesUnderWay(e)' = LaunchesUnderWay(e) \cup fresh
    BY <1>1, <1>2, <1>3 DEF LaunchesUnderWay, LaunchesOf, UnderWay
  <2>2. LaunchesUnderWay(e) \cap fresh = {}
    BY <1>1 DEF LaunchesUnderWay, UnderWay
  <2>3. Cardinality(LaunchesUnderWay(e) \cup fresh)
          = Cardinality(LaunchesUnderWay(e)) + Cardinality(fresh)
    <3>1. IsFiniteSet(LaunchesUnderWay(e)) /\ Cardinality(LaunchesUnderWay(e)) \in Nat
      BY LaunchesFinite
    <3>2. Cardinality(LaunchesUnderWay(e) \cap fresh) = 0
      BY <2>2, FS_EmptySet
    <3>3. Cardinality(LaunchesUnderWay(e) \cup fresh)
            = Cardinality(LaunchesUnderWay(e)) + Cardinality(fresh)
                - Cardinality(LaunchesUnderWay(e) \cap fresh)
      BY <1>1, <3>1, FS_Union
    <3>4. QED BY <1>1, <3>1, <3>2, <3>3
  <2>4. executor'[e].left = Taken(e, fresh) /\ executor'[e].tick = "taking"
    BY <1>2, <1>4 DEF ExecutorsTyped, ExecutorState
  <2>5. Cardinality(LaunchesUnderWay(e)) \in Nat /\ Room(e)
    BY LaunchesFinite DEF ExecInv, EveryRoom
  <2>6. QED
    BY <1>1, <1>4, <1>5, <2>1, <2>3, <2>4, <2>5, ExecutorsAssumption, BoundsAssumption DEF Room
<1>10. QED BY <1>7, <1>8, <1>9 DEF EveryRoom

LEMMA TickRoom ==
  ASSUME ExecInv, ExecutorsTyped, NEW e \in Executors,
         Recover(e) \/ RefuseGroup(e) \/ TakesNone(e) \/ EndTick(e)
  PROVE  ExecutorsTyped' /\ EveryRoom'
<1>1. executor[e] \in ExecutorState /\ executor[e].left \in 0 .. Capacity
  BY DEF ExecutorsTyped, ExecutorState
<1>2. ExecutorsTyped'
  <2>1. CASE Recover(e) \/ RefuseGroup(e)
    BY <1>1, <2>1 DEF Recover, RefuseGroup, ExecutorsTyped, ExecutorState, TickPhase
  <2>2. 0 \in 0 .. Capacity
    BY ExecutorsAssumption
  <2>3. CASE TakesNone(e)
    BY <1>1, <2>2, <2>3 DEF TakesNone, ExecutorsTyped, ExecutorState, TickPhase
  <2>4. CASE EndTick(e)
    <3> DEFINE r == [executor[e] EXCEPT !.tick = "polling", !.left = 0]
    <3>1. r \in ExecutorState
      BY <1>1, <2>2 DEF ExecutorState, TickPhase
    <3>2. executor' = [executor EXCEPT ![e] = r]
      BY <1>1, <2>4 DEF EndTick, ExecutorsTyped, ExecutorState
    <3> HIDE DEF r
    <3>3. QED BY <3>1, <3>2 DEF ExecutorsTyped
  <2>5. QED BY <2>1, <2>3, <2>4
<1>3. \A d \in Executors : LaunchesUnderWay(d)' = LaunchesUnderWay(d)
  BY DEF Recover, RefuseGroup, TakesNone, EndTick, LaunchesUnderWay, LaunchesOf, UnderWay
<1>4. \A d \in Executors \ {e} : executor'[d] = executor[d]
  BY DEF Recover, RefuseGroup, TakesNone, EndTick, ExecutorsTyped
<1>5. \A d \in Executors \ {e} : Room(d)'
  BY <1>3, <1>4 DEF ExecInv, EveryRoom, Room
<1>6. Room(e)'
  <2>1. executor'[e].left \in {0, executor[e].left}
    BY <1>1 DEF Recover, RefuseGroup, TakesNone, EndTick, ExecutorsTyped, ExecutorState
  <2>2. executor'[e].tick # "taking" => executor[e].tick # "taking" \/ LaunchesUnderWay(e)' = {}
    BY <1>1, <1>3 DEF Recover, RefuseGroup, TakesNone, EndTick, ExecutorsTyped, ExecutorState,
                      LaunchesUnderWay
  <2>3. executor'[e].left \in Nat /\ executor'[e].left <= executor[e].left
    BY <1>1, <2>1
  <2>4. Room(e)
    BY DEF ExecInv, EveryRoom
  <2>5. QED BY <1>1, <1>3, <2>2, <2>3, <2>4, RoomKept
<1>7. QED BY <1>2, <1>5, <1>6 DEF EveryRoom

LEMMA CrashRoom ==
  ASSUME ExecInv, ExecutorsTyped, NEW e \in Executors, ExecutorCrash(e)
  PROVE  ExecutorsTyped' /\ EveryRoom'
<1>1. ExecutorsTyped'
  <2> DEFINE r == [executor[e] EXCEPT !.mode = "gone", !.tick = "polling", !.left = 0]
  <2>1. executor[e] \in ExecutorState /\ 0 \in 0 .. Capacity
    BY ExecutorsAssumption DEF ExecutorsTyped
  <2>2. r \in ExecutorState
    BY <2>1 DEF ExecutorState, TickPhase, Mode
  <2>3. executor' = [executor EXCEPT ![e] = r]
    BY DEF ExecutorCrash
  <2> HIDE DEF r
  <2>4. QED BY <2>2, <2>3 DEF ExecutorsTyped
<1>2. \A l \in Leases : IF launch[l].by = e /\ UnderWay(l)
        THEN launch'[l].by = e /\ launch'[l].pc \in {"orphaned", "ended"}
        ELSE launch'[l] = launch[l]
  <2>1. \A l \in Leases : launch[l] \in LaunchState
    BY DEF ExecInv, ExecutorTypeOK
  <2>2. QED BY <2>1 DEF ExecutorCrash, LaunchState
<1>3. \A d \in Executors \ {e} :
        executor'[d] = executor[d] /\ LaunchesUnderWay(d)' = LaunchesUnderWay(d)
  BY <1>2 DEF ExecutorCrash, ExecutorsTyped, LaunchesUnderWay, LaunchesOf, UnderWay
<1>4. \A d \in Executors \ {e} : Room(d)'
  BY <1>3 DEF ExecInv, EveryRoom, Room
<1>5. Room(e)'
  <2>1. LaunchesUnderWay(e)' = {}
    BY <1>2 DEF LaunchesUnderWay, LaunchesOf, UnderWay
  <2>2. executor'[e].left = 0
    BY DEF ExecutorCrash, ExecutorsTyped, ExecutorState
  <2>3. QED BY <2>1, <2>2, FS_EmptySet, ExecutorsAssumption, BoundsAssumption DEF Room
<1>6. QED BY <1>1, <1>4, <1>5 DEF EveryRoom

LEMMA ShutdownRoom ==
  ASSUME ExecInv, ExecutorsTyped, NEW e \in Executors, RequestShutdown(e)
  PROVE  ExecutorsTyped' /\ EveryRoom'
<1>1. ExecutorsTyped'
  BY DEF RequestShutdown, ExecutorsTyped, ExecutorState, Mode
<1>2. \A l \in Leases : launch'[l].by = launch[l].by /\ launch'[l].pc = launch[l].pc
  <2>1. \A l \in Leases : launch[l] \in LaunchState
    BY DEF ExecInv, ExecutorTypeOK
  <2>2. QED BY <2>1 DEF RequestShutdown, LaunchState
<1>3. \A d \in Executors : LaunchesUnderWay(d)' = LaunchesUnderWay(d)
  BY <1>2 DEF LaunchesUnderWay, LaunchesOf, UnderWay
<1>4. \A d \in Executors : executor'[d].left = executor[d].left /\ executor'[d].tick = executor[d].tick
  BY DEF RequestShutdown, ExecutorsTyped, ExecutorState
<1>5. QED BY <1>1, <1>3, <1>4 DEF ExecInv, EveryRoom, Room

LEMMA LaunchRoom ==
  ASSUME ExecInv, ExecutorsTyped, NEW l \in Leases, LaunchMoves(l)
  PROVE  ExecutorsTyped' /\ EveryRoom'
<1>1. ExecutorsTyped' /\ executor' = executor
  BY DEF LaunchMoves, ExecutorsTyped
<1>2. ASSUME NEW d \in Executors PROVE Room(d)'
  <2>1. LaunchesUnderWay(d)' \subseteq LaunchesUnderWay(d)
    BY DEF LaunchMoves, LaunchesUnderWay, LaunchesOf, UnderWay
  <2>2. Room(d) /\ executor[d] \in ExecutorState /\ executor[d].left \in 0 .. Capacity
    BY DEF ExecInv, EveryRoom, ExecutorsTyped, ExecutorState
  <2>3. QED BY <1>1, <2>1, <2>2, RoomKept
<1>3. QED BY <1>1, <1>2 DEF EveryRoom

\* One step: who has what room, whoever takes it.
LEMMA StepRoom ==
  ASSUME ExecInv, ExecutorsTyped, [ExecutorNext]_allVars
  PROVE  ExecutorsTyped' /\ EveryRoom' /\ FaultsCounted
<1>1. ExecutorTypeOK
  BY DEF ExecInv
<1>2. ASSUME UNCHANGED execVars
      PROVE  ExecutorsTyped' /\ EveryRoom' /\ FaultsCounted
  <2>1. \A d \in Executors : LaunchesUnderWay(d)' = LaunchesUnderWay(d)
    BY <1>2 DEF LaunchesUnderWay, LaunchesOf, UnderWay, execVars
  <2>2. EveryRoom'
    BY <1>2, <2>1 DEF execVars, ExecInv, EveryRoom, Room
  <2>3. QED BY <1>1, <1>2, <2>2 DEF execVars, ExecutorsTyped, FaultsCounted, ExecutorTypeOK
<1>3. ASSUME NEW e \in Executors, ExecutorStep(e) \/ RequestShutdown(e) \/ ExecutorCrash(e)
      PROVE  ExecutorsTyped' /\ EveryRoom' /\ FaultsCounted
  <2>1. CASE Recover(e) \/ RefuseGroup(e) \/ TakesNone(e) \/ EndTick(e)
    BY <1>1, <2>1, TickRoom, FaultCounts
       DEF Recover, RefuseGroup, TakesNone, EndTick, NoFault
  <2>2. CASE Poll(e)
    BY <1>1, <2>2, PollRoom, FaultCounts DEF Poll, NoFault
  <2>3. CASE TakeLeases(e)
    BY <1>1, <2>3, TakeRoom, FaultCounts DEF TakeLeases
  <2>4. CASE RequestShutdown(e)
    BY <1>1, <2>4, ShutdownRoom, FaultCounts DEF RequestShutdown, NoFault
  <2>5. CASE ExecutorCrash(e)
    BY <1>1, <2>5, CrashRoom, FaultCounts DEF ExecutorCrash
  <2>6. QED BY <1>3, <2>1, <2>2, <2>3, <2>4, <2>5 DEF ExecutorStep
<1>4. ASSUME NEW l \in Leases,
             \/ LaunchStep(l) \/ Worker(l) \/ StreamsClose(l)
             \/ MonitorHeartbeat(l) \/ MonitorAborts(l) \/ MonitorFails(l)
      PROVE  ExecutorsTyped' /\ EveryRoom' /\ FaultsCounted
  <2>1. CASE MonitorFails(l) /\ launch[l].pc # "finished"
    <3>1. launch[l].by \in Executors /\ ExecutorCrash(launch[l].by)
      BY <2>1 DEF MonitorFails, HasMonitor, ExecInv, Owned
    <3>2. QED BY <1>3, <3>1
  <2>2. CASE MonitorHeartbeat(l)
    BY <1>2, <2>2 DEF MonitorHeartbeat
  <2>3. CASE LaunchMoves(l)
    BY <2>3, LaunchRoom DEF LaunchMoves
  <2>4. QED BY <1>4, <2>1, <2>2, <2>3, LaunchSteps
<1>5. CASE Intervene \/ TimePasses \/ UNCHANGED allVars
  BY <1>2, <1>5 DEF Intervene, TimePasses, execVars, allVars
<1>6. QED BY <1>3, <1>4, <1>5 DEF ExecutorNext

LEMMA LaunchIsFunction ==
  ASSUME ExecInv, [ExecutorNext]_allVars
  PROVE  launch' \in [Leases -> LaunchState]
<1>1. launch \in [Leases -> LaunchState]
  BY DEF ExecInv, ExecutorTypeOK
<1>2. \A l \in Leases : launch'[l] \in LaunchState
  BY StepLaunches DEF EveryLaunchMoves, LaunchAllowed
<1>3. DOMAIN launch' = Leases /\ launch' = [l \in Leases |-> launch'[l]]
  <2>1. CASE UNCHANGED launch
    BY <1>1, <2>1
  <2>2. CASE \E e \in Executors : TakeLeases(e) \/ RequestShutdown(e) \/ ExecutorCrash(e)
    BY <2>2 DEF TakeLeases, RequestShutdown, ExecutorCrash
  <2>3. CASE \E l \in Leases : LaunchMoves(l)
    BY <2>3 DEF LaunchMoves
  <2>4. CASE \E l \in Leases : MonitorFails(l) /\ launch[l].pc # "finished"
    BY <2>2, <2>4 DEF MonitorFails, HasMonitor, ExecInv, Owned
  <2>5. QED
    BY <2>1, <2>2, <2>3, <2>4, LaunchSteps
       DEF ExecutorNext, ExecutorStep, Poll, Recover, RefuseGroup, TakesNone, EndTick,
           MonitorHeartbeat, Intervene, TimePasses, execVars, allVars
<1>4. QED BY <1>2, <1>3

-----------------------------------------------------------------------------
(* The invariant holds.                                                     *)

LEMMA InitExec == ExecutorInit => ExecInv
<1> SUFFICES ASSUME ExecutorInit PROVE ExecInv
  OBVIOUS
<1>1. TypeInv
  BY BoundsAssumption
     DEF ExecutorInit, TypeInv, TypeOK, RowsInGroup, NoLease, GroupStatus, ItemStatus,
         LeaseRow, PreflightStatus
<1>2. GroupInv
  BY <1>1
     DEF ExecutorInit, GroupInv, RowsAgree, LatestStatus, OneHolder, Active, NoLease, LiveAttempt
<1>3. ExecutorTypeOK
  BY ExecutorsAssumption
     DEF ExecutorInit, ExecutorTypeOK, Mode, NoLaunch, LaunchState, ResultStatus
<1>4. \A l \in Leases : launch[l].pc = "none" /\ ~launch[l].started
  BY DEF ExecutorInit, NoLaunch
<1>5. Owned /\ DirectoryMade /\ LaunchesClaim /\ ShutdownCancels
  BY <1>4 DEF Owned, DirectoryMade, LaunchesClaim, Launching, ShutdownCancels
<1>6. EveryRoom
  <2> SUFFICES ASSUME NEW e \in Executors PROVE Room(e)
    BY DEF EveryRoom
  <2>1. LaunchesUnderWay(e) = {} /\ executor[e].left = 0
    BY <1>4 DEF LaunchesUnderWay, LaunchesOf, UnderWay, ExecutorInit
  <2>2. Cardinality(LaunchesUnderWay(e)) = 0
    BY <2>1, FS_EmptySet
  <2>3. QED BY <2>1, <2>2, ExecutorsAssumption, BoundsAssumption DEF Room
<1>7. QED BY <1>2, <1>3, <1>5, <1>6 DEF ExecInv

LEMMA StepExec == ExecInv /\ [ExecutorNext]_allVars => ExecInv'
<1> SUFFICES ASSUME ExecInv, [ExecutorNext]_allVars PROVE ExecInv'
  OBVIOUS
<1>1. [Next]_vars /\ EveryLaunchMoves
  BY ExecutorStepIsStoreStep, StepLaunches
<1>2. GroupInv'
  BY <1>1, StepGroup DEF ExecInv
<1>3. ExecutorsTyped' /\ EveryRoom' /\ FaultsCounted
  <2>1. ExecutorsTyped
    BY DEF ExecInv, ExecutorTypeOK, ExecutorsTyped, ExecutorState, TickPhase
  <2>2. QED BY <2>1, StepRoom
<1>4. ExecutorTypeOK'
  BY <1>1, <1>3, LaunchIsFunction
     DEF ExecutorTypeOK, ExecutorsTyped, ExecutorState, TickPhase, FaultsCounted,
         EveryLaunchMoves, LaunchAllowed
<1>5. Owned' /\ ShutdownCancels'
  BY <1>1 DEF EveryLaunchMoves, LaunchAllowed, Owned, ShutdownCancels, ShuttingDown
<1>6. DirectoryMade' /\ LaunchesClaim'
  BY <1>1, StepDirectories, StepClaims
<1>7. QED BY <1>2, <1>3, <1>4, <1>5, <1>6 DEF ExecInv

LEMMA ExecAlways == ExecutorSpec => []ExecInv
BY InitExec, StepExec, PTL DEF ExecutorSpec

\* "This conservative boundary avoids making a second launch appear safe simply
\* because a timer expired": two worker processes are never started for one
\* attempt, of any number of executors, whatever expires, is recovered or retried.
THEOREM LaunchedOnceAlways == ExecutorSpec => []LaunchedOnce
<1>1. ExecInv => LaunchedOnce
  BY DEF ExecInv, ExecutorTypeOK, LaunchesClaim, Claims, Launching, LaunchedOnce, NoLaunch
<1>2. QED BY <1>1, ExecAlways, PTL

\* An executor has no more launches under way than it has capacity, though it asks
\* for leases in batches and the last of them may be granted in part.
THEOREM WithinCapacityAlways == ExecutorSpec => []WithinCapacity
<1>1. ExecInv => WithinCapacity
  <2> SUFFICES ASSUME ExecInv, NEW e \in Executors
               PROVE  ExecutorTypeOK /\ Cardinality(LaunchesUnderWay(e)) <= Capacity
    BY DEF WithinCapacity, LaunchesUnderWay, ExecInv
  <2>1. executor[e].left \in Nat /\ Room(e) /\ Cardinality(LaunchesUnderWay(e)) \in Nat
    BY LaunchesFinite DEF ExecInv, ExecutorTypeOK, EveryRoom
  <2>2. QED BY <2>1, ExecutorsAssumption DEF Room, ExecInv
<1>2. QED BY <1>1, ExecAlways, PTL

\* A shutdown cancels every worker of the executor, those that are between their
\* setup and their start included.
THEOREM ShutdownCancelsAlways == ExecutorSpec => []ShutdownCancels
<1>1. ExecInv => ShutdownCancels
  BY DEF ExecInv
<1>2. QED BY <1>1, ExecAlways, PTL
-----------------------------------------------------------------------------
(* What the executors do to the group is what the store's operations do, so *)
(* that all the group promises holds with them.                             *)

GroupSafe ==
  /\ OneHolder /\ LeaseOwnsAttempt /\ NoOrphans /\ PendingIsLeaseable
  /\ ConcurrencyRespected /\ GroupStatusHonest

\* The invariant of the rows, whoever works on them.
RowsInv == GroupInv /\ ConcurrencyRespected /\ GroupStatusHonest

LEMMA RowsAreSafe == RowsInv => GroupSafe
BY HoldersOwn, NoneOrphaned, PendingCandidates DEF RowsInv, GroupSafe, GroupInv

LEMMA StepRows == RowsInv /\ [Next]_vars => RowsInv'
BY StepGroup, StepLimit, StepHonest DEF RowsInv, GroupInv

LEMMA StepPromises ==
  ASSUME RowsInv, [Next]_vars
  PROVE  [KeepsEvidence]_vars /\ [Ledger!Next]_(Ledger!vars)
<1>1. RowsInv'
  BY StepRows
<1>2. QED BY <1>1, StepEvidence, StepLedger DEF RowsInv

LEMMA InitRows ==
  ASSUME \/ Init
         \/ ExecutorInit
  PROVE  RowsInv /\ Ledger!Init
<1>1. Active = {}
  BY DEF Init, ExecutorInit, Active, NoLease
<1>2. ConcurrencyRespected
  BY <1>1, FS_EmptySet, BoundsAssumption DEF ConcurrencyRespected
<1>3. GroupInv
  BY InitGroup, InitExec DEF ExecInv
<1>4. GroupStatusHonest
  BY InitHonest DEF ExecutorInit, GroupStatusHonest
<1>5. Ledger!Init
  BY InitLedger DEF ExecutorInit, Ledger!Init, LedgerWork, LedgerEvidence
<1>6. QED BY <1>2, <1>3, <1>4, <1>5 DEF RowsInv

\* Whatever any number of executors do, through crashes, lost leases and
\* requests of operators, the group keeps what the store promises: one holder
\* per item, no orphan, the limit, the evidence, and the ledger.
THEOREM ExecutorsKeepGroup ==
  ExecutorSpec => []GroupSafe /\ EvidencePreserved /\ ImplementsLedger
<1>1. ExecInv /\ [ExecutorNext]_allVars => [Next]_vars
  BY ExecutorStepIsStoreStep
<1>2. ExecutorInit => RowsInv /\ Ledger!Init
  BY InitRows
<1>3. ExecutorSpec => [][Next]_vars
  BY <1>1, ExecAlways, PTL DEF ExecutorSpec
<1>4. ExecutorSpec => []RowsInv
  BY <1>2, <1>3, StepRows, PTL DEF ExecutorSpec
<1>5. QED
  BY <1>2, <1>3, <1>4, RowsAreSafe, StepPromises, PTL
     DEF ExecutorSpec, EvidencePreserved, ImplementsLedger, Ledger!Spec

-----------------------------------------------------------------------------
(* The requests of the API.  Whatever they carry, only one that saw the      *)
(* group completed carries the run past it, and completed items stay so.     *)

AllCompleted == \A i \in Items : itemStatus[i] = "completed"

\* A request that will take the run past its group.
Completing(request) ==
  \/ request.pc = "load" /\ request.outcome = "completed"
  \/ request.pc \in {"resume", "write"} /\ request.state.step = 2

RunsInv ==
  /\ GroupInv /\ GroupStatusHonest
  /\ RunTypeOK
  /\ run.step = 2 => AllCompleted
  /\ \A h \in Handlers : Completing(handler[h]) => AllCompleted

\* What a step makes of run and requests, judged by the items before it.
RunsGoOn ==
  /\ RunTypeOK'
  /\ run'.step = 2 => AllCompleted
  /\ \A h \in Handlers : Completing(handler'[h]) => AllCompleted

LEMMA RequestProceeds ==
  ASSUME RunsInv, NEW h \in Handlers, NEW local \in HandlerState, Proceeds(h, local),
         Completing(local) => AllCompleted,
         run' \in RunState, run'.step = 2 => AllCompleted
  PROVE  RunsGoOn
<1>1. handler \in [Handlers -> HandlerState] /\ handler' = [handler EXCEPT ![h] = local]
  BY DEF RunsInv, RunTypeOK, Proceeds
<1>2. \A g \in Handlers : handler'[g] = IF g = h THEN local ELSE handler[g]
  BY <1>1
<1>3. RunTypeOK'
  BY <1>1 DEF RunTypeOK
<1>4. QED BY <1>2, <1>3 DEF RunsGoOn, RunsInv

LEMMA IdleRequest == Idle \in HandlerState /\ ~Completing(Idle)
BY DEF Idle, HandlerState, Outcome, RunState, Completing

LEMMA StatusesKept ==
  ASSUME NEW state \in RunState,
         NEW status \in {"bound", "ready", "running", "paused", "blocked", "failed", "completed",
                         "dispatching_prompt"}
  PROVE  WithStatus(state, status) \in RunState /\ WithStatus(state, status).step = state.step
BY DEF RunState, WithStatus

LEMMA BecomesState ==
  ASSUME NEW state \in RunState, NEW outcome \in Outcome
  PROVE  /\ Becomes(state, outcome) \in RunState
         /\ outcome # "completed" => Becomes(state, outcome).step = state.step
<1>1. CASE outcome \in {"granted", "preflight_passed", "retried", "paused", "blocked"}
  BY <1>1, StatusesKept DEF Becomes
<1>2. CASE outcome = "completed"
  <2>1. [status |-> "ready", step |-> 2] \in RunState
    BY DEF RunState
  <2>2. Transition(state) \in RunState
    BY <2>1, StatusesKept, RequestsAssumption DEF Transition
  <2>3. QED BY <1>2, <2>2 DEF Becomes
<1>3. QED BY <1>1, <1>2 DEF Outcome

-----------------------------------------------------------------------------
(* The steps of a request.                                                   *)

LEMMA SerialSteps ==
  ASSUME RunsInv, NEW h \in Handlers,
         \/ LoadAgain(h) \/ WriteState(h) \/ StartRequest(h) \/ PreflightRefused(h) \/ Started(h)
         \/ Resume(h) \/ ResumeIfLeaseable(h) \/ PauseRun(h) \/ FailRun(h)
  PROVE  RunsGoOn
<1> DEFINE me == handler[h]
<1>1. /\ me \in HandlerState /\ run \in RunState
      /\ run.step = 2 => AllCompleted
      /\ Completing(me) => AllCompleted
  BY DEF RunsInv, RunTypeOK
<1>2. me.state \in RunState /\ me.outcome \in Outcome
  BY <1>1 DEF HandlerState
<1> HIDE DEF me
<1>3. ASSUME Ends(h), run' = run \/ (run' = me.state /\ me.pc = "write") PROVE RunsGoOn
  <2>1. run' \in RunState /\ (run'.step = 2 => AllCompleted)
    BY <1>1, <1>2, <1>3 DEF Completing
  <2>2. QED BY <1>3, <2>1, IdleRequest, RequestProceeds DEF Ends
<1>4. ASSUME NEW local \in HandlerState, Proceeds(h, local),
             local.pc # "load",
             local.pc \in {"resume", "write"} /\ local.state.step = 2 => AllCompleted,
             run' = run \/ (run' = me.state /\ me.pc = "write")
      PROVE  RunsGoOn
  <2>1. run' \in RunState /\ (run'.step = 2 => AllCompleted)
    BY <1>1, <1>2, <1>4 DEF Completing
  <2>2. Completing(local) => AllCompleted
    BY <1>4 DEF Completing
  <2>3. QED BY <1>4, <2>1, <2>2, RequestProceeds
<1>5. CASE LoadAgain(h)
  <2>1. CASE NothingToWrite(me.outcome)
    BY <1>3, <1>5, <2>1 DEF LoadAgain, me
  <2>2. CASE ~NothingToWrite(me.outcome)
    <3>1. PICK local : local = [me EXCEPT !.pc = "write", !.state = Becomes(run, me.outcome)]
      OBVIOUS
    <3>2. Proceeds(h, local) /\ me.pc = "load" /\ run' = run
      BY <1>5, <2>2, <3>1 DEF LoadAgain, me
    <3>3. /\ Becomes(run, me.outcome) \in RunState
          /\ me.outcome # "completed" => Becomes(run, me.outcome).step = run.step
      BY <1>1, <1>2, BecomesState
    <3>4. local \in HandlerState /\ local.pc = "write" /\ local.state = Becomes(run, me.outcome)
      BY <1>1, <3>1, <3>3 DEF HandlerState
    <3>5. local.state.step = 2 => AllCompleted
      BY <1>1, <3>2, <3>3, <3>4 DEF Completing
    <3>6. QED BY <1>4, <3>2, <3>4, <3>5
  <2>3. QED BY <2>1, <2>2
<1>6. CASE WriteState(h)
  <2>1. me.pc = "write" /\ run' = me.state
    BY <1>6 DEF WriteState, me
  <2>2. CASE me.starting
    <3>1. PICK local : local = [Idle EXCEPT !.pc = "started"]
      OBVIOUS
    <3>2. local \in HandlerState /\ local.pc = "started"
      BY <3>1, IdleRequest DEF HandlerState, Idle
    <3>3. Proceeds(h, local)
      BY <1>6, <2>2, <3>1 DEF WriteState, me
    <3>4. QED BY <1>4, <2>1, <3>2, <3>3
  <2>3. CASE ~me.starting
    BY <1>3, <1>6, <2>1, <2>3 DEF WriteState, me
  <2>4. QED BY <2>2, <2>3
<1>7. CASE StartRequest(h)
  <2>1. PICK local : local = [Idle EXCEPT !.pc = "preflight", !.starting = TRUE]
    OBVIOUS
  <2>2. local \in HandlerState /\ local.pc = "preflight"
    BY <2>1, IdleRequest DEF HandlerState, Idle
  <2>3. Proceeds(h, local) /\ run' = run
    BY <1>7, <2>1 DEF StartRequest
  <2>4. QED BY <1>4, <2>2, <2>3
<1>8. CASE PreflightRefused(h)
  BY <1>3, <1>8 DEF PreflightRefused
\* A request writes the run it found, with another status.
<1>9. ASSUME NEW status \in {"running", "paused", "failed"}, NEW pc \in {"resume", "write"},
             Proceeds(h, [Idle EXCEPT !.pc = pc, !.state = WithStatus(run, status)]), run' = run
      PROVE  RunsGoOn
  <2>1. PICK local : local = [Idle EXCEPT !.pc = pc, !.state = WithStatus(run, status)]
    OBVIOUS
  <2>2. WithStatus(run, status) \in RunState /\ WithStatus(run, status).step = run.step
    BY <1>1, <1>9, StatusesKept
  <2>3. local \in HandlerState /\ local.pc = pc /\ local.state = WithStatus(run, status)
    BY <2>1, <2>2, IdleRequest DEF HandlerState, Idle
  <2>4. QED BY <1>1, <1>4, <1>9, <2>1, <2>2, <2>3
<1>10. CASE Started(h)
  <2>1. CASE preflight = "passed"
    BY <1>9, <1>10, <2>1 DEF Started
  <2>2. CASE preflight # "passed"
    BY <1>3, <1>10, <2>2 DEF Started
  <2>3. QED BY <2>1, <2>2
<1>11. CASE Resume(h) \/ PauseRun(h) \/ FailRun(h)
  BY <1>9, <1>11 DEF Resume, PauseRun, FailRun
<1>12. CASE ResumeIfLeaseable(h)
  <2>1. CASE group \in {"ready_to_lease", "leasing", "running"}
    <3>1. PICK local : local = [me EXCEPT !.pc = "write"]
      OBVIOUS
    <3>2. local \in HandlerState /\ local.pc = "write" /\ local.state = me.state
      BY <1>1, <3>1 DEF HandlerState
    <3>3. Proceeds(h, local) /\ me.pc = "resume" /\ run' = run
      BY <1>12, <2>1, <3>1 DEF ResumeIfLeaseable, me
    <3>4. QED BY <1>1, <1>4, <3>2, <3>3 DEF Completing
  <2>2. CASE group \notin {"ready_to_lease", "leasing", "running"}
    BY <1>3, <1>12, <2>2 DEF ResumeIfLeaseable
  <2>3. QED BY <2>1, <2>2
<1>13. QED BY <1>5, <1>6, <1>7, <1>8, <1>10, <1>11, <1>12

LEMMA GroupSteps ==
  ASSUME RunsInv, NEW h \in Handlers,
         \/ RecordChecks(h) \/ \E outcome \in {"passed", "failed"} : Checks(h, outcome)
         \/ \E capacity \in 1 .. MaxConcurrency : GrantLeasesOf(h, capacity)
         \/ \E l \in Leases, result \in ResultStatus : AcceptResult(h, l, result)
         \/ ReadOutcome(h)
         \/ \E lead \in 0 .. MaxLead : RecoverLeases(h, lead)
         \/ ReadRecovered(h)
         \/ \E i \in Items : RetryItem(h, i)
         \/ \E kind \in {"pause_group", "stop_group"} : ControlRequest(h, kind)
         \/ ControlGroup(h)
  PROVE  RunsGoOn
<1> DEFINE me == handler[h]
<1>1. me \in HandlerState /\ run \in RunState /\ (run.step = 2 => AllCompleted) /\ RunTypeOK
  BY DEF RunsInv, RunTypeOK
<1>2. run' = run
  BY DEF RecordChecks, Checks, GrantLeasesOf, AcceptResult, ReadOutcome, RecoverLeases,
         ReadRecovered, RetryItem, ControlRequest, ControlGroup
<1>3. ASSUME NEW outcome \in Outcome, Reloads(h, outcome), outcome = "completed" => AllCompleted
      PROVE  RunsGoOn
  <2>1. PICK local : local = [me EXCEPT !.pc = "load", !.outcome = outcome]
    OBVIOUS
  <2>2. local \in HandlerState /\ local.pc = "load" /\ local.outcome = outcome
    BY <1>1, <2>1 DEF HandlerState
  <2>3. Completing(local) => AllCompleted
    BY <1>3, <2>2 DEF Completing
  <2>4. Proceeds(h, local)
    BY <1>3, <2>1 DEF Reloads
  <2>5. QED BY <1>1, <1>2, <2>2, <2>3, <2>4, RequestProceeds
<1>4. ASSUME NEW local \in {me, Idle},
             NEW pc \in {"record", "outcome", "recovered", "pause_group", "stop_group"},
             Proceeds(h, [local EXCEPT !.pc = pc])
      PROVE  RunsGoOn
  <2>1. PICK next : next = [local EXCEPT !.pc = pc]
    OBVIOUS
  <2>2. next \in HandlerState /\ next.pc = pc
    BY <1>1, <1>4, <2>1, IdleRequest DEF HandlerState
  <2>3. ~Completing(next)
    BY <1>4, <2>2 DEF Completing
  <2>4. QED BY <1>1, <1>2, <1>4, <2>1, <2>2, <2>3, RequestProceeds
<1>5. ASSUME Ends(h) \/ UNCHANGED handler PROVE RunsGoOn
  <2>1. CASE Ends(h)
    BY <1>1, <1>2, <2>1, IdleRequest, RequestProceeds DEF Ends
  <2>2. CASE UNCHANGED handler
    BY <1>1, <1>2, <2>2 DEF RunsGoOn, RunsInv, RunTypeOK
  <2>3. QED BY <1>5, <2>1, <2>2
<1> HIDE DEF me
<1>6. CASE RecordChecks(h)
  <2>1. (IF checks = "passed" THEN "preflight_passed" ELSE "blocked") \in Outcome \ {"completed"}
    BY DEF Outcome
  <2>2. QED BY <1>3, <1>6, <2>1 DEF RecordChecks
<1>7. CASE \E outcome \in {"passed", "failed"} : Checks(h, outcome)
  BY <1>4, <1>7 DEF Checks, me
<1>8. CASE \E capacity \in 1 .. MaxConcurrency : GrantLeasesOf(h, capacity)
  <2>1. "granted" \in Outcome
    BY DEF Outcome
  <2>2. QED BY <1>3, <1>8, <2>1 DEF GrantLeasesOf
<1>9. CASE \E l \in Leases, result \in ResultStatus : AcceptResult(h, l, result)
  BY <1>4, <1>9 DEF AcceptResult
<1>10. CASE ReadOutcome(h)
  <2>1. PICK outcome : outcome = CASE group = "completed" -> "completed"
                                   [] group = "needs_attention" -> "blocked"
                                   [] OTHER -> "granted"
    OBVIOUS
  <2>2. outcome \in Outcome /\ (outcome = "completed" => group = "completed")
    BY <2>1 DEF Outcome
  <2>3. outcome = "completed" => AllCompleted
    BY <2>2 DEF RunsInv, GroupStatusHonest, AllCompleted
  <2>4. QED BY <1>3, <1>10, <2>1, <2>2, <2>3 DEF ReadOutcome
<1>11. CASE \E lead \in 0 .. MaxLead : RecoverLeases(h, lead)
  <2>1. Proceeds(h, [Idle EXCEPT !.pc = "recovered"]) \/ UNCHANGED handler
    BY <1>11 DEF RecoverLeases
  <2>2. QED BY <1>4, <1>5, <2>1
<1>12. CASE ReadRecovered(h)
  <2>1. "blocked" \in Outcome
    BY DEF Outcome
  <2>2. QED BY <1>3, <1>5, <1>12, <2>1 DEF ReadRecovered
<1>13. CASE \E i \in Items : RetryItem(h, i)
  <2>1. "retried" \in Outcome
    BY DEF Outcome
  <2>2. QED BY <1>3, <1>13, <2>1 DEF RetryItem
<1>14. CASE \E kind \in {"pause_group", "stop_group"} : ControlRequest(h, kind)
  BY <1>4, <1>14 DEF ControlRequest
<1>15. CASE ControlGroup(h)
  <2>1. "paused" \in Outcome /\ "blocked" \in Outcome
    BY DEF Outcome
  <2>2. QED BY <1>3, <1>15, <2>1 DEF ControlGroup
<1>16. QED BY <1>6, <1>7, <1>8, <1>9, <1>10, <1>11, <1>12, <1>13, <1>14, <1>15

-----------------------------------------------------------------------------
(* Run and group together.                                                   *)

\* A request changes the group as the store does, or not at all; a restart only
\* forgets the checks of a preflight.
LEMMA RunStepIsStoreStep ==
  ASSUME [UpNext \/ Restart]_runVars
  PROVE  \/ [Next]_vars
         \/ /\ checks' = "none"
            /\ UNCHANGED <<group, preflight, itemStatus, latest, attempts, lease, dirs>>
<1>1. CASE Restart
  BY <1>1 DEF Restart
<1>2. ASSUME NEW h \in Handlers, HandlerStep(h) PROVE [Next]_vars
  <2>1. CASE \/ RecordChecks(h) \/ \E outcome \in {"passed", "failed"} : Checks(h, outcome)
             \/ \E capacity \in 1 .. MaxConcurrency : GrantLeasesOf(h, capacity)
    BY <2>1 DEF RecordChecks, Checks, GrantLeasesOf, Next
  <2>2. CASE \/ \E l \in Leases, result \in ResultStatus : AcceptResult(h, l, result)
             \/ \E lead \in 0 .. MaxLead : RecoverLeases(h, lead)
             \/ \E i \in Items : RetryItem(h, i)
             \/ ControlGroup(h)
    BY <2>2 DEF AcceptResult, RecoverLeases, RetryItem, ControlGroup, Next
  <2>3. QED
    BY <1>2, <2>1, <2>2 DEF HandlerStep, LoadAgain, WriteState, StartRequest, PreflightRefused,
         Started, Resume, ResumeIfLeaseable, PauseRun, FailRun, ReadOutcome, ReadRecovered,
         ControlRequest
<1>3. CASE (\E l \in Leases : HeartbeatOf(l)) \/ World
  BY <1>3 DEF HeartbeatOf, World, Next
<1>4. CASE StartNextStep \/ UNCHANGED runVars
  BY <1>4 DEF StartNextStep, runVars
<1>5. QED BY <1>1, <1>2, <1>3, <1>4 DEF UpNext

LEMMA StepRuns == RunsInv /\ [UpNext \/ Restart]_runVars => RunsInv'
<1> SUFFICES ASSUME RunsInv, [UpNext \/ Restart]_runVars PROVE RunsInv'
  OBVIOUS
<1>1. GroupInv' /\ GroupStatusHonest' /\ (AllCompleted => AllCompleted')
  <2>1. CASE [Next]_vars
    <3>1. GroupInv' /\ GroupStatusHonest'
      BY <2>1, StepGroup, StepHonest DEF RunsInv
    <3>2. KeepsEvidence \/ UNCHANGED vars
      BY <2>1, StepEvidence DEF RunsInv
    <3>3. QED BY <3>1, <3>2 DEF KeepsEvidence, AllCompleted, vars
  <2>2. CASE /\ checks' = "none"
             /\ UNCHANGED <<group, preflight, itemStatus, latest, attempts, lease, dirs>>
    <3>1. GroupInv'
      BY <2>2 DEF RunsInv, GroupInv, TypeInv, TypeOK, RowsInGroup, RowsAgree, LatestStatus,
           LeaseAgrees, Active, OneHolder, AttemptStatusOf, AttemptOf
    <3>2. GroupStatusHonest' /\ (AllCompleted => AllCompleted')
      BY <2>2 DEF RunsInv, GroupStatusHonest, Active, AllCompleted
    <3>3. QED BY <3>1, <3>2
  <2>3. QED BY <2>1, <2>2, RunStepIsStoreStep
<1>2. RunsGoOn
  <2>1. ASSUME NEW h \in Handlers, HandlerStep(h) PROVE RunsGoOn
    BY <2>1, SerialSteps, GroupSteps DEF HandlerStep
  <2>2. CASE (\E l \in Leases : HeartbeatOf(l)) \/ World \/ UNCHANGED runVars
    BY <2>2 DEF HeartbeatOf, World, runVars, RunsGoOn, RunsInv, RunTypeOK
  <2>3. CASE StartNextStep
    <3>1. run \in RunState /\ AllCompleted
      BY <2>3 DEF StartNextStep, RunsInv, RunTypeOK
    <3>2. run' \in RunState /\ handler' = handler
      BY <2>3, <3>1, StatusesKept DEF StartNextStep
    <3>3. QED BY <3>1, <3>2 DEF RunsGoOn, RunsInv, RunTypeOK
  <2>4. CASE Restart
    <3>1. handler' = [h \in Handlers |-> Idle] /\ run' = run
      BY <2>4 DEF Restart
    <3>2. QED BY <3>1, IdleRequest DEF RunsGoOn, RunsInv, RunTypeOK
  <2>5. QED BY <2>1, <2>2, <2>3, <2>4 DEF UpNext
<1>3. QED BY <1>1, <1>2 DEF RunsInv, RunsGoOn

LEMMA InitRuns == RunInit => RunsInv
<1> SUFFICES ASSUME RunInit PROVE RunsInv
  OBVIOUS
<1>1. GroupInv /\ GroupStatusHonest
  BY InitGroup, InitHonest DEF RunInit
<1>2. RunTypeOK /\ run.step = 1
  BY IdleRequest DEF RunInit, RunTypeOK, RunState
<1>3. \A h \in Handlers : ~Completing(handler[h])
  BY IdleRequest DEF RunInit
<1>4. QED BY <1>1, <1>2, <1>3 DEF RunsInv

\* The run gets past its group only when every item is completed, and no request
\* that is still under way, of any number, carries it over open work or opens an
\* item behind it.
THEOREM PastGroupOnlyCompletedAlways == RunSpec => []PastGroupOnlyCompleted
<1>1. RunsInv => PastGroupOnlyCompleted
  BY DEF RunsInv, PastGroupOnlyCompleted, AllCompleted
<1>2. RunSpec => []RunsInv
  BY InitRuns, StepRuns, PTL DEF RunSpec
<1>3. QED BY <1>1, <1>2, PTL
\* A restart changes nothing that the group's properties look at.
RowsAlone ==
  /\ checks' = "none"
  /\ UNCHANGED <<group, preflight, itemStatus, latest, attempts, lease, dirs>>

LEMMA RestartPromises ==
  ASSUME RowsInv, RowsAlone
  PROVE  RowsInv' /\ KeepsEvidence /\ UNCHANGED Ledger!vars
<1>1. GroupInv'
  BY DEF RowsAlone, RowsInv, GroupInv, TypeInv, TypeOK, RowsInGroup, RowsAgree, LatestStatus,
     LeaseAgrees, Active, OneHolder, AttemptStatusOf, AttemptOf
<1>2. ConcurrencyRespected' /\ GroupStatusHonest'
  BY DEF RowsAlone, RowsInv, ConcurrencyRespected, GroupStatusHonest, Active
<1>3. KeepsEvidence
  BY <1>1 DEF RowsAlone, KeepsEvidence, RowsInv, GroupInv, TypeInv, TypeOK
<1>4. UNCHANGED Ledger!vars
  BY DEF RowsAlone, Ledger!vars
<1>5. QED BY <1>1, <1>2, <1>3, <1>4 DEF RowsInv

\* Whatever requests are in flight together, and wherever the service restarts
\* among them, the group keeps what the store promises.
THEOREM RequestsKeepGroup ==
  RunSpec => []GroupSafe /\ EvidencePreserved /\ ImplementsLedger
<1>1. RunInit => RowsInv /\ Ledger!Init
  BY InitRows DEF RunInit
<1>2. RowsInv /\ [UpNext \/ Restart]_runVars => RowsInv'
  BY RunStepIsStoreStep, StepRows, RestartPromises DEF RowsAlone
<1>3. RowsInv /\ [UpNext \/ Restart]_runVars
        => [KeepsEvidence]_vars /\ [Ledger!Next]_(Ledger!vars)
  BY RunStepIsStoreStep, StepPromises, RestartPromises DEF RowsAlone
<1>4. QED
  BY <1>1, <1>2, <1>3, RowsAreSafe, PTL
     DEF RunSpec, EvidencePreserved, ImplementsLedger, Ledger!Spec
=============================================================================
