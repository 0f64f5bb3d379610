---------------------------- MODULE SourceCloseout ----------------------------
(***************************************************************************)
(* Source-writing attempts and the closing of their run                    *)
(* (protocol-runner-parallel-executor/src/source-workspace.ts, launcher.ts; *)
(* protocol-runner-api/src/source-closeout.ts, controller.ts closeRun).     *)
(*                                                                         *)
(* A source-writing worker edits a Git worktree below the run's directory, *)
(* and its contribution leaves it as a bundle that the coordinator          *)
(* acknowledges.  Closing the run deletes that directory.  The executor and *)
(* the API share nothing but files: the executor reserves an attempt and    *)
(* then looks for the closing marker; a close writes the marker and then    *)
(* looks at the attempts.  Each await on either side is a step here.        *)
(*                                                                         *)
(* Left out: what else closeRun cleans up, and the bundle's contents; a     *)
(* commit is acknowledged or it is not.  That a run may be closed only in   *)
(* some statuses is left to RunControl: a grant needs no particular one.    *)
(***************************************************************************)
EXTENDS Naturals, FiniteSets

CONSTANTS
  Attempts,  \* the attempts of the run's source-writing groups
  Closers,   \* the close requests that may be under way at the same time
  MaxCloses, \* bound: close requests
  MaxFaults  \* bound: crashes, and calls that fail without a reason modelled here

ASSUME CloseoutAssumption ==
  /\ IsFiniteSet(Attempts) /\ IsFiniteSet(Closers)
  /\ MaxCloses \in Nat /\ MaxFaults \in Nat

VARIABLES
  lease,       \* each attempt's lease in the store
  worker,      \* how far the executor is with each attempt
  reservation, \* the state in each attempt's source_workspace.json
  worktree,    \* the attempts whose worktree exists
  handoff,     \* the attempts whose source_handoff.json, and bundle, exist
  marker,      \* whether source_close_requested exists
  run,         \* whether the run and its directory exist
  closer,      \* the close requests
  closes,      \* how many close requests there were
  faults,      \* how many faults there were
  recreated,   \* history: attempts reserved in a directory made after the run's was deleted
  wrote,       \* history: attempts whose worker was started while there was the run
  listed,      \* history: the attempts that the successful close had listed
  preserved    \* history: those whose commits it was told to be preserved

executorVars == <<lease, worker, reservation, worktree, handoff, recreated, wrote>>
apiVars      == <<marker, run, closer, closes, listed, preserved>>
closeoutVars == <<executorVars, apiVars, faults>>

\* The stages after the launch was cleared, up to the end of the handoff.
Launched == {"cleared", "bound", "running", "stopped", "captured", "removed"}

Stages == {"none", "entered", "reserved", "unmarked", "over"} \cup Launched

NoClose == [at |-> "idle", list |-> {}, active |-> FALSE, todo |-> {}, acks |-> {}]

CloseoutInit ==
  /\ lease = [a \in Attempts |-> "none"]
  /\ worker = [a \in Attempts |-> "none"]
  /\ reservation = [a \in Attempts |-> "none"]
  /\ worktree = {} /\ handoff = {}
  /\ marker = FALSE
  /\ run = "open"
  /\ closer = [c \in Closers |-> NoClose]
  /\ closes = 0 /\ faults = 0
  /\ recreated = {} /\ wrote = {} /\ listed = {} /\ preserved = {}

-----------------------------------------------------------------------------
(* Leases.  They end with a result, by expiry, or because a group is stopped. *)

Grant(a) ==
  /\ run = "open" /\ lease[a] = "none"
  /\ lease' = [lease EXCEPT ![a] = "active"]
  /\ UNCHANGED <<worker, reservation, worktree, handoff, recreated, wrote, apiVars, faults>>

EndLease(a) ==
  /\ lease[a] = "active"
  /\ lease' = [lease EXCEPT ![a] = "ended"]
  /\ UNCHANGED <<worker, reservation, worktree, handoff, recreated, wrote, apiVars, faults>>

-----------------------------------------------------------------------------
(* The executor's launch of one attempt.                                     *)

Advance(a, from, to) ==
  /\ worker[a] = from
  /\ worker' = [worker EXCEPT ![a] = to]

\* launchAndSubmit: the lease is alive once the attempt's directory is made.
Enter(a) ==
  /\ Advance(a, "none", "entered")
  /\ lease[a] = "active"
  /\ UNCHANGED <<lease, reservation, worktree, handoff, recreated, wrote, apiVars, faults>>

\* The launcher makes the directories that are missing, those of a deleted run
\* too, and prepareSourceWorkspace reserves the attempt.
Reserve(a) ==
  /\ Advance(a, "entered", "reserved")
  /\ reservation' = [reservation EXCEPT ![a] = "prepared"]
  /\ recreated' = IF run = "open" THEN recreated ELSE recreated \cup {a}
  /\ UNCHANGED <<lease, worktree, handoff, wrote, apiVars, faults>>

LookForMarker(a) ==
  /\ Advance(a, "reserved", IF marker THEN "over" ELSE "unmarked")
  /\ UNCHANGED <<lease, reservation, worktree, handoff, recreated, wrote, apiVars, faults>>

\* Mutant: no second look at the reservation.
ReservationAssumed(a) == TRUE

\* The marker may have been absent because its directory was.
ReservationStands(a) == reservation[a] # "none"

Clear(a) ==
  /\ Advance(a, "unmarked", IF ReservationStands(a) THEN "cleared" ELSE "over")
  /\ UNCHANGED <<lease, reservation, worktree, handoff, recreated, wrote, apiVars, faults>>

\* `git worktree add` and the binding.
AddWorktree(a) ==
  /\ Advance(a, "cleared", "bound")
  /\ worktree' = worktree \cup {a}
  /\ UNCHANGED <<lease, reservation, handoff, recreated, wrote, apiVars, faults>>

StartWorker(a) ==
  /\ Advance(a, "bound", "running")
  /\ reservation' = [reservation EXCEPT ![a] = "running"]
  /\ wrote' = IF run = "open" THEN wrote \cup {a} ELSE wrote
  /\ UNCHANGED <<lease, worktree, handoff, recreated, apiVars, faults>>

\* The worker's process ends.  Children that may live on, or changes it was not
\* to make, retain the worktree as it is.
WorkerStops(a) ==
  /\ Advance(a, "running", "stopped")
  /\ UNCHANGED <<lease, reservation, worktree, handoff, recreated, wrote, apiVars, faults>>

Retain(a) ==
  /\ Advance(a, "stopped", "over")
  /\ reservation' = [reservation EXCEPT ![a] = "retained"]
  /\ UNCHANGED <<lease, worktree, handoff, recreated, wrote, apiVars, faults>>

\* handoffSourceWorkspace: the contribution first, then the worktree's removal.
Capture(a) ==
  /\ Advance(a, "stopped", "captured")
  /\ handoff' = handoff \cup {a}
  /\ UNCHANGED <<lease, reservation, worktree, recreated, wrote, apiVars, faults>>

\* Mutant: a worktree is removed as soon as its worker has stopped.
AnyStopped == {"stopped", "captured"}

Captured == {"captured"}

RemoveWorktree(a) ==
  /\ worker[a] \in Captured
  /\ worker' = [worker EXCEPT ![a] = "removed"]
  /\ worktree' = worktree \ {a}
  /\ UNCHANGED <<lease, reservation, handoff, recreated, wrote, apiVars, faults>>

HandOff(a) ==
  /\ Advance(a, "removed", "over")
  /\ reservation' = [reservation EXCEPT ![a] = "handed_off"]
  /\ UNCHANGED <<lease, worktree, handoff, recreated, wrote, apiVars, faults>>

\* A step of one attempt throws: the executor reports a failure and leaves
\* what there is.
LaunchFails(a) ==
  /\ faults < MaxFaults /\ worker[a] \notin {"none", "over"}
  /\ worker' = [worker EXCEPT ![a] = "over"]
  /\ faults' = faults + 1
  /\ UNCHANGED <<lease, reservation, worktree, handoff, recreated, wrote, apiVars>>

\* The executor dies; nobody takes its attempts up again.
ExecutorCrash ==
  /\ faults < MaxFaults
  /\ \E a \in Attempts : worker[a] \notin {"none", "over"}
  /\ worker' = [a \in Attempts |-> IF worker[a] = "none" THEN "none" ELSE "over"]
  /\ faults' = faults + 1
  /\ UNCHANGED <<lease, reservation, worktree, handoff, recreated, wrote, apiVars>>

-----------------------------------------------------------------------------
(* closeRun: requireSourceHandoffsReleased, and then the run's retirement.   *)

GoTo(c, place) == closer' = [closer EXCEPT ![c].at = place]

Leased == {a \in Attempts : lease[a] # "none"}

\* The groups as the store has them now; the coordinator names the commits of
\* the handoffs it has preserved.
ListGroups(c) ==
  /\ run = "open" /\ closer[c].at = "idle" /\ closes < MaxCloses
  /\ closes' = closes + 1
  /\ \E acks \in SUBSET handoff :
       closer' = [closer EXCEPT ![c] = [at |-> "listed", list |-> Leased, todo |-> Leased,
                    active |-> \E a \in Attempts : lease[a] = "active", acks |-> acks]]
  /\ UNCHANGED <<executorVars, marker, run, listed, preserved, faults>>

\* The marker comes before the first look; a live lease ends the close at once.
WriteMarker(c) ==
  /\ closer[c].at = "listed" /\ run = "open"
  /\ marker' = TRUE
  /\ GoTo(c, IF closer[c].active THEN "failing"
             ELSE IF closer[c].list = {} THEN "passed" ELSE "workspace")
  /\ UNCHANGED <<executorVars, run, closes, listed, preserved, faults>>

\* The attempt is accounted for: the next one, or the end of the check.
NextAttempt(c, a) ==
  closer' = [closer EXCEPT ![c].todo = @ \ {a},
               ![c].at = IF closer[c].todo = {a} THEN "passed" ELSE "workspace"]

Examined(c) == CHOOSE a \in closer[c].todo : TRUE

LookForWorktree(c) ==
  /\ closer[c].at = "workspace"
  /\ GoTo(c, IF Examined(c) \in worktree THEN "failing" ELSE "reservation")
  /\ UNCHANGED <<executorVars, marker, run, closes, listed, preserved, faults>>

Reserved(a) == reservation[a] # "none"

\* Without a reservation nothing was launched.
LookForReservation(c) ==
  /\ closer[c].at = "reservation"
  /\ IF Reserved(Examined(c)) THEN GoTo(c, "handoff") ELSE NextAttempt(c, Examined(c))
  /\ UNCHANGED <<executorVars, marker, run, closes, listed, preserved, faults>>

\* Mutant: a handoff that nobody has acknowledged is enough.
HandedOff(c, a) == reservation[a] = "handed_off" /\ a \in handoff

Released(c, a) == reservation[a] = "handed_off" /\ a \in handoff /\ a \in closer[c].acks

LookForHandoff(c) ==
  /\ closer[c].at = "handoff"
  /\ IF Released(c, Examined(c)) THEN NextAttempt(c, Examined(c)) ELSE GoTo(c, "failing")
  /\ UNCHANGED <<executorVars, marker, run, closes, listed, preserved, faults>>

\* Whoever else is closing the run meanwhile loses the marker too.
RemoveMarker(c) ==
  /\ closer[c].at = "failing"
  /\ marker' = FALSE
  /\ closer' = [closer EXCEPT ![c] = NoClose]
  /\ UNCHANGED <<executorVars, run, closes, listed, preserved, faults>>

\* The run's rows and its directory, with all that is in it.
Retire(c) ==
  /\ closer[c].at = "passed" /\ run = "open"
  /\ run' = "retired"
  /\ marker' = FALSE
  /\ reservation' = [a \in Attempts |-> "none"]
  /\ worktree' = {} /\ handoff' = {}
  /\ listed' = closer[c].list /\ preserved' = closer[c].acks
  /\ closer' = [closer EXCEPT ![c] = NoClose]
  /\ UNCHANGED <<lease, worker, recreated, wrote, closes, faults>>

\* The rest of the close throws, and the marker stays.
CloseFails(c) ==
  /\ closer[c].at # "idle"
  /\ closer[c].at = "passed" \/ run = "retired"
  /\ run = "retired" \/ faults < MaxFaults
  /\ faults' = IF run = "retired" THEN faults ELSE faults + 1
  /\ closer' = [closer EXCEPT ![c] = NoClose]
  /\ UNCHANGED <<executorVars, marker, run, closes, listed, preserved>>

\* The API dies with its close requests, and the marker stays.
ServiceCrash ==
  /\ faults < MaxFaults /\ \E c \in Closers : closer[c].at # "idle"
  /\ faults' = faults + 1
  /\ closer' = [c \in Closers |-> NoClose]
  /\ UNCHANGED <<executorVars, marker, run, closes, listed, preserved>>

Launch(a) ==
  \/ Enter(a) \/ Reserve(a) \/ LookForMarker(a) \/ Clear(a) \/ AddWorktree(a) \/ StartWorker(a)
  \/ WorkerStops(a) \/ Retain(a) \/ Capture(a) \/ RemoveWorktree(a) \/ HandOff(a) \/ LaunchFails(a)

Close(c) ==
  \/ ListGroups(c) \/ WriteMarker(c) \/ LookForWorktree(c) \/ LookForReservation(c)
  \/ LookForHandoff(c) \/ RemoveMarker(c) \/ Retire(c) \/ CloseFails(c)

CloseoutNext ==
  \/ \E a \in Attempts : Grant(a) \/ EndLease(a) \/ Launch(a)
  \/ \E c \in Closers : Close(c)
  \/ ExecutorCrash \/ ServiceCrash

CloseoutSpec == CloseoutInit /\ [][CloseoutNext]_closeoutVars

-----------------------------------------------------------------------------
(* Properties.                                                               *)

\* The types of the variables.
TypeOK ==
  /\ \A a \in Attempts : lease[a] \in {"none", "active", "ended"} /\ worker[a] \in Stages
  /\ \A a \in Attempts : reservation[a] \in {"none", "prepared", "running", "retained", "handed_off"}
  /\ worktree \subseteq Attempts /\ handoff \subseteq Attempts
  /\ run \in {"open", "retired"} /\ marker \in BOOLEAN

\* "Hold new launches before checking existing attempt-owned source resources":
\* no attempt that the close looked at goes on past the marker once the run's
\* directory is deleted, and none is between its launch and its handoff, unless
\* the executor made the directory anew after the deletion.
HeldByTheClose ==
  /\ TypeOK
  /\ run = "retired" => \A a \in listed \ recreated : worker[a] \notin Launched

\* As long as there is the run, what a source worker wrote is in its worktree or
\* in its bundle, whatever crashes or fails between the steps of the handoff.
WorkIsKept ==
  run = "open" => \A a \in Attempts :
    reservation[a] \in {"running", "retained", "handed_off"} => a \in worktree \cup handoff

\* "Coordinator must preserve/integrate source then acknowledge"
\* (source-closeout.ts:52): a close deletes no work of an attempt it listed, unless
\* it was told that the attempt's commit is preserved.  (Of an attempt leased
\* between the listing and the marker it knows nothing.)
ReleasedIsPreserved ==
  run = "retired" => listed \cap wrote \subseteq preserved

\* "closeout blocks a late source launch": once the run is retired no launch is
\* cleared.
LateLaunchBlocked ==
  [][run = "retired" => \A a \in Attempts : worker'[a] = "cleared" => worker[a] = "cleared"]_closeoutVars
=============================================================================
