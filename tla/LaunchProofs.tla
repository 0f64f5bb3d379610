------------------------------ MODULE LaunchProofs ------------------------------
(***************************************************************************)
(* Proofs about the launch of a worker: about SourceCloseout, for any       *)
(* number of attempts, closes and faults, and about WorkerProcess, whatever *)
(* tools a worker may start and whichever of them hold its output streams.  *)
(***************************************************************************)
EXTENDS SourceCloseout, WorkerProcess, TLAPS

-----------------------------------------------------------------------------
(* I. SourceCloseout.                                                        *)

-----------------------------------------------------------------------------
(* Types.                                                                    *)

CloseState ==
  [at : {"idle", "listed", "workspace", "reservation", "handoff", "passed", "failing"},
   list : SUBSET Attempts, active : BOOLEAN, todo : SUBSET Attempts, acks : SUBSET Attempts]

CloseoutTypes ==
  /\ lease \in [Attempts -> {"none", "active", "ended"}]
  /\ worker \in [Attempts -> Stages]
  /\ reservation \in [Attempts -> {"none", "prepared", "running", "retained", "handed_off"}]
  /\ worktree \subseteq Attempts /\ handoff \subseteq Attempts
  /\ run \in {"open", "retired"} /\ marker \in BOOLEAN
  /\ closer \in [Closers -> CloseState]

LEMMA NoCloseTyped == NoClose \in CloseState
BY DEF NoClose, CloseState

LEMMA InitCloseoutTypes == CloseoutInit => CloseoutTypes
BY NoCloseTyped DEF CloseoutInit, CloseoutTypes, Stages

LEMMA LaunchTypes ==
  ASSUME CloseoutTypes, NEW a \in Attempts, Launch(a)
  PROVE  CloseoutTypes'
<1>1. worker' \in [Attempts -> Stages]
  BY DEF CloseoutTypes, Launch, Advance, Stages, Launched, Enter, Reserve, LookForMarker, Clear, AddWorktree,
         StartWorker, WorkerStops, Retain, Capture, RemoveWorktree, HandOff, LaunchFails
<1>2. reservation' \in [Attempts -> {"none", "prepared", "running", "retained", "handed_off"}]
  BY DEF CloseoutTypes, Launch, Enter, Reserve, LookForMarker, Clear, AddWorktree,
         StartWorker, WorkerStops, Retain, Capture, RemoveWorktree, HandOff, LaunchFails
<1>3. worktree' \subseteq Attempts /\ handoff' \subseteq Attempts
  BY DEF CloseoutTypes, Launch, Enter, Reserve, LookForMarker, Clear, AddWorktree,
         StartWorker, WorkerStops, Retain, Capture, RemoveWorktree, HandOff, LaunchFails
<1>4. UNCHANGED <<lease, apiVars>>
  BY DEF Launch, Enter, Reserve, LookForMarker, Clear, AddWorktree,
         StartWorker, WorkerStops, Retain, Capture, RemoveWorktree, HandOff, LaunchFails
<1>5. QED BY <1>1, <1>2, <1>3, <1>4 DEF CloseoutTypes, apiVars

LEMMA CloseTypes ==
  ASSUME CloseoutTypes, NEW c \in Closers, Close(c)
  PROVE  CloseoutTypes'
<1>1. closer[c] \in CloseState /\ closer \in [Closers -> CloseState]
  BY DEF CloseoutTypes
<1>2. ASSUME NEW place \in {"workspace", "reservation", "handoff", "passed", "failing"}, GoTo(c, place)
      PROVE  closer' \in [Closers -> CloseState]
  BY <1>1, <1>2 DEF GoTo, CloseState
<1>3. ASSUME NEW a, NextAttempt(c, a)
      PROVE  closer' \in [Closers -> CloseState]
  <2> DEFINE r == [closer[c] EXCEPT !.todo = @ \ {a},
                     !.at = IF closer[c].todo = {a} THEN "passed" ELSE "workspace"]
  <2>1. r \in CloseState
    BY <1>1 DEF CloseState
  <2>2. closer' = [closer EXCEPT ![c] = r]
    BY <1>1, <1>3 DEF NextAttempt, CloseState
  <2> HIDE DEF r
  <2>3. QED BY <1>1, <2>1, <2>2
<1>4. closer' \in [Closers -> CloseState]
  <2>1. CASE ListGroups(c)
    BY <1>1, <2>1 DEF ListGroups, Leased, CloseState, CloseoutTypes
  <2>2. CASE WriteMarker(c)
    BY <1>2, <2>2 DEF WriteMarker
  <2>3. CASE LookForWorktree(c)
    BY <1>2, <2>3 DEF LookForWorktree
  <2>4. CASE LookForReservation(c)
    BY <1>2, <1>3, <2>4 DEF LookForReservation
  <2>5. CASE LookForHandoff(c)
    BY <1>2, <1>3, <2>5 DEF LookForHandoff
  <2>6. CASE RemoveMarker(c) \/ Retire(c) \/ CloseFails(c)
    BY <1>1, <2>6, NoCloseTyped DEF RemoveMarker, Retire, CloseFails
  <2>7. QED BY <2>1, <2>2, <2>3, <2>4, <2>5, <2>6 DEF Close
<1>5. lease' = lease /\ worker' = worker /\ marker' \in BOOLEAN /\ run' \in {"open", "retired"}
  BY DEF CloseoutTypes, Close, ListGroups, WriteMarker, LookForWorktree, LookForReservation,
         LookForHandoff, RemoveMarker, Retire, CloseFails, executorVars
<1>6. reservation' \in {reservation, [a \in Attempts |-> "none"]}
      /\ worktree' \in {worktree, {}} /\ handoff' \in {handoff, {}}
  BY DEF Close, ListGroups, WriteMarker, LookForWorktree, LookForReservation,
         LookForHandoff, RemoveMarker, Retire, CloseFails, executorVars
<1>7. QED BY <1>4, <1>5, <1>6 DEF CloseoutTypes

LEMMA StepTypes == CloseoutTypes /\ [CloseoutNext]_closeoutVars => CloseoutTypes'
<1> SUFFICES ASSUME CloseoutTypes, [CloseoutNext]_closeoutVars PROVE CloseoutTypes'
  OBVIOUS
<1>1. ASSUME NEW a \in Attempts, Grant(a) \/ EndLease(a)
      PROVE  CloseoutTypes'
  BY <1>1 DEF CloseoutTypes, Grant, EndLease, apiVars
<1>2. CASE ExecutorCrash
  BY <1>2 DEF CloseoutTypes, ExecutorCrash, apiVars, Stages
<1>3. CASE ServiceCrash
  BY <1>3, NoCloseTyped DEF CloseoutTypes, ServiceCrash, executorVars
<1>4. CASE UNCHANGED closeoutVars
  BY <1>4 DEF CloseoutTypes, closeoutVars, executorVars, apiVars
<1>5. QED BY <1>1, <1>2, <1>3, <1>4, LaunchTypes, CloseTypes DEF CloseoutNext

-----------------------------------------------------------------------------
(* The work.  WorkIsKept is not inductive: a worker that starts finds its    *)
(* worktree made, and one that is removed left a bundle, because of where    *)
(* the executor is with the attempt.                                         *)

KeepsWork(a) ==
  /\ reservation[a] \in {"running", "retained", "handed_off"} => a \in worktree \cup handoff
  /\ worker[a] \in {"bound", "running", "stopped", "captured"} => a \in worktree
  /\ worker[a] \in {"captured", "removed"} => a \in handoff

WorkInv ==
  /\ CloseoutTypes
  /\ run = "open" => \A a \in Attempts : KeepsWork(a)

LEMMA InitWork == CloseoutInit => WorkInv
BY InitCloseoutTypes DEF CloseoutInit, WorkInv, KeepsWork

\* The steps of one attempt touch the work of no other.
LEMMA LaunchWork ==
  ASSUME CloseoutTypes, NEW a \in Attempts, Launch(a), NEW b \in Attempts, KeepsWork(b)
  PROVE  KeepsWork(b)'
<1>1. CASE b # a
  BY <1>1
     DEF CloseoutTypes, KeepsWork, Launch, Advance, Enter, Reserve, LookForMarker, Clear, AddWorktree,
         StartWorker, WorkerStops, Retain, Capture, RemoveWorktree, HandOff, LaunchFails
<1>2. CASE b = a
  <2>1. CASE Enter(a) \/ Reserve(a) \/ LookForMarker(a) \/ Clear(a)
    BY <1>2, <2>1 DEF CloseoutTypes, KeepsWork, Advance, Enter, Reserve, LookForMarker, Clear
  <2>2. CASE AddWorktree(a)
    BY <1>2, <2>2 DEF CloseoutTypes, KeepsWork, Advance, AddWorktree
  <2>3. CASE StartWorker(a)
    BY <1>2, <2>3 DEF CloseoutTypes, KeepsWork, Advance, StartWorker
  <2>4. CASE WorkerStops(a)
    BY <1>2, <2>4 DEF CloseoutTypes, KeepsWork, Advance, WorkerStops
  <2>5. CASE Retain(a)
    BY <1>2, <2>5 DEF CloseoutTypes, KeepsWork, Advance, Retain
  <2>6. CASE Capture(a)
    BY <1>2, <2>6 DEF CloseoutTypes, KeepsWork, Advance, Capture
  <2>7. CASE RemoveWorktree(a)
    BY <1>2, <2>7 DEF CloseoutTypes, KeepsWork, RemoveWorktree, Captured
  <2>8. CASE HandOff(a)
    BY <1>2, <2>8 DEF CloseoutTypes, KeepsWork, Advance, HandOff
  <2>9. CASE LaunchFails(a)
    BY <1>2, <2>9 DEF CloseoutTypes, KeepsWork, LaunchFails
  <2>10. QED
    BY <2>1, <2>2, <2>3, <2>4, <2>5, <2>6, <2>7, <2>8, <2>9 DEF Launch
<1>3. QED BY <1>1, <1>2

LEMMA StepWork == WorkInv /\ [CloseoutNext]_closeoutVars => WorkInv'
<1> SUFFICES ASSUME WorkInv, [CloseoutNext]_closeoutVars PROVE WorkInv'
  OBVIOUS
<1>1. CloseoutTypes /\ CloseoutTypes'
  BY StepTypes DEF WorkInv
<1>2. SUFFICES ASSUME run' = "open", NEW b \in Attempts PROVE KeepsWork(b)'
  BY <1>1 DEF WorkInv
<1>3. ASSUME NEW a \in Attempts, Grant(a) \/ EndLease(a)
      PROVE  KeepsWork(b)'
  BY <1>2, <1>3 DEF WorkInv, KeepsWork, Grant, EndLease, apiVars
<1>4. ASSUME NEW a \in Attempts, Launch(a)
      PROVE  KeepsWork(b)'
  <2>1. run = "open"
    BY <1>2, <1>4
       DEF Launch, Enter, Reserve, LookForMarker, Clear, AddWorktree, StartWorker, WorkerStops,
           Retain, Capture, RemoveWorktree, HandOff, LaunchFails, apiVars
  <2>2. QED BY <1>1, <1>4, <2>1, LaunchWork DEF WorkInv
<1>5. ASSUME NEW c \in Closers, Close(c)
      PROVE  KeepsWork(b)'
  <2>1. ~Retire(c)
    BY <1>2 DEF Retire
  <2>2. UNCHANGED <<executorVars, run>>
    BY <1>5, <2>1
       DEF Close, ListGroups, WriteMarker, LookForWorktree, LookForReservation, LookForHandoff,
           RemoveMarker, CloseFails
  <2>3. QED BY <1>2, <2>2 DEF WorkInv, KeepsWork, executorVars
<1>6. CASE ExecutorCrash
  BY <1>1, <1>2, <1>6 DEF CloseoutTypes, WorkInv, KeepsWork, ExecutorCrash, apiVars
<1>7. CASE ServiceCrash \/ UNCHANGED closeoutVars
  BY <1>2, <1>7 DEF WorkInv, KeepsWork, ServiceCrash, closeoutVars, executorVars, apiVars
<1>8. QED BY <1>3, <1>4, <1>5, <1>6, <1>7 DEF CloseoutNext

\* As long as there is the run, no crash or failure between the steps of the
\* handoff, and no other close, loses what a source worker wrote.
THEOREM WorkIsKeptAlways == CloseoutSpec => []WorkIsKept
<1>1. WorkInv => WorkIsKept
  BY DEF WorkInv, KeepsWork, WorkIsKept
<1>2. QED BY <1>1, InitWork, StepWork, PTL DEF CloseoutSpec

-----------------------------------------------------------------------------
(* The hold.  HeldByTheClose is not inductive: a launch and a close exclude  *)
(* each other because the one reserves before it looks for the marker, and   *)
(* the other writes the marker before it looks for the reservation.          *)

\* A launch is reserved before it goes on, and is over once it is handed off.
ReservedFirst(a) ==
  /\ reservation[a] = "none" => worker[a] \in {"none", "entered", "over"}
  /\ reservation[a] = "handed_off" => worker[a] = "over"

\* From here an attempt does not get past the marker.
Held == {"none", "entered", "reserved", "over"}

Checking == {"workspace", "reservation", "handoff", "passed"}

\* What a close may rely on while it looks at one attempt after the other.
Holds(c) ==
  /\ marker
  /\ closer[c].todo = {} <=> closer[c].at = "passed"
  /\ \A a \in closer[c].list \ closer[c].todo : worker[a] \in Held

NoneDone(c) == closer[c].todo = closer[c].list

\* The run's directory is gone, and with it the reservation.
HeldForGood(a) == worker[a] \in Held \cup {"unmarked"} /\ reservation[a] = "none"

HoldInv ==
  /\ CloseoutTypes
  /\ run = "open" => /\ \A a \in Attempts : ReservedFirst(a)
                     /\ \A c \in Closers : /\ closer[c].at = "listed" => NoneDone(c)
                                           /\ closer[c].at \in Checking => Holds(c)
  /\ run = "retired" => \A a \in listed \ recreated : HeldForGood(a)
  /\ listed \subseteq Attempts

LEMMA InitHold == CloseoutInit => HoldInv
BY InitCloseoutTypes DEF CloseoutInit, HoldInv, ReservedFirst, NoneDone, NoClose, Checking

\* A step of a launch on the attempt itself; on others it has no effect.
LEMMA LaunchSteps ==
  ASSUME CloseoutTypes, NEW a \in Attempts, Launch(a)
  PROVE  /\ UNCHANGED apiVars
         /\ \A b \in Attempts \ {a} : worker'[b] = worker[b] /\ reservation'[b] = reservation[b]
         /\ recreated \subseteq recreated'
         /\ ReservedFirst(a) => ReservedFirst(a)'
         /\ worker[a] \in Held /\ marker => worker'[a] \in Held
         /\ HeldForGood(a) /\ run = "retired" => HeldForGood(a)' \/ a \in recreated'
<1>1. /\ UNCHANGED apiVars
      /\ \A b \in Attempts \ {a} : worker'[b] = worker[b] /\ reservation'[b] = reservation[b]
      /\ recreated \subseteq recreated'
  BY DEF CloseoutTypes, Launch, Advance, Enter, Reserve, LookForMarker, Clear, AddWorktree, StartWorker,
         WorkerStops, Retain, Capture, RemoveWorktree, HandOff, LaunchFails
<1>2. ASSUME ReservedFirst(a) PROVE ReservedFirst(a)'
  BY <1>2
     DEF CloseoutTypes, ReservedFirst, Launch, Advance, Enter, Reserve, LookForMarker, Clear, AddWorktree,
         StartWorker, WorkerStops, Retain, Capture, RemoveWorktree, Captured, HandOff, LaunchFails,
         ReservationStands
<1>3. ASSUME worker[a] \in Held, marker PROVE worker'[a] \in Held
  BY <1>3
     DEF CloseoutTypes, Held, Launch, Advance, Enter, Reserve, LookForMarker, Clear, AddWorktree,
         StartWorker, WorkerStops, Retain, Capture, RemoveWorktree, Captured, HandOff, LaunchFails
<1>4. ASSUME HeldForGood(a), run = "retired"
      PROVE  HeldForGood(a)' \/ a \in recreated'
  <2>1. CASE Reserve(a)
    BY <1>4, <2>1 DEF Reserve
  <2>2. CASE ~Reserve(a)
    BY <1>4, <2>2
       DEF CloseoutTypes, HeldForGood, Held, Launch, Advance, Enter, LookForMarker, Clear, AddWorktree,
           StartWorker, WorkerStops, Retain, Capture, RemoveWorktree, Captured, HandOff, LaunchFails,
           ReservationStands
  <2>3. QED BY <2>1, <2>2
<1>5. QED BY <1>1, <1>2, <1>3, <1>4

LEMMA LaunchHold ==
  ASSUME HoldInv, CloseoutTypes', NEW a \in Attempts, Launch(a)
  PROVE  HoldInv'
<1>1. CloseoutTypes /\ UNCHANGED apiVars /\ listed' = listed
  BY LaunchSteps DEF HoldInv, apiVars
<1>2. ASSUME run = "open", NEW b \in Attempts PROVE ReservedFirst(b)'
  BY <1>1, <1>2, LaunchSteps DEF HoldInv, ReservedFirst
<1>3. ASSUME run = "open", NEW c \in Closers, closer[c].at \in Checking PROVE Holds(c)'
  <2>1. Holds(c) /\ closer[c].list \subseteq Attempts
    BY <1>3 DEF HoldInv, CloseoutTypes, CloseState
  <2>2. \A b \in closer[c].list \ closer[c].todo : worker'[b] \in Held
    BY <1>1, <2>1, LaunchSteps DEF Holds
  <2>3. QED BY <1>1, <2>1, <2>2 DEF Holds, apiVars
<1>4. ASSUME run = "retired", NEW b \in listed \ recreated' PROVE HeldForGood(b)'
  <2>1. b \in listed \ recreated /\ HeldForGood(b) /\ b \in Attempts
    BY <1>1, <1>4, LaunchSteps DEF HoldInv
  <2>2. QED BY <1>1, <1>4, <2>1, LaunchSteps DEF HeldForGood
<1>5. QED BY <1>1, <1>2, <1>3, <1>4 DEF HoldInv, NoneDone, apiVars

\* A step of a close leaves the launches alone, save the retirement.
LEMMA CloseHold ==
  ASSUME HoldInv, CloseoutTypes', NEW c \in Closers, Close(c), \A d \in Closers : d = c
  PROVE  HoldInv'
<1>1. closer \in [Closers -> CloseState] /\ closer[c] \in CloseState /\ CloseoutTypes
  BY DEF HoldInv, CloseoutTypes
<1>2. CASE Retire(c)
  <2>1. closer[c].list \subseteq Attempts /\ closer[c].todo = {}
    BY <1>1, <1>2 DEF HoldInv, Holds, Checking, Retire, CloseState
  <2>2. \A a \in closer[c].list : worker[a] \in Held
    BY <1>2, <2>1 DEF HoldInv, Holds, Checking, Retire
  <2>3. \A a \in closer[c].list : HeldForGood(a)'
    BY <1>2, <2>1, <2>2 DEF Retire, HeldForGood
  <2>4. QED BY <1>2, <2>1, <2>3 DEF HoldInv, Retire
<1>3. CASE ~Retire(c)
  <2>1. UNCHANGED <<executorVars, run, listed>>
    BY <1>3 DEF Close, ListGroups, WriteMarker, LookForWorktree, LookForReservation, LookForHandoff,
                RemoveMarker, CloseFails
  <2>2. ASSUME run = "open", closer'[c].at \in Checking PROVE Holds(c)'
    <3>1. ASSUME NEW a \in Attempts, worker[a] \in Held, marker, NextAttempt(c, a),
                 closer[c].at \in Checking, a \in closer[c].todo, marker' = marker
          PROVE  Holds(c)'
      <4> DEFINE r == [closer[c] EXCEPT !.todo = closer[c].todo \ {a},
                         !.at = IF closer[c].todo = {a} THEN "passed" ELSE "workspace"]
      <4>1. closer' = [closer EXCEPT ![c] = r]
        BY <1>1, <3>1 DEF NextAttempt, CloseState
      <4>2. /\ r.todo = closer[c].todo \ {a} /\ r.list = closer[c].list
            /\ r.at = IF closer[c].todo = {a} THEN "passed" ELSE "workspace"
        BY <1>1 DEF CloseState
      <4> HIDE DEF r
      <4>3. closer'[c] = r
        BY <1>1, <4>1
      <4>4. Holds(c)
        BY <2>2, <3>1 DEF HoldInv
      <4>5. r.todo = {} <=> r.at = "passed"
        BY <3>1, <4>2
      <4>6. \A b \in r.list \ r.todo : worker'[b] \in Held
        BY <2>1, <3>1, <4>2, <4>4 DEF Holds, executorVars
      <4>7. QED BY <3>1, <4>3, <4>4, <4>5, <4>6 DEF Holds
    <3>2. ASSUME NEW place \in {"reservation", "handoff", "failing"}, GoTo(c, place),
                 closer[c].at \in Checking \ {"passed"}, marker' = marker
          PROVE  Holds(c)'
      <4>1. Holds(c)
        BY <2>2, <3>2 DEF HoldInv
      <4>2. closer'[c].todo = closer[c].todo /\ closer'[c].list = closer[c].list
            /\ closer'[c].at # "passed"
        BY <1>1, <3>2 DEF GoTo, CloseState
      <4>3. QED BY <2>1, <3>2, <4>1, <4>2 DEF Holds, executorVars
    <3>3. ASSUME closer[c].at \in Checking \ {"passed"}
          PROVE  Examined(c) \in closer[c].todo /\ Examined(c) \in Attempts /\ marker
      <4>1. closer[c].todo # {} /\ marker
        BY <2>2, <3>3 DEF HoldInv, Holds
      <4>2. QED BY <1>1, <4>1 DEF Examined, CloseState
    <3>4. CASE WriteMarker(c)
      <4>1. closer[c].todo = closer[c].list
        BY <2>2, <3>4 DEF HoldInv, NoneDone, WriteMarker
      <4>2. QED BY <1>1, <2>2, <3>4, <4>1 DEF WriteMarker, GoTo, CloseState, Holds, Checking
    <3>5. CASE LookForWorktree(c)
      BY <3>2, <3>5 DEF LookForWorktree, Checking
    <3>6. CASE LookForReservation(c)
      <4>1. Examined(c) \in closer[c].todo /\ Examined(c) \in Attempts /\ marker
        BY <3>3, <3>6 DEF LookForReservation, Checking
      <4>2. ~Reserved(Examined(c)) => worker[Examined(c)] \in Held
        BY <2>2, <4>1 DEF HoldInv, ReservedFirst, Reserved, Held
      <4>3. QED BY <3>1, <3>2, <3>6, <4>1, <4>2 DEF LookForReservation, Checking
    <3>7. CASE LookForHandoff(c)
      <4>1. Examined(c) \in closer[c].todo /\ Examined(c) \in Attempts /\ marker
        BY <3>3, <3>7 DEF LookForHandoff, Checking
      <4>2. Released(c, Examined(c)) => worker[Examined(c)] \in Held
        BY <2>2, <4>1 DEF HoldInv, ReservedFirst, Released, Held
      <4>3. QED BY <3>1, <3>2, <3>7, <4>1, <4>2 DEF LookForHandoff, Checking
    <3>8. CASE ListGroups(c) \/ RemoveMarker(c) \/ CloseFails(c)
      BY <1>1, <2>2, <3>8 DEF ListGroups, RemoveMarker, CloseFails, NoClose, Checking
    <3>9. QED BY <1>3, <3>4, <3>5, <3>6, <3>7, <3>8 DEF Close
  <2>3. ASSUME closer'[c].at = "listed" PROVE NoneDone(c)'
    BY <1>1, <1>3, <2>3
       DEF Close, ListGroups, WriteMarker, LookForWorktree, LookForReservation, LookForHandoff,
           RemoveMarker, CloseFails, GoTo, NextAttempt, NoClose, NoneDone, CloseState
  <2>4. QED BY <2>1, <2>2, <2>3 DEF HoldInv, ReservedFirst, HeldForGood, executorVars
<1>4. QED BY <1>2, <1>3

OneClose == \A c, d \in Closers : c = d

LEMMA StepHold == OneClose /\ HoldInv /\ [CloseoutNext]_closeoutVars => HoldInv'
<1> SUFFICES ASSUME OneClose, HoldInv, [CloseoutNext]_closeoutVars PROVE HoldInv'
  OBVIOUS
<1>1. CloseoutTypes /\ CloseoutTypes'
  BY StepTypes DEF HoldInv
<1>2. ASSUME NEW a \in Attempts, Grant(a) \/ EndLease(a)
      PROVE  HoldInv'
  BY <1>1, <1>2 DEF HoldInv, ReservedFirst, NoneDone, Holds, HeldForGood, Grant, EndLease, apiVars
<1>3. CASE ExecutorCrash
  <2>1. \A a \in Attempts : worker'[a] \in {worker[a], "over"} /\ (worker[a] = "over" => worker'[a] = "over")
    BY <1>3 DEF ExecutorCrash
  <2>2. UNCHANGED <<reservation, recreated, apiVars>>
    BY <1>3 DEF ExecutorCrash
  <2>3. \A c \in Closers : closer[c].list \subseteq Attempts
    BY <1>1 DEF CloseoutTypes, CloseState
  <2>4. QED
    BY <1>1, <2>1, <2>2, <2>3 DEF HoldInv, ReservedFirst, NoneDone, Holds, Held, HeldForGood, apiVars
<1>4. CASE ServiceCrash
  <2>1. \A c \in Closers : closer'[c].at = "idle"
    BY <1>4 DEF ServiceCrash, NoClose
  <2>2. QED
    BY <1>1, <1>4, <2>1
       DEF HoldInv, ReservedFirst, Checking, HeldForGood, ServiceCrash, executorVars
<1>5. CASE UNCHANGED closeoutVars
  BY <1>1, <1>5 DEF HoldInv, ReservedFirst, NoneDone, Holds, HeldForGood, closeoutVars, executorVars, apiVars
<1>6. QED BY <1>1, <1>2, <1>3, <1>4, <1>5, LaunchHold, CloseHold DEF CloseoutNext, OneClose

\* "Hold new launches before checking existing attempt-owned source resources":
\* while the closes of a run come one after the other, however many fail or are
\* cut short, no attempt the successful one looked at is launched once the run's
\* directory is deleted.
THEOREM HeldByTheCloseAlways ==
  ASSUME OneClose
  PROVE  CloseoutSpec => []HeldByTheClose
<1>1. HoldInv => HeldByTheClose
  BY DEF HoldInv, CloseoutTypes, TypeOK, HeldForGood, Held, Launched, HeldByTheClose
<1>2. HoldInv /\ [CloseoutNext]_closeoutVars => HoldInv'
  BY OneClose, StepHold
<1>3. QED BY <1>1, <1>2, InitHold, PTL DEF CloseoutSpec

\* What a close has seen of a worker's work is acknowledged, or there was none.
Accounted(c) == (closer[c].list \ closer[c].todo) \cap wrote \subseteq closer[c].acks

ReleaseInv ==
  /\ wrote \subseteq Attempts
  /\ run = "open" =>
       /\ \A a \in wrote : /\ reservation[a] # "none"
                          /\ worker[a] \in {"running", "stopped", "captured", "removed", "over"}
       /\ \A c \in Closers : closer[c].at \in Checking => Accounted(c)
  /\ run = "retired" => listed \cap wrote \subseteq preserved

LEMMA LaunchRelease ==
  ASSUME HoldInv, ReleaseInv, NEW a \in Attempts, Launch(a)
  PROVE  ReleaseInv'
<1>1. CloseoutTypes /\ UNCHANGED <<marker, run, closer, closes, listed, preserved>>
  BY LaunchSteps DEF HoldInv, apiVars
<1>2. CASE StartWorker(a)
  <2>1. /\ worker[a] = "bound" /\ worker'[a] = "running" /\ reservation'[a] = "running"
        /\ \A b \in Attempts \ {a} : worker'[b] = worker[b] /\ reservation'[b] = reservation[b]
        /\ wrote' = IF run = "open" THEN wrote \cup {a} ELSE wrote
    BY <1>1, <1>2 DEF StartWorker, Advance, CloseoutTypes
  <2>2. ASSUME run = "open", NEW c \in Closers, closer[c].at \in Checking PROVE Accounted(c)'
    <3>1. a \notin closer[c].list \ closer[c].todo
      BY <2>1, <2>2 DEF HoldInv, Holds, Held
    <3>2. Accounted(c) /\ wrote' = wrote \cup {a} /\ closer' = closer
      BY <1>1, <2>1, <2>2 DEF ReleaseInv
    <3>3. QED BY <3>1, <3>2 DEF Accounted
  <2>3. ASSUME run = "open", NEW b \in wrote'
        PROVE  /\ reservation'[b] # "none"
               /\ worker'[b] \in {"running", "stopped", "captured", "removed", "over"}
    BY <2>1, <2>3 DEF ReleaseInv
  <2>4. wrote' \subseteq Attempts /\ (run # "open" => wrote' = wrote)
    BY <2>1 DEF ReleaseInv
  <2>5. run' = run /\ listed' = listed /\ preserved' = preserved /\ closer' = closer
    BY <1>1
  <2>6. run' = "retired" => listed' \cap wrote' \subseteq preserved'
    BY <2>4, <2>5 DEF ReleaseInv
  <2>7. QED BY <2>2, <2>3, <2>4, <2>5, <2>6 DEF ReleaseInv
<1>3. CASE ~StartWorker(a)
  <2>1. wrote' = wrote
    BY <1>3 DEF Launch, Enter, Reserve, LookForMarker, Clear, AddWorktree, WorkerStops, Retain,
                Capture, RemoveWorktree, HandOff, LaunchFails
  <2>2. \A b \in Attempts \ {a} : worker'[b] = worker[b] /\ reservation'[b] = reservation[b]
    BY LaunchSteps DEF HoldInv
  <2>3. ASSUME run = "open", a \in wrote
        PROVE  /\ reservation'[a] # "none"
               /\ worker'[a] \in {"running", "stopped", "captured", "removed", "over"}
    BY <1>1, <1>3, <2>3
       DEF ReleaseInv, CloseoutTypes, Launch, Advance, Enter, Reserve, LookForMarker, Clear, AddWorktree,
           WorkerStops, Retain, Capture, RemoveWorktree, Captured, HandOff, LaunchFails
  <2>4. QED BY <1>1, <2>1, <2>2, <2>3 DEF ReleaseInv, Accounted
<1>4. QED BY <1>2, <1>3

LEMMA CloseRelease ==
  ASSUME HoldInv, ReleaseInv, NEW c \in Closers, Close(c)
  PROVE  ReleaseInv'
<1>1. closer \in [Closers -> CloseState] /\ closer[c] \in CloseState
  BY DEF HoldInv, CloseoutTypes
<1>2. CASE Retire(c)
  <2>1. Accounted(c) /\ closer[c].todo = {}
    BY <1>2 DEF HoldInv, Holds, ReleaseInv, Checking, Retire
  <2>2. QED BY <1>2, <2>1 DEF Retire, ReleaseInv, Accounted
<1>3. CASE ~Retire(c)
  <2>1. UNCHANGED <<executorVars, run, listed, preserved>>
    BY <1>3 DEF Close, ListGroups, WriteMarker, LookForWorktree, LookForReservation, LookForHandoff,
                RemoveMarker, CloseFails
  <2>2. ASSUME run = "open", closer'[c].at \in Checking PROVE Accounted(c)'
    <3>1. ASSUME NEW a, NextAttempt(c, a), closer[c].at \in Checking,
                 a \in wrote => a \in closer[c].acks
          PROVE  Accounted(c)'
      <4>1. /\ closer'[c].todo = closer[c].todo \ {a} /\ closer'[c].list = closer[c].list
            /\ closer'[c].acks = closer[c].acks
        BY <1>1, <3>1 DEF NextAttempt, CloseState
      <4>2. QED BY <2>1, <2>2, <3>1, <4>1 DEF ReleaseInv, Accounted, executorVars
    <3>2. ASSUME NEW place, GoTo(c, place), closer[c].at \in Checking
          PROVE  Accounted(c)'
      <4>1. /\ closer'[c].todo = closer[c].todo /\ closer'[c].list = closer[c].list
            /\ closer'[c].acks = closer[c].acks
        BY <1>1, <3>2 DEF GoTo, CloseState
      <4>2. QED BY <2>1, <2>2, <3>2, <4>1 DEF ReleaseInv, Accounted, executorVars
    <3>3. ASSUME closer[c].at \in Checking \ {"passed"} PROVE Examined(c) \in Attempts
      <4>1. closer[c].todo # {}
        BY <2>2, <3>3 DEF HoldInv, Holds
      <4>2. QED BY <1>1, <4>1 DEF Examined, CloseState
    <3>4. CASE WriteMarker(c)
      <4>1. closer[c].todo = closer[c].list
        BY <2>2, <3>4 DEF HoldInv, NoneDone, WriteMarker
      <4>2. closer'[c].todo = closer[c].todo /\ closer'[c].list = closer[c].list
        BY <1>1, <3>4 DEF WriteMarker, GoTo, CloseState
      <4>3. QED BY <4>1, <4>2 DEF Accounted
    <3>5. CASE LookForWorktree(c)
      BY <3>2, <3>5 DEF LookForWorktree, Checking
    <3>6. CASE LookForReservation(c)
      <4>1. ~Reserved(Examined(c)) => Examined(c) \notin wrote
        BY <2>2, <3>3, <3>6 DEF LookForReservation, Reserved, ReleaseInv, Checking
      <4>2. QED BY <3>1, <3>2, <3>6, <4>1 DEF LookForReservation, Checking
    <3>7. CASE LookForHandoff(c)
      BY <3>1, <3>2, <3>7 DEF LookForHandoff, Released, Checking
    <3>8. CASE ListGroups(c) \/ RemoveMarker(c) \/ CloseFails(c)
      BY <1>1, <2>2, <3>8 DEF ListGroups, RemoveMarker, CloseFails, NoClose, Checking
    <3>9. QED BY <1>3, <3>4, <3>5, <3>6, <3>7, <3>8 DEF Close
  <2>3. \A d \in Closers \ {c} : closer'[d] = closer[d]
    BY <1>1, <1>3 DEF Close, ListGroups, WriteMarker, LookForWorktree, LookForReservation, LookForHandoff,
                RemoveMarker, CloseFails, GoTo, NextAttempt
  <2>4. QED BY <2>1, <2>2, <2>3 DEF ReleaseInv, Accounted, executorVars
<1>4. QED BY <1>2, <1>3

LEMMA StepRelease == HoldInv /\ ReleaseInv /\ [CloseoutNext]_closeoutVars => ReleaseInv'
<1> SUFFICES ASSUME HoldInv, ReleaseInv, [CloseoutNext]_closeoutVars PROVE ReleaseInv'
  OBVIOUS
<1>1. ASSUME NEW a \in Attempts, Grant(a) \/ EndLease(a)
      PROVE  ReleaseInv'
  BY <1>1 DEF ReleaseInv, Accounted, Grant, EndLease, apiVars
<1>2. CASE ExecutorCrash
  BY <1>2 DEF ReleaseInv, Accounted, ExecutorCrash, apiVars
<1>3. CASE ServiceCrash
  <2>1. \A c \in Closers : closer'[c].at = "idle"
    BY <1>3 DEF ServiceCrash, NoClose
  <2>2. QED BY <1>3, <2>1 DEF ReleaseInv, Checking, ServiceCrash, executorVars
<1>4. CASE UNCHANGED closeoutVars
  BY <1>4 DEF ReleaseInv, Accounted, closeoutVars, executorVars, apiVars
<1>5. QED BY <1>1, <1>2, <1>3, <1>4, LaunchRelease, CloseRelease DEF CloseoutNext

\* While closes come one after the other, however many fail or are cut short, the
\* one that deletes the run deletes no work of an attempt it listed, unless the
\* coordinator acknowledged that the attempt's commit is preserved.
THEOREM ReleasedIsPreservedAlways ==
  ASSUME OneClose
  PROVE  CloseoutSpec => []ReleasedIsPreserved
<1>1. CloseoutInit => ReleaseInv
  BY DEF CloseoutInit, ReleaseInv, NoClose, Checking
<1>2. HoldInv /\ [CloseoutNext]_closeoutVars => HoldInv'
  BY OneClose, StepHold
<1>3. ReleaseInv => ReleasedIsPreserved
  BY DEF ReleaseInv, ReleasedIsPreserved
<1>4. QED BY <1>1, <1>2, <1>3, InitHold, StepRelease, PTL DEF CloseoutSpec

-----------------------------------------------------------------------------
(* II. WorkerProcess.                                                        *)

-----------------------------------------------------------------------------
(* Types.                                                                   *)

LaunchRecord ==
  [pc : {"prepare", "running", "closing", "read_report", "read_output", "handoff", "record",
         "conclude", "ended"},
   trouble : BOOLEAN, report : Reports, output : BOOLEAN]

KillRecord ==
  [reason : {"none", "cancelled", "hard_timeout"},
   pc : {"idle", "term", "wait", "kill", "done"}, error : BOOLEAN]

ProcessTypes ==
  /\ leader \in {"none", "running", "ok", "error", "signal"}
  /\ tools \in [Tools -> {"none", "running", "gone"}]
  /\ report \in Reports /\ output \in BOOLEAN
  /\ abort \in {"none", "lease", "shutdown"}
  /\ kill \in KillRecord
  /\ launch \in LaunchRecord

LEMMA InitProcessTypes == ProcessInit => ProcessTypes
<1> SUFFICES ASSUME ProcessInit PROVE ProcessTypes
  OBVIOUS
<1>1. kill \in KillRecord /\ launch \in LaunchRecord
  BY DEF ProcessInit, KillRecord, LaunchRecord, Reports
<1>2. tools \in [Tools -> {"none", "running", "gone"}]
  BY DEF ProcessInit
<1>3. QED BY <1>1, <1>2 DEF ProcessInit, ProcessTypes, Reports

\* Going on changes the launch's pc and nothing else of it.
LEMMA GoesOn ==
  ASSUME ProcessTypes,
         NEW pc \in {"prepare", "running", "closing", "read_report", "read_output", "handoff",
                     "record", "conclude", "ended"},
         Goes(pc)
  PROVE  /\ launch' \in LaunchRecord
         /\ launch'.pc = pc
         /\ launch'.trouble = launch.trouble
         /\ launch'.report = launch.report
         /\ launch'.output = launch.output
BY DEF ProcessTypes, Goes, LaunchRecord

\* A request leaves the kill as it is or begins it.
LEMMA KillRequested ==
  ASSUME ProcessTypes, NEW reason \in {"cancelled", "hard_timeout"}, RequestKill(reason)
  PROVE  /\ kill' \in KillRecord
         /\ \/ kill' = kill
            \/ kill.reason = "none" /\ kill'.reason = reason /\ kill'.pc = "term"
BY DEF ProcessTypes, RequestKill, KillRecord

-----------------------------------------------------------------------------
(* The kill.  KillLeavesNothing is not inductive: that the group is empty    *)
(* when the launch goes on follows from the launch having waited for the     *)
(* kill's last step, and from nobody asking for a kill after that.           *)

KillInv ==
  /\ ProcessTypes
  /\ kill.reason = "none" <=> kill.pc = "idle"
  /\ launch.pc = "prepare" => kill.pc = "idle" /\ leader = "none"
  /\ launch.pc \notin {"prepare", "running", "closing"} => kill.pc \in {"idle", "done"}
  /\ kill.pc = "done" => GroupEmpty

LEMMA InitKill == ProcessInit => KillInv
BY InitProcessTypes DEF ProcessInit, KillInv

\* An empty group stays empty: only its members start another.
LEMMA WorkerKill ==
  ASSUME KillInv, WorkerNext
  PROVE  KillInv'
<1>1. UNCHANGED <<abort, kill, launch>>
  BY DEF WorkerNext, ToolStarts, ToolEnds, Writes, LeaderEnds
<1>2. ProcessTypes'
  BY <1>1 DEF KillInv, ProcessTypes, Reports, WorkerNext, ToolStarts, ToolEnds, Writes, LeaderEnds
<1>3. GroupEmpty => GroupEmpty'
  BY DEF KillInv, ProcessTypes, GroupEmpty, Alive, WorkerNext, ToolStarts, ToolEnds, Writes, LeaderEnds
<1>4. leader = "none" => leader' = "none"
  BY DEF WorkerNext, ToolStarts, ToolEnds, Writes, LeaderEnds
<1>5. QED BY <1>1, <1>2, <1>3, <1>4 DEF KillInv

LEMMA RequestedKill ==
  ASSUME KillInv, Request
  PROVE  KillInv'
<1>1. UNCHANGED <<workerVars, launch>> /\ abort' \in {"none", "lease", "shutdown"}
  BY DEF Request, HardTimeout, Abort, workerVars, KillInv, ProcessTypes
<1>2. CASE kill' = kill
  BY <1>1, <1>2 DEF KillInv, ProcessTypes, GroupEmpty, Alive, workerVars
<1>3. CASE kill' # kill
  <2>1. launch.pc = "running" /\ \E reason \in {"cancelled", "hard_timeout"} : RequestKill(reason)
    BY <1>3 DEF Request, HardTimeout, Abort
  <2>2. kill' \in KillRecord /\ kill'.reason # "none" /\ kill'.pc = "term"
    BY <1>3, <2>1, KillRequested DEF KillInv
  <2>3. QED BY <1>1, <2>1, <2>2 DEF KillInv, ProcessTypes, workerVars
<1>4. QED BY <1>2, <1>3

LEMMA KillStepKill ==
  ASSUME KillInv, KillStep
  PROVE  KillInv'
<1>1. UNCHANGED <<report, output, abort, launch>> /\ kill \in KillRecord /\ launch.pc # "prepare"
  BY DEF KillStep, SendTerm, Waited, SendKill, workerVars, KillInv, ProcessTypes
<1>2. leader' \in {leader, "signal"} /\ tools' \in [Tools -> {"none", "running", "gone"}]
  BY DEF KillInv, ProcessTypes, KillStep, SendTerm, Waited, SendKill, workerVars
<1>3. CASE SendTerm
  <2>1. kill' \in KillRecord /\ kill'.pc = "wait" /\ kill'.reason = kill.reason
    BY <1>1, <1>3 DEF SendTerm, KillRecord
  <2>2. launch.pc \in {"prepare", "running", "closing"} /\ kill.reason # "none"
    BY <1>3 DEF KillInv, SendTerm
  <2>3. QED BY <1>1, <1>2, <2>1, <2>2 DEF KillInv, ProcessTypes
<1>4. CASE Waited
  <2>1. kill' \in KillRecord /\ kill'.pc = "kill" /\ kill'.reason = kill.reason
    BY <1>1, <1>4 DEF Waited, KillRecord
  <2>2. launch.pc \in {"prepare", "running", "closing"} /\ kill.reason # "none"
    BY <1>4 DEF KillInv, Waited
  <2>3. QED BY <1>1, <1>2, <2>1, <2>2 DEF KillInv, ProcessTypes
<1>5. CASE SendKill
  <2>1. kill' \in KillRecord /\ kill'.pc = "done" /\ kill'.reason = kill.reason
    BY <1>1, <1>5 DEF SendKill, KillRecord
  <2>2. GroupEmpty'
    BY <1>5 DEF SendKill, GroupEmpty, Alive
  <2>3. kill.reason # "none"
    BY <1>5 DEF KillInv, SendKill
  <2>4. QED BY <1>1, <1>2, <2>1, <2>2, <2>3 DEF KillInv, ProcessTypes
<1>6. QED BY <1>3, <1>4, <1>5 DEF KillStep

LEMMA LaunchKill ==
  ASSUME KillInv, LaunchStep \/ FileTrouble
  PROVE  KillInv'
<1>1. launch \in LaunchRecord /\ ProcessTypes
  BY DEF KillInv, ProcessTypes
<1>2. CASE Spawn
  <2>1. launch' \in LaunchRecord /\ launch'.pc = "running"
    BY <1>1, <1>2, GoesOn DEF Spawn
  <2>2. kill' \in KillRecord /\ (kill'.reason = "none" <=> kill'.pc = "idle") /\ kill'.pc # "done"
    BY <1>1, <1>2, KillRequested DEF Spawn, KillInv, ProcessTypes
  <2>3. QED BY <1>1, <1>2, <2>1, <2>2 DEF Spawn, KillInv, ProcessTypes
<1>3. CASE ~Spawn
  <2>1. UNCHANGED <<workerVars, abort, kill>>
    BY <1>3 DEF LaunchStep, FileTrouble, PrepareFails, SpawnFails, CloseEvent, Flushed, ReadReport,
                ReadOutput, HandOffSource, WriteResult, Submit
  <2>2. /\ launch' \in LaunchRecord /\ launch'.pc # "prepare"
        /\ launch'.pc \notin {"running", "closing"} => kill.pc \in {"idle", "done"}
    <3>1. CASE PrepareFails \/ CloseEvent \/ Flushed \/ HandOffSource \/ WriteResult \/ Submit
      BY <1>1, <3>1, GoesOn
         DEF KillInv, PrepareFails, CloseEvent, Flushed, HandOffSource, WriteResult, Submit
    <3>2. CASE SpawnFails \/ FileTrouble
      BY <1>1, <3>2 DEF KillInv, SpawnFails, FileTrouble, LaunchRecord
    <3>3. CASE ReadReport
      BY <1>1, <3>3 DEF KillInv, ReadReport, LaunchRecord, ProcessTypes
    <3>4. CASE ReadOutput
      BY <1>1, <3>4 DEF KillInv, ReadOutput, LaunchRecord, ProcessTypes
    <3>5. QED BY <1>3, <3>1, <3>2, <3>3, <3>4 DEF LaunchStep
  <2>3. QED BY <2>1, <2>2 DEF KillInv, ProcessTypes, GroupEmpty, Alive, workerVars
<1>4. QED BY <1>2, <1>3

LEMMA StepKill == KillInv /\ [ProcessNext]_processVars => KillInv'
<1>1. KillInv /\ UNCHANGED processVars => KillInv'
  BY DEF KillInv, ProcessTypes, GroupEmpty, Alive, processVars, workerVars
<1>2. QED
  BY <1>1, WorkerKill, RequestedKill, KillStepKill, LaunchKill DEF ProcessNext

\* A launch that killed its worker, and says so without an error, leaves no
\* process behind, whatever the worker's tools did meanwhile and whenever the kill
\* was asked for.
THEOREM KillLeavesNothingAlways == ProcessSpec => []KillLeavesNothing
<1>1. KillInv => KillLeavesNothing
  BY DEF KillInv, KillLeavesNothing
<1>2. QED BY <1>1, InitKill, StepKill, PTL DEF ProcessSpec

-----------------------------------------------------------------------------
(* The verdict.  What was looked at when the verdict was taken still holds   *)
(* when the API records it.                                                  *)

Earned ==
  /\ leader = "ok" /\ kill.reason = "none"
  /\ launch.report = "completed" /\ launch.output

\* A contribution is captured when nobody is left, and nobody starts anything then.
CaptureInv ==
  /\ contribution = "captured" => GroupEmpty /\ launch.pc # "prepare"
  /\ SourceWriter /\ result = "completed" /\ launch.pc \in {"record", "conclude", "ended"}
       => contribution = "captured"

VerdictInv ==
  /\ KillInv
  /\ result = "completed" => launch.pc \in {"handoff", "record", "conclude", "ended"} /\ Earned
  /\ recorded = "completed" =>
       launch.pc = "ended" /\ result = "completed" /\ abort # "lease"

LEMMA InitVerdict == ProcessInit => VerdictInv
BY InitKill DEF ProcessInit, VerdictInv

\* Once the leader has ended well it has ended, and no kill is asked for.
LEMMA OthersVerdict ==
  ASSUME VerdictInv, WorkerNext \/ Request \/ FileTrouble \/ KillStep
  PROVE  VerdictInv'
<1>1. KillInv' /\ KillInv
  BY StepKill DEF VerdictInv, ProcessNext
<1>2. UNCHANGED <<result, contribution, recorded>>
  BY DEF WorkerNext, ToolStarts, ToolEnds, Writes, LeaderEnds, Request, HardTimeout, Abort,
         FileTrouble, KillStep, SendTerm, Waited, SendKill
<1>3. SUFFICES ASSUME result = "completed" \/ recorded = "completed"
               PROVE  VerdictInv'
  BY <1>1, <1>2 DEF VerdictInv
<1>4. launch.pc \in {"handoff", "record", "conclude", "ended"} /\ Earned /\ kill.pc = "idle"
  BY <1>1, <1>3 DEF VerdictInv, KillInv, Earned
<1>5. UNCHANGED <<launch, kill>> /\ leader' = leader
  BY <1>4 DEF Earned, WorkerNext, ToolStarts, ToolEnds, Writes, LeaderEnds, Request, HardTimeout,
              Abort, FileTrouble, KillStep, SendTerm, Waited, SendKill
<1>6. launch.pc = "ended" => abort' = abort
  BY <1>5 DEF WorkerNext, ToolStarts, ToolEnds, Writes, LeaderEnds, Request, HardTimeout, Abort,
              FileTrouble, KillStep, SendTerm, Waited, SendKill, workerVars
<1>7. QED BY <1>1, <1>2, <1>3, <1>4, <1>5, <1>6 DEF VerdictInv, Earned

LEMMA LaunchVerdict ==
  ASSUME VerdictInv, LaunchStep
  PROVE  VerdictInv'
<1>1. KillInv' /\ KillInv /\ ProcessTypes /\ launch \in LaunchRecord
  BY StepKill DEF VerdictInv, ProcessNext, KillInv, ProcessTypes
<1>2. CASE PrepareFails \/ SpawnFails \/ Spawn \/ CloseEvent \/ Flushed \/ ReadReport
  <2>1. launch.pc \notin {"handoff", "record", "conclude", "ended"}
    BY <1>2 DEF PrepareFails, SpawnFails, Spawn, CloseEvent, Flushed, ReadReport
  <2>2. result # "completed" /\ recorded # "completed"
    BY <2>1 DEF VerdictInv
  <2>3. result' # "completed" /\ recorded' = recorded
    BY <1>2, <2>2 DEF PrepareFails, SpawnFails, Spawn, CloseEvent, Flushed, ReadReport
  <2>4. QED BY <1>1, <2>2, <2>3 DEF VerdictInv
<1>3. CASE ReadOutput
  <2>1. /\ launch'.pc \in {"handoff", "record"}
        /\ launch'.report = launch.report /\ launch'.output = output
    BY <1>1, <1>3 DEF ReadOutput, LaunchRecord
  <2>2. UNCHANGED <<workerVars, kill, recorded>> /\ recorded # "completed"
    BY <1>3 DEF ReadOutput, VerdictInv
  <2>3. result' = "completed" =>
          /\ kill.reason = "none" /\ leader = "ok" /\ launch.report = "completed" /\ output
    BY <1>1, <1>3 DEF ReadOutput, Verdict, ProcessTypes, KillRecord, LaunchRecord, Reports
  <2>4. QED BY <1>1, <2>1, <2>2, <2>3 DEF VerdictInv, Earned, workerVars
<1>4. CASE HandOffSource \/ WriteResult
  <2>1. /\ launch'.pc \in {"record", "conclude"}
        /\ launch'.report = launch.report /\ launch'.output = launch.output
    BY <1>1, <1>4, GoesOn DEF HandOffSource, WriteResult
  <2>2. UNCHANGED <<workerVars, kill, recorded>> /\ recorded # "completed"
    BY <1>4 DEF HandOffSource, WriteResult, VerdictInv
  <2>3. result' \in {result, "failed"}
    BY <1>4 DEF HandOffSource, WriteResult
  <2>4. QED BY <1>1, <2>1, <2>2, <2>3 DEF VerdictInv, Earned, workerVars
<1>5. CASE Submit
  <2>1. /\ launch'.pc = "ended"
        /\ launch'.report = launch.report /\ launch'.output = launch.output
    BY <1>1, <1>5, GoesOn DEF Submit
  <2>2. UNCHANGED <<workerVars, kill, abort, result>>
    BY <1>5 DEF Submit
  <2>3. recorded' = "completed" => result = "completed" /\ abort # "lease"
    BY <1>5 DEF Submit, Classify
  <2>4. QED BY <1>1, <2>1, <2>2, <2>3 DEF VerdictInv, Earned, workerVars
<1>6. QED BY <1>2, <1>3, <1>4, <1>5 DEF LaunchStep

LEMMA StepVerdict == VerdictInv /\ [ProcessNext]_processVars => VerdictInv'
<1>1. VerdictInv /\ UNCHANGED processVars => VerdictInv'
  BY DEF VerdictInv, KillInv, ProcessTypes, GroupEmpty, Alive, Earned, processVars, workerVars
<1>2. QED BY <1>1, OthersVerdict, LaunchVerdict DEF ProcessNext

LEMMA StepCapture == VerdictInv /\ CaptureInv /\ [ProcessNext]_processVars => CaptureInv'
<1> SUFFICES ASSUME VerdictInv, CaptureInv, [ProcessNext]_processVars PROVE CaptureInv'
  OBVIOUS
<1>1. ProcessTypes /\ launch \in LaunchRecord /\ tools \in [Tools -> {"none", "running", "gone"}]
  BY DEF VerdictInv, KillInv, ProcessTypes
<1>2. CASE WorkerNext \/ Request \/ FileTrouble \/ KillStep
  <2>1. UNCHANGED <<result, contribution>> /\ launch'.pc = launch.pc
    BY <1>1, <1>2
       DEF WorkerNext, ToolStarts, ToolEnds, Writes, LeaderEnds, Request, HardTimeout, Abort,
           FileTrouble, KillStep, SendTerm, Waited, SendKill, LaunchRecord
  <2>2. ASSUME GroupEmpty PROVE GroupEmpty'
    BY <1>1, <1>2, <2>2
       DEF GroupEmpty, Alive, WorkerNext, ToolStarts, ToolEnds, Writes, LeaderEnds, Request,
           HardTimeout, Abort, FileTrouble, KillStep, SendTerm, Waited, SendKill, workerVars
  <2>3. QED BY <2>1, <2>2 DEF CaptureInv
<1>3. CASE LaunchStep
  <2>1. CASE PrepareFails \/ SpawnFails \/ Spawn \/ CloseEvent \/ Flushed \/ ReadReport
    <3>1. /\ launch'.pc # "prepare"
          /\ launch'.pc \notin {"record", "conclude", "ended"} \/ result' # "completed"
      BY <1>1, <2>1, GoesOn DEF PrepareFails, SpawnFails, Spawn, CloseEvent, Flushed, ReadReport, LaunchRecord
    <3>2. contribution' = contribution
      BY <2>1 DEF PrepareFails, SpawnFails, Spawn, CloseEvent, Flushed, ReadReport
    <3>3. contribution # "captured" \/ UNCHANGED <<leader, tools>>
      BY <1>1, <2>1 DEF PrepareFails, SpawnFails, Spawn, CloseEvent, Flushed, ReadReport, workerVars,
                        CaptureInv, VerdictInv, KillInv, ProcessTypes
    <3>4. QED BY <3>1, <3>2, <3>3 DEF CaptureInv, GroupEmpty, Alive
  <2>2. CASE ReadOutput
    BY <1>1, <2>2 DEF ReadOutput, CaptureInv, GroupEmpty, Alive, workerVars, LaunchRecord
  <2>3. CASE HandOffSource
    <3>1. UNCHANGED <<leader, tools>> /\ launch.pc = "handoff"
      BY <2>3 DEF HandOffSource, workerVars
    <3>2. launch'.pc = "record"
      BY <1>1, <2>3, GoesOn DEF HandOffSource
    <3>3. QED BY <2>3, <3>1, <3>2 DEF HandOffSource, Stopped, CaptureInv, GroupEmpty, Alive
  <2>4. CASE WriteResult \/ Submit
    BY <1>1, <2>4, GoesOn DEF WriteResult, Submit, CaptureInv, GroupEmpty, Alive, workerVars
  <2>5. QED BY <1>3, <2>1, <2>2, <2>3, <2>4 DEF LaunchStep
<1>4. CASE UNCHANGED processVars
  BY <1>4 DEF CaptureInv, GroupEmpty, Alive, processVars, workerVars
<1>5. QED BY <1>2, <1>3, <1>4 DEF ProcessNext

\* Whatever a worker or what is left of it has written, the API records an attempt
\* as completed only when the worker ended by itself and well, nobody asked for its
\* end before, and its report and its output were there when they were looked for.
\* The contribution of a source writer is captured by then, at rest.
THEOREM CompletedIsEarnedAlways == ProcessSpec => []CompletedIsEarned
<1>1. VerdictInv /\ CaptureInv => CompletedIsEarned
  BY DEF VerdictInv, CaptureInv, Earned, CompletedIsEarned
<1>2. ProcessInit => CaptureInv
  BY DEF ProcessInit, CaptureInv
<1>3. QED BY <1>1, <1>2, InitVerdict, StepVerdict, StepCapture, PTL DEF ProcessSpec

=============================================================================
