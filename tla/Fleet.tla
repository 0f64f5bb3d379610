------------------------------- MODULE Fleet -------------------------------
(***************************************************************************)
(* The runs of protocol-runner-api side by side: their plans, their        *)
(* bindings, the way each goes through the steps of its plan, and the      *)
(* driver (protocol-runner-driver) that polls the list of runs and starts  *)
(* those that are ready and advance by themselves, one a tick, in turn.    *)
(*                                                                         *)
(* A request is one step here: RunControl and ParallelRun take the same    *)
(* handlers apart at their awaits, for one run.  `waiting` stands for the  *)
(* three statuses between the dispatch of a prompt and its report.         *)
(***************************************************************************)
EXTENDS WorkPlan, SequencesExt

CONSTANTS
  Ids,      \* the run ids, as the list orders them: 1..n
  Offered,  \* for each of them, the plans people try to create it with
  MaxFaults \* bound: how many of the driver's calls get no answer, and of its restarts

ASSUME FleetAssumption == Ids \subseteq Nat /\ IsFiniteSet(Ids) /\ MaxFaults \in Nat
ASSUME PlansAssumption ==
  \A r \in Ids : \A plan \in Offered[r] :
    Len(plan.steps) \in Nat /\ DOMAIN plan.steps = 1..Len(plan.steps)

VARIABLES
  runs,    \* each run, or Absent
  driver,  \* the list it goes through, the ids it held, where the next tick begins
  ahead,   \* history: for each run, those started since it waits for its turn
  faults   \* how many answers the driver has missed, and how often it was restarted

vars == <<runs, driver, ahead, faults>>

Absent == [status |-> "absent"]

Exists(r) == runs[r] # Absent

\* A list the driver is not going through.
NoList == <<>>

Init ==
  /\ runs = [r \in Ids |-> Absent]
  /\ driver = [list |-> NoList, known |-> {}, next |-> 0]
  /\ ahead = [r \in Ids |-> {}]
  /\ faults = 0

-----------------------------------------------------------------------------
(* One run: its step, and what a request makes of it.                       *)

StepOf(run) == CurrentStep(run.plan, run.cursor)

AtSerial(run) == IsSerial(run.plan.steps[StepOf(run)])

Group(run) == run.plan.steps[StepOf(run)].group

\* sendCurrentPrompt needs the binding of a Desktop; the prompt is sent, or the run
\* blocked.
Sent(run) ==
  IF run.binding # "serial_desktop" THEN {}
  ELSE {[run EXCEPT !.status = s] : s \in {"waiting", "blocked"}}

\* Preflight: of a run that is bound, ready or blocked, at a group with items left,
\* whose files are as they should be, or not.
Preflighted(run, status) ==
  {[run EXCEPT !.status = "blocked", !.leasable = FALSE]}
  \cup (IF run.status \in {"bound", "ready", "blocked"} /\ Group(run) \notin run.done
        THEN {[run EXCEPT !.status = status, !.leasable = TRUE]} ELSE {})

\* What a start makes of a run; nothing when it is refused.
Started(run) ==
  IF run.status \notin {"bound", "ready"} THEN {}
  ELSE IF AtSerial(run) THEN Sent(run) ELSE Preflighted(run, "running")

\* A paused group goes on as it was left, a blocked one is started anew.
Resumed(run) ==
  IF run.status \notin {"paused", "blocked"} THEN {}
  ELSE IF AtSerial(run) THEN Sent(run)
  ELSE IF run.status = "blocked" THEN Preflighted(run, "running")
  ELSE IF run.leasable THEN {[run EXCEPT !.status = "running"]} ELSE {}

\* Mutant: the run goes to the step by its id alone.
MovedById(run, outcome) ==
  LET t == Transition(run.plan, StepOf(run), outcome)
  IN CASE t.action = "advance" ->
            [run EXCEPT !.status = "ready", !.leasable = FALSE,
                        !.cursor.id = run.plan.steps[t.to].id]
       [] t.action = "pause" -> [run EXCEPT !.status = "paused"]
       [] t.action = "stop" -> [run EXCEPT !.status = "completed"]
       [] OTHER -> [run EXCEPT !.status = "blocked"]

\* applyTransition.
Moved(run, outcome) ==
  LET t == Transition(run.plan, StepOf(run), outcome)
  IN CASE t.action = "advance" ->
            [run EXCEPT !.status = "ready", !.leasable = FALSE,
                        !.cursor = Cursor(run.plan, t.to)]
       [] t.action = "pause" -> [run EXCEPT !.status = "paused"]
       [] t.action = "stop" -> [run EXCEPT !.status = "completed"]
       [] OTHER -> [run EXCEPT !.status = "blocked"]

-----------------------------------------------------------------------------
(* The requests of people, workers and agents.                              *)

Becomes(r, run) ==
  /\ runs' = [runs EXCEPT ![r] = run]
  /\ UNCHANGED <<driver, ahead, faults>>

Create(r, plan, auto) ==
  /\ ~Exists(r)
  /\ Accepted(plan)
  /\ Becomes(r, [plan |-> plan, status |-> "draft", cursor |-> Cursor(plan, 1),
                 binding |-> "none", auto |-> auto, done |-> {}, leasable |-> FALSE])

\* Mutant: only the step the run is at has to fit the binding.
FitsNow(run, kind) == kind = "parallel_only" => ~AtSerial(run)

Fits(run, kind) ==
  kind = "parallel_only" => \A n \in DOMAIN run.plan.steps : ~IsSerial(run.plan.steps[n])

Bind(r, kind) ==
  /\ Exists(r)
  /\ runs[r].status \in {"draft", "bound", "paused", "blocked"}
  /\ Fits(runs[r], kind)
  /\ Becomes(r, [runs[r] EXCEPT !.binding = kind,
                   !.status = IF @ = "draft" THEN "bound" ELSE @])

SetAutomation(r) ==
  /\ Exists(r)
  /\ Becomes(r, [runs[r] EXCEPT !.auto = ~@])

Start(r) == Exists(r) /\ \E run \in Started(runs[r]) : Becomes(r, run)

Resume(r) == Exists(r) /\ \E run \in Resumed(runs[r]) : Becomes(r, run)

Preflight(r) ==
  /\ Exists(r) /\ ~AtSerial(runs[r])
  /\ \E run \in Preflighted(runs[r], "ready") : Becomes(r, run)

Pause(r) ==
  /\ Exists(r)
  /\ runs[r].status \in {"ready", "waiting", "running"}
  /\ Becomes(r, [runs[r] EXCEPT !.status = "paused"])

Fail(r) ==
  /\ Exists(r)
  /\ runs[r].status \notin {"completed", "failed"}
  /\ Becomes(r, [runs[r] EXCEPT !.status = "failed"])

Close(r) ==
  /\ Exists(r)
  /\ runs[r].status \in {"paused", "blocked", "completed", "failed"}
  /\ Becomes(r, Absent)

Report(r, outcome) ==
  /\ Exists(r)
  /\ runs[r].status = "waiting"
  /\ Becomes(r, Moved(runs[r], outcome))

\* The group has come to its end: all its items are completed, or it needs attention.
GroupEnds(r) ==
  /\ Exists(r)
  /\ runs[r].status = "running"
  /\ \/ Becomes(r, Moved([runs[r] EXCEPT !.done = @ \cup {Group(runs[r])}], "completed"))
     \/ Becomes(r, [runs[r] EXCEPT !.status = "blocked", !.leasable = FALSE])

-----------------------------------------------------------------------------
(* The driver: it lists the runs, and starts one of those it saw.           *)

Eager(r) == Exists(r) /\ runs[r].status = "ready" /\ runs[r].auto

Listed == {r \in Ids : Exists(r)}

InOrder(ids) == \A i, j \in DOMAIN ids : i < j => ids[i] < ids[j]

Ordered(S) == CHOOSE ids \in SetToSeqs(S) : InOrder(ids)

\* The list as it is now: ids in their order, and whether each is to be started.
Listing ==
  LET ids == Ordered(Listed)
  IN [i \in DOMAIN ids |-> [id |-> ids[i], eager |-> Eager(ids[i])]]

\* A run that is not to be started, and every run once the list has changed, waits
\* for no turn.
List ==
  /\ driver.list = NoList
  /\ driver' = [driver EXCEPT !.list = Listing, !.known = Listed]
  /\ ahead' = [r \in Ids |-> IF Eager(r) /\ Listed = driver.known THEN ahead[r] ELSE {}]
  /\ UNCHANGED <<runs, faults>>

\* roundRobinOrder: the places of the list, from where the last tick left off.
Place(k) == ((driver.next + k) % Len(driver.list)) + 1

\* The first run to be started in that order, as a place in the list, or 0.
Choice ==
  LET eager == {k \in 0..(Len(driver.list) - 1) : driver.list[Place(k)].eager}
  IN IF eager = {} THEN 0 ELSE Place(CHOOSE k \in eager : \A j \in eager : k <= j)

\* Mutant: the next tick begins with the run that was started.
StaysAt(i) == (i - 1) % Len(driver.list)

\* The place after the run that was started, counted from 0.
NextIndex(i) == i % Len(driver.list)

TickEnds(next) == driver' = [driver EXCEPT !.list = NoList, !.next = next]

NothingToStart ==
  /\ driver.list # NoList
  /\ Choice = 0
  /\ TickEnds(driver.next)
  /\ UNCHANGED <<runs, ahead, faults>>

\* The run has been started, though it may be blocked at once.
Activate ==
  /\ driver.list # NoList /\ Choice # 0
  /\ LET r == driver.list[Choice].id
     IN /\ Exists(r)
        /\ \E run \in Started(runs[r]) : runs' = [runs EXCEPT ![r] = run]
        /\ ahead' = [s \in Ids |-> IF s = r THEN {} ELSE ahead[s] \cup {r}]
  /\ TickEnds(NextIndex(Choice))
  /\ UNCHANGED faults

\* The run is not what the list said any more, or cannot be started.
Refused ==
  /\ driver.list # NoList /\ Choice # 0
  /\ LET r == driver.list[Choice].id IN Exists(r) => Started(runs[r]) = {}
  /\ TickEnds(driver.next)
  /\ UNCHANGED <<runs, ahead, faults>>

Fault == faults < MaxFaults /\ faults' = faults + 1

\* The call is lost, or its answer is: the run may have been started.
Unanswered ==
  /\ driver.list # NoList /\ Choice # 0
  /\ Fault
  /\ LET r == driver.list[Choice].id
     IN \/ UNCHANGED runs
        \/ Exists(r) /\ \E run \in Started(runs[r]) : runs' = [runs EXCEPT ![r] = run]
  /\ TickEnds(driver.next)
  /\ UNCHANGED ahead

\* A new driver begins with the first run.
Restart ==
  /\ Fault
  /\ driver' = [list |-> NoList, known |-> {}, next |-> 0]
  /\ UNCHANGED <<runs, ahead>>

-----------------------------------------------------------------------------
Tick == List \/ NothingToStart \/ Activate \/ Refused \/ Unanswered

Next ==
  \/ \E r \in Ids :
       \/ \E plan \in Offered[r], auto \in BOOLEAN : Create(r, plan, auto)
       \/ \E kind \in {"serial_desktop", "parallel_only"} : Bind(r, kind)
       \/ SetAutomation(r)
       \/ Start(r) \/ Resume(r) \/ Preflight(r) \/ Pause(r) \/ Fail(r) \/ Close(r)
       \/ \E outcome \in {"completed", "blocked"} : Report(r, outcome)
       \/ GroupEnds(r)
  \/ Tick \/ Restart

\* The driver polls for ever.
Spec == Init /\ [][Next]_vars /\ WF_vars(Tick)

-----------------------------------------------------------------------------
(* Properties.                                                              *)

\* Round robin (driver.ts:61): while the same runs exist, none is started a second
\* time before every other run that every list showed ready has had its turn.
Turn ==
  [][\A r \in Ids :
       Activate /\ driver.list[Choice].id = r =>
         \A s \in Ids \ {r} :
           (\E i \in DOMAIN driver.list : driver.list[i] = [id |-> s, eager |-> TRUE])
             => r \notin ahead[s]]_vars

\* A run that has a binding is never ready for a step it cannot be started at:
\* the plan a binding was checked against is the plan the run goes on with.
BindingFits ==
  \A r \in Ids :
    Exists(r) /\ runs[r].status \in {"bound", "ready"} /\ runs[r].binding # "none"
      => Started(runs[r]) # {}

\* A cursor names the same step by id and by ordinal, and that step leads somewhere:
\* an accepted plan blocks a run only where its last step asks for a next one.
RoutesResolve ==
  \A r \in Ids : Exists(r) =>
    LET run == runs[r] n == StepOf(run) IN
    /\ n # 0 /\ run.cursor.ordinal = n
    /\ \A outcome \in {"completed", "blocked"} :
         Transition(run.plan, n, outcome).action = "block" => n = Len(run.plan.steps)

\* A run that stays ready is started in the end.  (It need not be: a run whose start
\* is refused keeps its turn, and the runs after it never have theirs.)
ReadyIsStarted ==
  \A r \in Ids : Eager(r) ~> ~Eager(r)
=============================================================================
