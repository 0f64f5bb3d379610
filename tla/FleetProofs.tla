------------------------------ MODULE FleetProofs ------------------------------
(***************************************************************************)
(* Proofs about Fleet, for any set of runs and any plans offered to them.  *)
(***************************************************************************)
EXTENDS Fleet, FiniteSetTheorems, WellFoundedInduction, TLAPS

-----------------------------------------------------------------------------
(* Plans and the steps an accepted one leads to.                             *)

Plans == UNION {Offered[r] : r \in Ids}

Steps == UNION {{plan.steps[n] : n \in DOMAIN plan.steps} : plan \in Plans}

LEMMA PlanSteps ==
  ASSUME NEW plan \in Plans
  PROVE  /\ Len(plan.steps) \in Nat /\ DOMAIN plan.steps = 1..Len(plan.steps)
         /\ \A n \in DOMAIN plan.steps : plan.steps[n] \in Steps
BY PlansAssumption DEF Plans, Steps

\* What acceptance says of the steps that the way through a plan needs.
LEMMA AcceptedSteps ==
  ASSUME NEW plan \in Plans, Accepted(plan)
  PROVE  /\ DOMAIN plan.steps # {} /\ 1 \in DOMAIN plan.steps
         /\ \A n \in DOMAIN plan.steps :
              /\ plan.steps[n].id # NoStep
              /\ RuleForm(plan.steps[n].on_completed) /\ RuleForm(plan.steps[n].on_blocked)
              /\ IsSerial(plan.steps[n]) \/ IsGroup(plan.steps[n])
         /\ \A m, n \in DOMAIN plan.steps : plan.steps[m].id = plan.steps[n].id => m = n
         /\ Targets(plan) \subseteq StepIds(plan)
<1>1. /\ plan.steps # <<>>
      /\ \A n \in DOMAIN plan.steps : StepForm(plan.steps[n])
      /\ IsInjective([n \in DOMAIN plan.steps |-> plan.steps[n].id])
      /\ Targets(plan) \subseteq StepIds(plan)
  BY DEF Accepted
<1>2. \A m, n \in DOMAIN plan.steps : plan.steps[m].id = plan.steps[n].id => m = n
  BY <1>1 DEF IsInjective
<1>3. ASSUME NEW n \in DOMAIN plan.steps
      PROVE  /\ plan.steps[n].id # NoStep
             /\ RuleForm(plan.steps[n].on_completed) /\ RuleForm(plan.steps[n].on_blocked)
             /\ IsSerial(plan.steps[n]) \/ IsGroup(plan.steps[n])
  BY <1>1 DEF StepForm, SafeId
<1>4. 1 \in DOMAIN plan.steps
  BY <1>1, PlanSteps
<1>5. QED BY <1>1, <1>2, <1>3, <1>4

\* An accepted plan has one step of an id, which is found.
LEMMA StepFound ==
  ASSUME NEW plan \in Plans, Accepted(plan), NEW n \in DOMAIN plan.steps
  PROVE  StepById(plan, plan.steps[n].id) = n
<1>1. plan.steps[n].id \in StepIds(plan)
  BY DEF StepIds
<1>2. \A m \in DOMAIN plan.steps : plan.steps[m].id = plan.steps[n].id <=> m = n
  BY AcceptedSteps
<1>3. \A k \in 1..(n - 1) : k \in DOMAIN plan.steps /\ k # n
  BY PlanSteps
<1>4. \A k \in 1..(n - 1) : plan.steps[k].id # plan.steps[n].id
  BY <1>2, <1>3
<1>5. n = CHOOSE m \in DOMAIN plan.steps :
            plan.steps[m].id = plan.steps[n].id
              /\ \A k \in 1..(m - 1) : plan.steps[k].id # plan.steps[n].id
  BY <1>2, <1>4
<1>6. QED BY <1>1, <1>5 DEF StepById

\* An outcome leads to a step of the plan, or ends the run, or asks for a step
\* after the last.
LEMMA WhereTo ==
  ASSUME NEW plan \in Plans, Accepted(plan), NEW n \in DOMAIN plan.steps, NEW outcome
  PROVE  LET t == Transition(plan, n, outcome) IN
         /\ t.action \in {"advance", "block", "pause", "stop"}
         /\ t.action = "advance" => t.to \in DOMAIN plan.steps
         /\ t.action = "block" => n = Len(plan.steps)
<1> DEFINE step == plan.steps[n]
<1>1. PICK rule : rule = IF outcome = "completed" THEN step.on_completed ELSE step.on_blocked
  OBVIOUS
<1>2. RuleForm(rule)
  BY <1>1, AcceptedSteps
<1>3. CASE rule.action = "go_to"
  <2>1. rule.to \in Targets(plan)
    BY <1>1, <1>3 DEF Targets, Rules
  <2>2. PICK m \in DOMAIN plan.steps : rule.to = plan.steps[m].id
    BY <2>1, AcceptedSteps DEF StepIds
  <2>3. StepById(plan, rule.to) = m /\ m # 0
    BY <2>2, StepFound, PlanSteps
  <2>4. Transition(plan, n, outcome) = [action |-> "advance", to |-> m]
    BY <1>1, <1>3, <2>3 DEF Transition
  <2>5. QED BY <2>4
<1>4. CASE rule.action = "next"
  <2>1. CASE n + 1 \in DOMAIN plan.steps
    <3>1. StepByOrdinal(plan, n + 1) = n + 1 /\ n + 1 # 0
      BY <2>1, PlanSteps DEF StepByOrdinal
    <3>2. Transition(plan, n, outcome) = [action |-> "advance", to |-> n + 1]
      BY <1>1, <1>4, <3>1 DEF Transition
    <3>3. QED BY <2>1, <3>2
  <2>2. CASE n + 1 \notin DOMAIN plan.steps
    <3>1. StepByOrdinal(plan, n + 1) = 0 /\ n = Len(plan.steps)
      BY <2>2, PlanSteps DEF StepByOrdinal
    <3>2. Transition(plan, n, outcome) = [action |-> "block", to |-> 0]
      BY <1>1, <1>4, <3>1 DEF Transition
    <3>3. QED BY <3>1, <3>2
  <2>3. QED BY <2>1, <2>2
<1>5. CASE rule.action \in {"pause", "stop"}
  <2>1. Transition(plan, n, outcome) = [action |-> rule.action, to |-> 0]
    BY <1>1, <1>5 DEF Transition
  <2>2. QED BY <1>5, <2>1
<1>6. QED BY <1>2, <1>3, <1>4, <1>5 DEF RuleForm
-----------------------------------------------------------------------------
(* Runs.  BindingFits and RoutesResolve are not inductive: a run goes on     *)
(* because its plan is one that was accepted, its cursor was made from a     *)
(* step of that plan, and its binding was checked against all of its steps.  *)

Statuses ==
  {"draft", "bound", "ready", "waiting", "running", "paused", "blocked", "completed", "failed"}

RunRecord ==
  [plan : Plans, status : Statuses,
   cursor : [id : {step.id : step \in Steps}, ordinal : Nat],
   binding : {"none", "serial_desktop", "parallel_only"}, auto : BOOLEAN,
   done : SUBSET {step.group : step \in Steps}, leasable : BOOLEAN]

AtStep(run, n) == n \in DOMAIN run.plan.steps /\ run.cursor = Cursor(run.plan, n)

Sound(run) ==
  /\ run \in RunRecord
  /\ Accepted(run.plan)
  /\ \E n \in DOMAIN run.plan.steps : AtStep(run, n)
  /\ Fits(run, run.binding)

RunsInv ==
  /\ runs \in [Ids -> RunRecord \cup {Absent}]
  /\ \A r \in Ids : Exists(r) => Sound(runs[r])

LEMMA CursorTyped ==
  ASSUME NEW plan \in Plans, NEW n \in DOMAIN plan.steps
  PROVE  Cursor(plan, n) \in [id : {step.id : step \in Steps}, ordinal : Nat]
BY PlanSteps DEF Cursor

\* The step a sound run is at.
LEMMA StepAt ==
  ASSUME NEW run, Sound(run), NEW n, AtStep(run, n)
  PROVE  /\ StepOf(run) = n /\ run.cursor.ordinal = n /\ n # 0
         /\ run.plan \in Plans /\ n \in DOMAIN run.plan.steps
<1>1. run.plan \in Plans /\ Accepted(run.plan) /\ n \in DOMAIN run.plan.steps
  BY DEF Sound, RunRecord, AtStep
<1>2. run.cursor.id = run.plan.steps[n].id /\ run.cursor.ordinal = n
  BY DEF AtStep, Cursor
<1>3. run.cursor.id # NoStep
  BY <1>1, <1>2, AcceptedSteps
<1>4. StepOf(run) = n
  BY <1>1, <1>2, <1>3, StepFound DEF StepOf, CurrentStep
<1>5. QED BY <1>1, <1>2, <1>4, PlanSteps

LEMMA SoundStep ==
  ASSUME NEW run, Sound(run)
  PROVE  /\ run.plan \in Plans /\ StepOf(run) \in DOMAIN run.plan.steps
         /\ AtStep(run, StepOf(run)) /\ Group(run) \in {step.group : step \in Steps}
<1>1. PICK n : AtStep(run, n)
  BY DEF Sound
<1>2. StepOf(run) = n /\ run.plan \in Plans /\ n \in DOMAIN run.plan.steps
  BY <1>1, StepAt
<1>3. run.plan.steps[n] \in Steps
  BY <1>2, PlanSteps
<1>4. QED BY <1>1, <1>2, <1>3 DEF Group

\* What a request keeps of a run: all that its way depends on.
SameWay(run, new) ==
  /\ new \in RunRecord
  /\ new.plan = run.plan /\ new.cursor = run.cursor /\ new.binding = run.binding

LEMMA SoundWay ==
  ASSUME NEW run, Sound(run), NEW new, SameWay(run, new)
  PROVE  Sound(new)
BY DEF Sound, SameWay, AtStep, Fits

LEMMA StatusChanged ==
  ASSUME NEW run, Sound(run), NEW status \in Statuses
  PROVE  /\ SameWay(run, [run EXCEPT !.status = status])
         /\ \A leasable \in BOOLEAN :
              SameWay(run, [run EXCEPT !.status = status, !.leasable = leasable])
BY DEF Sound, RunRecord, SameWay

LEMMA StartedSound ==
  ASSUME NEW run, Sound(run)
  PROVE  /\ \A new \in Sent(run) : Sound(new)
         /\ \A status \in Statuses : \A new \in Preflighted(run, status) : Sound(new)
         /\ \A new \in Started(run) : Sound(new)
         /\ \A new \in Resumed(run) : Sound(new)
<1>1. ASSUME NEW new \in Sent(run) PROVE Sound(new)
  <2>1. PICK s \in {"waiting", "blocked"} : new = [run EXCEPT !.status = s]
    BY DEF Sent
  <2>2. QED BY <2>1, StatusChanged, SoundWay DEF Statuses
<1>2. ASSUME NEW status \in Statuses, NEW new \in Preflighted(run, status) PROVE Sound(new)
  <2>1. PICK s \in Statuses, leasable \in BOOLEAN :
          new = [run EXCEPT !.status = s, !.leasable = leasable]
    BY DEF Preflighted, Statuses
  <2>2. SameWay(run, new)
    BY <2>1, StatusChanged
  <2>3. QED BY <2>2, SoundWay
<1>3. ASSUME NEW new \in Started(run) PROVE Sound(new)
  BY <1>1, <1>2, <1>3 DEF Started, Statuses
<1>4. ASSUME NEW new \in Resumed(run) PROVE Sound(new)
  <2>1. SameWay(run, [run EXCEPT !.status = "running"])
    BY StatusChanged DEF Statuses
  <2>2. QED BY <1>1, <1>2, <1>4, <2>1, SoundWay DEF Resumed, Statuses
<1>5. QED BY <1>1, <1>2, <1>3, <1>4

LEMMA MovedSound ==
  ASSUME NEW run, Sound(run), NEW outcome
  PROVE  Sound(Moved(run, outcome))
<1>1. PICK t : t = Transition(run.plan, StepOf(run), outcome)
  OBVIOUS
<1>2. /\ t.action \in {"advance", "block", "pause", "stop"}
      /\ t.action = "advance" => t.to \in DOMAIN run.plan.steps
  BY <1>1, SoundStep, WhereTo DEF Sound
<1>3. CASE t.action = "advance"
  <2>1. PICK new : new = [run EXCEPT !.status = "ready", !.leasable = FALSE,
                                     !.cursor = Cursor(run.plan, t.to)]
    OBVIOUS
  <2>2. Cursor(run.plan, t.to) \in [id : {step.id : step \in Steps}, ordinal : Nat]
    BY <1>2, <1>3, SoundStep, CursorTyped
  <2>3. /\ new \in RunRecord
        /\ new.plan = run.plan /\ new.cursor = Cursor(run.plan, t.to) /\ new.binding = run.binding
    BY <2>1, <2>2 DEF Sound, RunRecord, Statuses
  <2>4. AtStep(new, t.to)
    BY <1>2, <1>3, <2>3 DEF AtStep
  <2>5. Sound(new)
    BY <1>2, <1>3, <2>3, <2>4 DEF Sound, Fits
  <2>6. QED BY <1>1, <1>3, <2>1, <2>5 DEF Moved
<1>4. CASE t.action # "advance"
  <2>1. PICK s \in Statuses : Moved(run, outcome) = [run EXCEPT !.status = s]
    BY <1>1, <1>2, <1>4 DEF Moved, Statuses
  <2>2. QED BY <2>1, StatusChanged, SoundWay
<1>5. QED BY <1>3, <1>4
\* A request replaces one run, by a sound one or by none.
LEMMA Replaced ==
  ASSUME RunsInv, NEW r \in Ids, NEW run, run = Absent \/ Sound(run),
         runs' = [runs EXCEPT ![r] = run]
  PROVE  RunsInv'
<1>1. run \in RunRecord \cup {Absent}
  BY DEF Sound
<1>2. runs' \in [Ids -> RunRecord \cup {Absent}]
  BY <1>1 DEF RunsInv
<1>3. ASSUME NEW s \in Ids, Exists(s)' PROVE Sound(runs'[s])
  BY <1>3 DEF RunsInv, Exists
<1>4. QED BY <1>2, <1>3 DEF RunsInv

LEMMA CreateSound ==
  ASSUME NEW r \in Ids, NEW plan \in Offered[r], Accepted(plan), NEW auto \in BOOLEAN
  PROVE  Sound([plan |-> plan, status |-> "draft", cursor |-> Cursor(plan, 1),
                binding |-> "none", auto |-> auto, done |-> {}, leasable |-> FALSE])
<1>1. plan \in Plans
  BY DEF Plans
<1>2. 1 \in DOMAIN plan.steps
  BY <1>1, AcceptedSteps
<1>3. QED BY <1>1, <1>2, CursorTyped DEF Sound, RunRecord, Statuses, AtStep, Fits

LEMMA RequestRuns ==
  ASSUME RunsInv, NEW r \in Ids,
         \/ \E plan \in Offered[r], auto \in BOOLEAN : Create(r, plan, auto)
         \/ \E kind \in {"serial_desktop", "parallel_only"} : Bind(r, kind)
         \/ SetAutomation(r)
         \/ Start(r) \/ Resume(r) \/ Preflight(r) \/ Pause(r) \/ Fail(r) \/ Close(r)
         \/ \E outcome \in {"completed", "blocked"} : Report(r, outcome)
         \/ GroupEnds(r)
  PROVE  RunsInv'
<1>1. Exists(r) => Sound(runs[r])
  BY DEF RunsInv
<1>2. ASSUME NEW plan \in Offered[r], NEW auto \in BOOLEAN, Create(r, plan, auto)
      PROVE  RunsInv'
  BY <1>2, CreateSound, Replaced DEF Create, Becomes
<1>3. ASSUME NEW kind \in {"serial_desktop", "parallel_only"}, Bind(r, kind)
      PROVE  RunsInv'
  <2>1. PICK status \in {"bound", runs[r].status} :
          runs' = [runs EXCEPT ![r] = [runs[r] EXCEPT !.binding = kind, !.status = status]]
    BY <1>3 DEF Bind, Becomes
  <2>2. PICK new : new = [runs[r] EXCEPT !.binding = kind, !.status = status]
    OBVIOUS
  <2>3. Sound(runs[r]) /\ Fits(runs[r], kind)
    BY <1>1, <1>3 DEF Bind
  <2>4. /\ new \in RunRecord /\ new.plan = runs[r].plan /\ new.cursor = runs[r].cursor
        /\ new.binding = kind
    BY <2>2, <2>3 DEF Sound, RunRecord, Statuses
  <2>5. Sound(new)
    BY <2>3, <2>4 DEF Sound, AtStep, Fits
  <2>6. QED BY <2>1, <2>2, <2>5, Replaced
<1>4. CASE SetAutomation(r)
  <2>1. PICK new : new = [runs[r] EXCEPT !.auto = ~@]
    OBVIOUS
  <2>2. Sound(runs[r])
    BY <1>1, <1>4 DEF SetAutomation
  <2>3. SameWay(runs[r], new)
    BY <2>1, <2>2 DEF Sound, RunRecord, SameWay
  <2>4. QED BY <1>4, <2>1, <2>2, <2>3, SoundWay, Replaced DEF SetAutomation, Becomes
<1>5. CASE Start(r)
  BY <1>1, <1>5, StartedSound, Replaced DEF Start, Becomes
<1>6. CASE Resume(r)
  BY <1>1, <1>6, StartedSound, Replaced DEF Resume, Becomes
<1>7. CASE Preflight(r)
  BY <1>1, <1>7, StartedSound, Replaced DEF Preflight, Becomes, Statuses
<1>8. CASE Pause(r)
  BY <1>1, <1>8, StatusChanged, SoundWay, Replaced DEF Pause, Becomes, Statuses
<1>9. CASE Fail(r)
  BY <1>1, <1>9, StatusChanged, SoundWay, Replaced DEF Fail, Becomes, Statuses
<1>10. CASE Close(r)
  BY <1>10, Replaced DEF Close, Becomes
<1>11. ASSUME NEW outcome \in {"completed", "blocked"}, Report(r, outcome)
       PROVE  RunsInv'
  BY <1>1, <1>11, MovedSound, Replaced DEF Report, Becomes
<1>12. CASE GroupEnds(r)
  <2>1. Sound(runs[r])
    BY <1>1, <1>12 DEF GroupEnds
  <2>2. PICK new : new = [runs[r] EXCEPT !.done = @ \cup {Group(runs[r])}]
    OBVIOUS
  <2>3. SameWay(runs[r], new)
    BY <2>1, <2>2, SoundStep DEF Sound, RunRecord, SameWay
  <2>4. Sound(Moved(new, "completed"))
    BY <2>1, <2>3, SoundWay, MovedSound
  <2>5. SameWay(runs[r], [runs[r] EXCEPT !.status = "blocked", !.leasable = FALSE])
    BY <2>1, StatusChanged DEF Statuses
  <2>6. CASE Becomes(r, Moved([runs[r] EXCEPT !.done = @ \cup {Group(runs[r])}], "completed"))
    BY <2>2, <2>4, <2>6, Replaced DEF Becomes
  <2>7. CASE Becomes(r, [runs[r] EXCEPT !.status = "blocked", !.leasable = FALSE])
    BY <2>1, <2>5, <2>7, SoundWay, Replaced DEF Becomes
  <2>8. QED BY <1>12, <2>6, <2>7 DEF GroupEnds
<1>13. QED BY <1>2, <1>3, <1>4, <1>5, <1>6, <1>7, <1>8, <1>9, <1>10, <1>11, <1>12

LEMMA TickRuns ==
  ASSUME RunsInv, Tick \/ Restart
  PROVE  RunsInv'
<1>1. CASE UNCHANGED runs
  BY <1>1 DEF RunsInv, Exists
<1>2. ASSUME NEW r, Exists(r), NEW run \in Started(runs[r]), runs' = [runs EXCEPT ![r] = run]
      PROVE  RunsInv'
  <2>1. CASE r \in Ids
    BY <1>2, <2>1, StartedSound, Replaced DEF RunsInv
  <2>2. CASE r \notin Ids
    <3>1. runs' = runs
      BY <1>2, <2>2 DEF RunsInv
    <3>2. QED BY <1>1, <3>1
  <2>3. QED BY <2>1, <2>2
<1>3. QED
  BY <1>1, <1>2 DEF Tick, Restart, List, NothingToStart, Activate, Refused, Unanswered

LEMMA StepRuns == RunsInv /\ [Next]_vars => RunsInv'
<1> SUFFICES ASSUME RunsInv, [Next]_vars PROVE RunsInv'
  OBVIOUS
<1>1. CASE UNCHANGED vars
  BY <1>1 DEF vars, RunsInv, Exists
<1>2. ASSUME NEW r \in Ids,
             \/ \E plan \in Offered[r], auto \in BOOLEAN : Create(r, plan, auto)
             \/ \E kind \in {"serial_desktop", "parallel_only"} : Bind(r, kind)
             \/ SetAutomation(r)
             \/ Start(r) \/ Resume(r) \/ Preflight(r) \/ Pause(r) \/ Fail(r) \/ Close(r)
             \/ \E outcome \in {"completed", "blocked"} : Report(r, outcome)
             \/ GroupEnds(r)
      PROVE  RunsInv'
  BY <1>2, RequestRuns
<1>3. CASE Tick \/ Restart
  BY <1>3, TickRuns
<1>4. QED BY <1>1, <1>2, <1>3 DEF Next

LEMMA InitRuns == Init => RunsInv
BY DEF Init, RunsInv, Exists

LEMMA RunsAlways == Spec => []RunsInv
BY InitRuns, StepRuns, PTL DEF Spec

\* A run with a binding can be started at every step it comes to: a binding is
\* checked once, against the plan the run keeps (canBindRun, controller.ts).
THEOREM BindingFitsAlways == Spec => []BindingFits
<1>1. RunsInv => BindingFits
  <2> SUFFICES ASSUME RunsInv, NEW r \in Ids, Exists(r), runs[r].status \in {"bound", "ready"},
                      runs[r].binding # "none"
               PROVE  Started(runs[r]) # {}
    BY DEF BindingFits
  <2>1. PICK run : run = runs[r] /\ Sound(run)
    BY DEF RunsInv
  <2>2. run.plan \in Plans /\ StepOf(run) \in DOMAIN run.plan.steps
    BY <2>1, SoundStep
  <2>3. CASE AtSerial(run)
    <3>1. run.binding # "parallel_only"
      BY <2>1, <2>2, <2>3 DEF AtSerial, Sound, Fits
    <3>2. run.binding = "serial_desktop"
      BY <2>1, <3>1 DEF Sound, RunRecord
    <3>3. [run EXCEPT !.status = "waiting"] \in Sent(run)
      BY <3>2 DEF Sent
    <3>4. QED BY <2>1, <2>3, <3>3 DEF Started
  <2>4. CASE ~AtSerial(run)
    <3>1. [run EXCEPT !.status = "blocked", !.leasable = FALSE] \in Preflighted(run, "running")
      BY DEF Preflighted
    <3>2. QED BY <2>1, <2>4, <3>1 DEF Started
  <2>5. QED BY <2>3, <2>4
<1>2. QED BY <1>1, RunsAlways, PTL

\* The cursor of every run names one step, by id and by ordinal alike, and an
\* accepted plan blocks a run only behind its last step (steps.ts, transitions.ts).
THEOREM RoutesResolveAlways == Spec => []RoutesResolve
<1>1. RunsInv => RoutesResolve
  <2> SUFFICES ASSUME RunsInv, NEW r \in Ids, Exists(r)
               PROVE  /\ StepOf(runs[r]) # 0 /\ runs[r].cursor.ordinal = StepOf(runs[r])
                      /\ \A outcome \in {"completed", "blocked"} :
                           Transition(runs[r].plan, StepOf(runs[r]), outcome).action = "block"
                             => StepOf(runs[r]) = Len(runs[r].plan.steps)
    BY DEF RoutesResolve
  <2>1. PICK run : run = runs[r] /\ Sound(run)
    BY DEF RunsInv
  <2>2. run.plan \in Plans /\ Accepted(run.plan) /\ StepOf(run) \in DOMAIN run.plan.steps
    BY <2>1, SoundStep DEF Sound
  <2>3. AtStep(run, StepOf(run))
    BY <2>1, SoundStep
  <2>4. StepOf(run) # 0 /\ run.cursor.ordinal = StepOf(run)
    BY <2>1, <2>3, StepAt
  <2>5. \A outcome : Transition(run.plan, StepOf(run), outcome).action = "block"
                       => StepOf(run) = Len(run.plan.steps)
    BY <2>2, WhereTo
  <2>6. QED BY <2>1, <2>4, <2>5
<1>2. QED BY <1>1, RunsAlways, PTL
-----------------------------------------------------------------------------
(* Numbers: the least of a set, and remainders.                              *)

LEMMA LeastOf ==
  ASSUME NEW T \in SUBSET Nat, T # {}
  PROVE  \E x \in T : \A y \in T : x <= y
<1> DEFINE R == OpToRel(<, Nat)
<1>1. IsWellFoundedOn(R, Nat)
  BY NatLessThanWellFounded
<1>2. \E x \in T : \A y \in T : ~ (<<y, x>> \in R)
  BY <1>1, WFMin
<1>3. \A x, y \in Nat : x < y => <<x, y>> \in R
  BY DEF OpToRel
<1>4. PICK x \in T : \A y \in T : ~ (<<y, x>> \in R)
  BY <1>2
<1> HIDE DEF R
<1>5. ASSUME NEW y \in T PROVE x <= y
  <2>1. x \in Nat /\ y \in Nat
    OBVIOUS
  <2>2. ~(y < x)
    BY <1>3, <1>4, <2>1
  <2>3. QED BY <2>1, <2>2
<1>6. QED BY <1>5

LEMMA DivMod ==
  ASSUME NEW L \in Nat \ {0}, NEW a \in Nat
  PROVE  a \div L \in Nat /\ a % L \in 0..(L-1) /\ a = L * (a \div L) + (a % L)
OBVIOUS

LEMMA Larger ==
  ASSUME NEW L \in Nat \ {0}, NEW p \in Nat, NEW q \in Nat, p < q
  PROVE  L * q >= L * p + L
<1>1. PICK d \in Nat : q = p + 1 + d
  <2>1. q - p - 1 \in Nat /\ q = p + 1 + (q - p - 1)
    OBVIOUS
  <2>2. QED BY <2>1
<1>2. L * q = L * p + L + L * d
  BY <1>1
<1>3. L * d \in Nat /\ L * p \in Nat
  OBVIOUS
<1>4. QED BY <1>2, <1>3

LEMMA Remainder ==
  ASSUME NEW L \in Nat \ {0}, NEW q \in Nat, NEW r \in 0..(L-1)
  PROVE  (L * q + r) % L = r
<1>0. PICK a \in Nat : a = L * q + r
  OBVIOUS
<1>1. PICK d \in Nat, m \in 0..(L-1) : m = a % L /\ d = a \div L /\ a = L * d + m
  BY DivMod
<1>2. L * d \in Nat /\ L * q \in Nat
  BY <1>1
<1>3. ASSUME d < q PROVE FALSE
  <2>1. L * q >= L * d + L
    BY <1>3, Larger
  <2>2. QED BY <1>0, <1>1, <1>2, <2>1
<1>4. ASSUME q < d PROVE FALSE
  <2>1. L * d >= L * q + L
    BY <1>4, Larger
  <2>2. QED BY <1>0, <1>1, <1>2, <2>1
<1>5. d = q
  BY <1>3, <1>4
<1>6. QED BY <1>0, <1>1, <1>2, <1>5

LEMMA Carried ==
  ASSUME NEW L \in Nat \ {0}, NEW d \in Nat, NEW r \in 0..(L-1)
  PROVE  (L * d + L + r) % L = r
<1>1. PICK q \in Nat : q = d + 1 
  OBVIOUS
<1>2. L * q \in Nat
  OBVIOUS
<1>3. (L * q + r) % L = r
  BY <1>2, Remainder
<1>4. L * q = L * d + L
  BY <1>1
<1>5. QED BY <1>3, <1>4

LEMMA ModAdd ==
  ASSUME NEW L \in Nat \ {0}, NEW n \in Nat, NEW k \in 0..(L-1)
  PROVE  /\ n % L \in 0..(L-1)
         /\ ((n + k) % L) = IF (n % L) + k < L THEN (n % L) + k ELSE (n % L) + k - L
<1>1. PICK d \in Nat, m \in 0..(L-1) : m = n % L /\ n = L * d + m
  BY DivMod
<1>2. L * d \in Nat /\ L * (d + 1) = L * d + L
  BY <1>1
<1>3. CASE m + k < L
  <2>1. n + k = L * d + (m + k) /\ m + k \in 0..(L-1)
    BY <1>1, <1>2, <1>3
  <2>2. (L * d + (m + k)) % L = m + k
    BY <2>1, Remainder
  <2>3. QED BY <1>1, <1>3, <2>1, <2>2
<1>4. CASE m + k >= L
  <2>1. n + k = L * d + L + (m + k - L) /\ m + k - L \in 0..(L-1) /\ n + k \in Nat
    BY <1>1, <1>2, <1>4
  <2>2. (L * d + L + (m + k - L)) % L = m + k - L
    BY <2>1, Carried
  <2>3. QED BY <1>1, <1>4, <2>1, <2>2
<1>5. QED BY <1>1, <1>3, <1>4


LEMMA LastPlace ==
  ASSUME NEW L \in Nat \ {0}, NEW c \in 0..L
  PROVE  c % L = IF c = L THEN 0 ELSE c
OBVIOUS

\* Counting on from behind the place with c others before it.
LEMMA CountedOn ==
  ASSUME NEW L \in Nat \ {0}, NEW n \in Nat, NEW c \in 0..(L-1), NEW k \in 0..(L-1)
  PROVE  \E e \in 0..(L-1) :
           /\ (((((n + c) % L) + 1) % L) + k) % L = (n + e) % L
           /\ e = c + 1 + k \/ e = c + 1 + k - L
<1>0. PICK p \in 1..L : p = ((n + c) % L) + 1
  <2>1. (n + c) % L \in 0..(L-1)
    BY DivMod
  <2>2. ((n + c) % L) + 1 \in 1..L
    BY <2>1
  <2>3. QED BY <2>2
<1>1. PICK m \in 0..(L-1) : m = n % L /\ (p = m + c + 1 \/ p = m + c - L + 1)
  BY <1>0, ModAdd
<1>2. PICK o \in 0..(L-1) : o = p % L /\ (o = p \/ (p = L /\ o = 0))
  BY LastPlace
<1>3. o % L = o
  BY LastPlace
<1>4. (o + k) % L = IF o + k < L THEN o + k ELSE o + k - L
  <2>1. (o + k) % L = IF (o % L) + k < L THEN (o % L) + k ELSE (o % L) + k - L
    <3>1. o \in Nat
      OBVIOUS
    <3>2. QED BY ONLY L \in Nat \ {0}, k \in 0..(L-1), <3>1, ModAdd
  <2>2. QED BY <1>3, <2>1
<1>5. PICK e \in 0..(L-1) : e = c + 1 + k \/ e = c + 1 + k - L
  <2>1. CASE c + 1 + k < L
    <3>1. c + 1 + k \in 0..(L-1)
      BY <2>1
    <3>2. QED BY <3>1
  <2>2. CASE c + 1 + k >= L
    <3>1. c + 1 + k - L \in 0..(L-1)
      BY <2>2
    <3>2. QED BY <3>1
  <2>3. QED BY <2>1, <2>2
<1>6. (n + e) % L = IF m + e < L THEN m + e ELSE m + e - L
  BY <1>1, ModAdd
<1>7. (o + k) % L = (n + e) % L
  BY <1>1, <1>2, <1>4, <1>5, <1>6
<1>8. QED BY <1>0, <1>2, <1>5, <1>7

-----------------------------------------------------------------------------
(* The list: the ids have an order.                                          *)

LEMMA HasOrder ==
  ASSUME NEW S \in SUBSET Nat, IsFiniteSet(S)
  PROVE  \E ids \in SetToSeqs(S) : InOrder(ids)
<1> DEFINE HasNone(T) == ~ \E ids \in SetToSeqs(T) : InOrder(ids)
           Bad == {n \in Nat : \E T \in SUBSET Nat :
                     IsFiniteSet(T) /\ Cardinality(T) = n /\ HasNone(T)}
<1>1. SUFFICES ASSUME HasNone(S) PROVE FALSE
  OBVIOUS
<1>2. Bad \in SUBSET Nat /\ Bad # {}
  BY <1>1, FS_CardinalityType
<1>3. PICK m \in Bad : \A n \in Bad : m <= n
  <2> HIDE DEF Bad
  <2>1. QED BY <1>2, LeastOf
<1>4. PICK T \in SUBSET Nat : IsFiniteSet(T) /\ Cardinality(T) = m /\ HasNone(T)
  OBVIOUS
<1>5. ASSUME T = {} PROVE FALSE
  <2>1. m = 0
    BY <1>4, <1>5, FS_EmptySet
  <2>2. PICK f : f = [i \in 1..0 |-> 0]
    OBVIOUS
  <2>3. f \in [1..0 -> T] /\ DOMAIN f = {}
    BY <2>2
  <2>4. f \in SetToSeqs(T)
    BY <1>4, <2>1, <2>3 DEF SetToSeqs
  <2>5. InOrder(f)
    BY <2>3 DEF InOrder
  <2>6. QED BY <1>4, <2>4, <2>5
<1>6. ASSUME T # {} PROVE FALSE
  <2>1. PICK x \in T : \A y \in T : x <= y
    BY <1>6, LeastOf
  <2>2. PICK U \in SUBSET Nat : U = T \ {x}
    OBVIOUS
  <2>3. IsFiniteSet(U) /\ Cardinality(U) = m - 1
    BY <1>4, <2>1, <2>2, FS_RemoveElement
  <2>4. m \in Nat /\ m - 1 \in Nat
    <3>1. Cardinality(U) \in Nat /\ m \in Nat
      BY <2>3, FS_CardinalityType
    <3>2. QED BY <2>3, <3>1
  <2>5. m - 1 \notin Bad
    <3> HIDE DEF Bad
    <3>1. QED BY <1>3, <2>4
  <2>6. PICK g \in SetToSeqs(U) : InOrder(g)
    BY <2>3, <2>4, <2>5
  <2>7. g \in [1..(m - 1) -> U] /\ \A i, j \in 1..(m - 1) : i < j => g[i] < g[j]
    BY <2>3, <2>6 DEF SetToSeqs, InOrder
  <2>8. PICK f : f = [i \in 1..m |-> IF i = 1 THEN x ELSE g[i - 1]]
    OBVIOUS
  <2>9. ASSUME NEW i \in 1..m, i # 1 PROVE f[i] = g[i - 1] /\ i - 1 \in 1..(m - 1) /\ f[i] \in U
    BY <2>4, <2>7, <2>8, <2>9
  <2>10. 1 \in 1..m => f[1] = x
    BY <2>8
  <2>11. f \in [1..m -> T]
    <3>1. \A i \in 1..m : f[i] \in T
      BY <2>2, <2>9, <2>10
    <3>2. QED BY <2>8, <3>1
  <2>12. ASSUME NEW i \in 1..m, NEW j \in 1..m, i < j PROVE f[i] < f[j]
    <3>1. j # 1 /\ f[j] = g[j - 1] /\ j - 1 \in 1..(m - 1) /\ f[j] \in U
      BY <2>4, <2>9, <2>12
    <3>2. CASE i = 1
      <4>1. f[i] = x /\ f[j] \in T /\ f[j] # x
        BY <2>2, <2>10, <3>1, <3>2
      <4>2. x \in Nat /\ f[j] \in Nat /\ x <= f[j]
        BY <2>1, <4>1
      <4>3. QED BY <4>1, <4>2
    <3>3. CASE i # 1
      <4>1. f[i] = g[i - 1] /\ i - 1 \in 1..(m - 1)
        BY <2>9, <3>3
      <4>2. i - 1 < j - 1
        BY <2>4, <2>12
      <4>3. QED BY <2>7, <3>1, <4>1, <4>2
    <3>4. QED BY <3>2, <3>3
  <2>13. ASSUME NEW i \in 1..m, NEW j \in 1..m, i # j PROVE f[i] # f[j]
    <3>1. i < j \/ j < i
      BY <2>4, <2>13
    <3>2. f[i] \in Nat /\ f[j] \in Nat
      BY <2>11
    <3>3. QED BY <2>12, <3>1, <3>2
  <2>14. f \in SetToSeqs(T)
    BY <1>4, <2>11, <2>13 DEF SetToSeqs
  <2>15. InOrder(f)
    BY <2>11, <2>12 DEF InOrder
  <2>16. QED BY <1>4, <2>14, <2>15
<1>7. QED BY <1>5, <1>6
\* The place of each listed run, and no run has two.
LEMMA OrderedIds ==
  ASSUME NEW S \in SUBSET Ids
  PROVE  /\ Cardinality(S) \in Nat
         /\ Ordered(S) \in [1..Cardinality(S) -> S]
         /\ \A i, j \in 1..Cardinality(S) : Ordered(S)[i] = Ordered(S)[j] => i = j
<1>1. S \in SUBSET Nat /\ IsFiniteSet(S)
  BY FleetAssumption, FS_Subset
<1>2. Ordered(S) \in SetToSeqs(S)
  BY <1>1, HasOrder DEF Ordered
<1>3. QED BY <1>1, <1>2, FS_CardinalityType DEF SetToSeqs

-----------------------------------------------------------------------------
(* The driver's turns.  Turn is not inductive: that no run is started twice  *)
(* before another had its turn follows from where the started ones are, in   *)
(* the order in which the next tick goes through the list.                   *)

Length == Cardinality(driver.known)

\* The place of the list that comes after k others, as in Place.
At(k) == ((driver.next + k) % Length) + 1

DriverState ==
  [list : Seq([id : Ids, eager : BOOLEAN]), known : SUBSET Ids, next : Nat]

\* The list shows the known ids in their order, and who is not to be started does not wait.
ListFits ==
  driver.list # NoList =>
    /\ driver.known # {}
    /\ DOMAIN driver.list = 1..Length
    /\ \A i \in 1..Length :
         /\ driver.list[i].id = Ordered(driver.known)[i]
         /\ ~driver.list[i].eager => ahead[driver.list[i].id] = {}

\* Who was started while another waits comes after it.
AheadComeLater ==
  driver.known # {} =>
    \A j, k \in 0..(Length - 1) :
      Ordered(driver.known)[At(k)] \in ahead[Ordered(driver.known)[At(j)]] => j < k

TurnInv ==
  /\ driver \in DriverState
  /\ ahead \in [Ids -> SUBSET Ids]
  /\ ListFits
  /\ AheadComeLater

LEMMA InitTurn == Init => TurnInv
<1> SUFFICES ASSUME Init PROVE TurnInv
  OBVIOUS
<1>1. driver \in DriverState
  BY DEF Init, DriverState, NoList
<1>2. QED BY <1>1 DEF Init, TurnInv, ListFits, AheadComeLater, NoList

\* The place after j others is one of the list, and each place has its j.
LEMMA Places ==
  ASSUME TurnInv, driver.known # {}
  PROVE  /\ Length \in Nat \ {0}
         /\ \A k \in 0..(Length - 1) : At(k) \in 1..Length
         /\ \A j, k \in 0..(Length - 1) : At(j) = At(k) => j = k
         /\ \A i \in 1..Length : \E k \in 0..(Length - 1) : At(k) = i
<1>1. Length \in Nat \ {0}
  <2>1. IsFiniteSet(driver.known)
    BY FleetAssumption, FS_Subset DEF TurnInv, DriverState
  <2>2. QED BY <2>1, FS_CardinalityType, FS_EmptySet DEF Length
<1>2. PICK L \in Nat \ {0}, n \in Nat : L = Length /\ n = driver.next
  BY <1>1 DEF TurnInv, DriverState
<1>3. PICK m \in 0..(L - 1) : m = n % L
  BY ModAdd, <1>2
<1>4. ASSUME NEW k \in 0..(L - 1)
      PROVE  At(k) = IF m + k < L THEN m + k + 1 ELSE m + k - L + 1
  <2>1. (n + k) % L = IF (n % L) + k < L THEN (n % L) + k ELSE (n % L) + k - L
    BY ModAdd
  <2>2. QED BY <1>2, <1>3, <2>1 DEF At
<1>5. ASSUME NEW i \in 1..L PROVE \E k \in 0..(L - 1) : At(k) = i
  <2>1. PICK k \in 0..(L - 1) : k = i - 1 - m \/ (i - 1 < m /\ k = i - 1 - m + L)
    <3>1. CASE i - 1 >= m
      <4>1. i - 1 - m \in 0..(L - 1)
        BY <3>1
      <4>2. QED BY <4>1
    <3>2. CASE i - 1 < m
      <4>1. i - 1 - m + L \in 0..(L - 1)
        BY <3>2
      <4>2. QED BY <3>2, <4>1
    <3>3. QED BY <3>1, <3>2
  <2>2. At(k) = IF m + k < L THEN m + k + 1 ELSE m + k - L + 1
    BY <1>4
  <2>3. At(k) = i
    BY <2>1, <2>2
  <2>4. QED BY <2>3
<1>6. QED BY <1>1, <1>2, <1>4, <1>5

\* While the driver has a list, its places are those of the model's Place.
LEMMA PlaceIsAt ==
  ASSUME TurnInv, driver.list # NoList
  PROVE  /\ Len(driver.list) = Length
         /\ \A k \in 0..(Length - 1) : Place(k) = At(k)
<1>1. DOMAIN driver.list = 1..Length /\ driver.list \in Seq([id : Ids, eager : BOOLEAN])
  BY DEF TurnInv, ListFits, DriverState
<1>2. Length \in Nat \ {0}
  BY Places DEF TurnInv, ListFits
<1>3. Len(driver.list) = Length
  BY <1>1, <1>2
<1>4. QED BY <1>3 DEF Place, At

\* The choice is the first run to be started.
LEMMA FirstEager ==
  ASSUME TurnInv, driver.list # NoList, Choice # 0
  PROVE  \E c \in 0..(Length - 1) :
           /\ Choice = At(c) /\ Choice \in 1..Length /\ driver.list[Choice].eager
           /\ \A j \in 0..(Length - 1) : driver.list[At(j)].eager => c <= j
<1>1. PICK eager : eager = {k \in 0..(Length - 1) : driver.list[Place(k)].eager}
  OBVIOUS
<1>2. Len(driver.list) = Length /\ \A k \in 0..(Length - 1) : Place(k) = At(k)
  BY PlaceIsAt
<1>3. Length \in Nat \ {0} /\ \A k \in 0..(Length - 1) : At(k) \in 1..Length
  BY Places DEF TurnInv, ListFits
<1>4. eager # {} /\ Choice = Place(CHOOSE k \in eager : \A j \in eager : k <= j)
  BY <1>1, <1>2 DEF Choice
<1>5. eager \in SUBSET Nat
  BY <1>1, <1>3
<1>6. \E k \in eager : \A j \in eager : k <= j
  BY <1>4, <1>5, LeastOf
<1>7. PICK c \in eager : c = (CHOOSE k \in eager : \A j \in eager : k <= j) /\ \A j \in eager : c <= j
  BY <1>6
<1>8. c \in 0..(Length - 1) /\ Choice = At(c) /\ driver.list[At(c)].eager
  <2>1. c \in 0..(Length - 1) /\ driver.list[Place(c)].eager
    BY <1>1
  <2>2. Place(c) = At(c)
    BY <1>2, <2>1
  <2>3. QED BY <1>4, <1>7, <2>1, <2>2
<1>9. \A j \in 0..(Length - 1) : driver.list[At(j)].eager => j \in eager
  BY <1>1, <1>2
<1>10. QED BY <1>3, <1>7, <1>8, <1>9
LEMMA TickEnded ==
  ASSUME TurnInv, NEW next \in Nat, driver' = [driver EXCEPT !.list = NoList, !.next = next]
  PROVE  /\ driver' \in DriverState /\ driver'.list = NoList
         /\ driver'.known = driver.known /\ driver'.next = next
<1>1. NoList \in Seq([id : Ids, eager : BOOLEAN])
  BY DEF NoList
<1>2. QED BY <1>1 DEF TurnInv, DriverState

\* A tick that starts nothing ends with the places as they were.
LEMMA TickEndsTurn ==
  ASSUME TurnInv, TickEnds(driver.next), UNCHANGED ahead
  PROVE  TurnInv'
<1>1. /\ driver' \in DriverState /\ driver'.list = NoList
      /\ driver'.known = driver.known /\ driver'.next = driver.next
  BY TickEnded DEF TickEnds, TurnInv, DriverState
<1>2. Length' = Length /\ \A k : At(k)' = At(k)
  BY <1>1 DEF Length, At
<1>3. AheadComeLater'
  BY <1>1, <1>2 DEF TurnInv, AheadComeLater
<1>4. QED BY <1>1, <1>3 DEF TurnInv, ListFits

LEMMA ActivateTurn ==
  ASSUME TurnInv, Activate
  PROVE  TurnInv'
<1>1. driver.list # NoList /\ driver.known # {} /\ driver.next \in Nat
  BY DEF Activate, TurnInv, ListFits, DriverState
<1>2. PICK L \in Nat \ {0} : L = Length
  BY <1>1, Places
<1>3. PICK c \in 0..(L - 1) :
        /\ Choice = At(c) /\ Choice \in 1..L
        /\ \A j \in 0..(L - 1) : driver.list[At(j)].eager => c <= j
  BY <1>1, <1>2, FirstEager DEF Activate
<1>4. PICK r \in Ids : r = driver.list[Choice].id /\ r = Ordered(driver.known)[Choice]
  <2>1. driver.list[Choice].id = Ordered(driver.known)[Choice]
    BY <1>1, <1>2, <1>3 DEF TurnInv, ListFits
  <2>2. Ordered(driver.known)[Choice] \in Ids
    BY <1>2, <1>3, OrderedIds DEF TurnInv, DriverState, Length
  <2>3. QED BY <2>1, <2>2
<1>5. ahead' = [s \in Ids |-> IF s = r THEN {} ELSE ahead[s] \cup {r}]
  BY <1>4 DEF Activate
<1>6. /\ driver' \in DriverState /\ driver'.list = NoList
      /\ driver'.known = driver.known /\ driver'.next = Choice % L
  <2>1. Len(driver.list) = L
    BY <1>1, <1>2, PlaceIsAt
  <2>2. Choice % L \in Nat
    BY <1>3, LastPlace
  <2>3. driver' = [driver EXCEPT !.list = NoList, !.next = Choice % L]
    BY <2>1 DEF Activate, TickEnds, NextIndex
  <2>4. QED BY <2>2, <2>3, TickEnded
<1>7. Length' = L
  BY <1>2, <1>6 DEF Length
<1>8. PICK ids : ids = Ordered(driver.known)
  OBVIOUS
<1>9. /\ \A i \in 1..L : ids[i] \in Ids
      /\ \A i, j \in 1..L : ids[i] = ids[j] => i = j
  BY <1>2, <1>8, OrderedIds DEF TurnInv, DriverState, Length
<1>10. ASSUME NEW k \in 0..(L - 1)
       PROVE  \E e \in 0..(L - 1) :
                At(k)' = At(e) /\ At(e) \in 1..L /\ (e = c + 1 + k \/ e = c + 1 + k - L)
  <2>1. Choice = ((driver.next + c) % L) + 1
    BY <1>2, <1>3 DEF At
  <2>2. PICK e \in 0..(L - 1) : /\ ((Choice % L) + k) % L = (driver.next + e) % L
                                /\ e = c + 1 + k \/ e = c + 1 + k - L
    <3>1. PICK n \in Nat, p \in 1..L : n = driver.next /\ p = Choice /\ p = ((n + c) % L) + 1
      BY <1>1, <1>3, <2>1
    <3>2. \E e \in 0..(L-1) : /\ ((p % L) + k) % L = (n + e) % L
                              /\ e = c + 1 + k \/ e = c + 1 + k - L
      <4>1. \E e \in 0..(L-1) : /\ (((((n + c) % L) + 1) % L) + k) % L = (n + e) % L
                                /\ e = c + 1 + k \/ e = c + 1 + k - L
        BY CountedOn
      <4>2. QED BY <3>1, <4>1
    <3>3. QED BY <3>1, <3>2
  <2>3. At(k)' = At(e)
    BY <1>2, <1>6, <1>7, <2>2 DEF At
  <2>4. At(e) \in 1..L
    BY <1>1, <1>2, Places
  <2>5. QED BY <2>2, <2>3, <2>4
<1>11. ASSUME NEW j \in 0..(L - 1), NEW k \in 0..(L - 1), ids[At(k)'] \in ahead'[ids[At(j)']]
       PROVE  j < k
  <2>1. PICK d \in 0..(L - 1) :
          At(j)' = At(d) /\ At(d) \in 1..L /\ (d = c + 1 + j \/ d = c + 1 + j - L)
    BY <1>10
  <2>2. PICK e \in 0..(L - 1) :
          At(k)' = At(e) /\ At(e) \in 1..L /\ (e = c + 1 + k \/ e = c + 1 + k - L)
    BY <1>10
  <2>3. PICK s \in Ids, t \in Ids : s = ids[At(d)] /\ t = ids[At(e)]
    BY <1>9, <2>1, <2>2
  <2>4. t \in ahead'[s]
    BY <1>11, <2>1, <2>2, <2>3
  <2>5. s # r /\ t \in ahead[s] \cup {r}
    BY <1>5, <2>4
  <2>6. d # c
    BY <1>3, <1>4, <1>8, <2>3, <2>5
  <2>7. CASE t = r
    <3>1. At(e) = At(c)
      BY <1>3, <1>4, <1>8, <1>9, <2>2, <2>3, <2>7
    <3>2. e = c
      BY <1>1, <1>2, <3>1, Places
    <3>3. k = L - 1 /\ j # L - 1
      BY <2>1, <2>2, <2>6, <3>2
    <3>4. QED BY <3>3
  <2>8. CASE t \in ahead[s]
    <3>1. d < e
      BY <1>1, <1>2, <1>8, <2>3, <2>8 DEF TurnInv, AheadComeLater
    <3>2. driver.list[At(d)].eager
      BY <1>1, <1>2, <1>8, <2>1, <2>3, <2>8 DEF TurnInv, ListFits
    <3>3. c < d
      BY <1>3, <2>6, <3>2
    <3>4. d = c + 1 + j /\ e = c + 1 + k
      BY <2>1, <2>2, <3>1, <3>3
    <3>5. QED BY <3>1, <3>4
  <2>9. QED BY <2>5, <2>7, <2>8
<1>12. AheadComeLater'
  BY <1>6, <1>7, <1>8, <1>11 DEF AheadComeLater
<1>13. ahead' \in [Ids -> SUBSET Ids]
  BY <1>5 DEF TurnInv
<1>14. QED BY <1>6, <1>12, <1>13 DEF TurnInv, ListFits

LEMMA IsSequence ==
  ASSUME NEW S, NEW n \in Nat
  PROVE  [1..n -> S] \subseteq Seq(S)
OBVIOUS

LEMMA ListTurn ==
  ASSUME TurnInv, List
  PROVE  TurnInv'
<1>1. Listed \in SUBSET Ids
  BY DEF Listed
<1>2. PICK ids, n : /\ ids = Ordered(Listed) /\ n = Cardinality(Listed)
                     /\ n \in Nat /\ ids \in [1..n -> Listed]
  BY <1>1, OrderedIds
<1>3. Listing = [i \in 1..n |-> [id |-> ids[i], eager |-> Eager(ids[i])]]
  BY <1>2 DEF Listing
<1>4. Listing \in Seq([id : Ids, eager : BOOLEAN])
  <2>1. \A i \in 1..n : [id |-> ids[i], eager |-> Eager(ids[i])] \in [id : Ids, eager : BOOLEAN]
    BY <1>1, <1>2 DEF Eager
  <2>2. Listing \in [1..n -> [id : Ids, eager : BOOLEAN]]
    BY <1>3, <2>1
  <2>3. QED BY <1>2, <2>2, IsSequence
<1>5. /\ driver' \in DriverState /\ driver'.list = Listing
      /\ driver'.known = Listed /\ driver'.next = driver.next
  BY <1>1, <1>4 DEF List, TurnInv, DriverState
<1>6. Length' = n
  BY <1>2, <1>5 DEF Length
<1>7. /\ ahead' = [r \in Ids |-> IF Eager(r) /\ Listed = driver.known THEN ahead[r] ELSE {}]
      /\ ahead' \in [Ids -> SUBSET Ids]
  BY DEF List, TurnInv
<1>8. ListFits'
  <2>1. Listed = {} => Listing = NoList
    BY <1>1, <1>2, <1>3, FS_EmptySet DEF NoList
  <2>2. \A i \in 1..n : /\ Listing[i].id = ids[i] /\ ids[i] \in Ids
                        /\ ~Listing[i].eager => ahead'[ids[i]] = {}
    BY <1>1, <1>2, <1>3, <1>7
  <2>3. DOMAIN Listing = 1..n
    BY <1>3
  <2>4. QED BY <1>2, <1>5, <1>6, <2>1, <2>2, <2>3 DEF ListFits
<1>9. AheadComeLater'
  <2>1. CASE Listed = driver.known
    <3>1. Length' = Length /\ \A k : At(k)' = At(k)
      BY <1>5, <2>1 DEF Length, At
    <3>2. \A r \in Ids : ahead'[r] \subseteq ahead[r]
      BY <1>7
    <3>3. ASSUME driver.known # {}, NEW j \in 0..(Length - 1), NEW k \in 0..(Length - 1),
                 Ordered(driver.known)[At(k)] \in ahead'[Ordered(driver.known)[At(j)]]
          PROVE  j < k
      <4>1. At(j) \in 1..Length
        BY <3>3, Places
      <4>2. Ordered(driver.known)[At(j)] \in Ids
        BY <4>1, OrderedIds DEF TurnInv, DriverState, Length
      <4>3. QED BY <3>2, <3>3, <4>2 DEF TurnInv, AheadComeLater
    <3>4. QED BY <1>5, <2>1, <3>1, <3>3 DEF AheadComeLater
  <2>2. CASE Listed # driver.known
    <3>1. \A r \in Ids : ahead'[r] = {}
      BY <1>7, <2>2
    <3>2. ASSUME Listed # {}, NEW j \in 0..(n - 1) PROVE ids[At(j)'] \in Ids
      <4>1. n \in Nat \ {0}
        <5>1. IsFiniteSet(Listed)
          BY <1>1, FleetAssumption, FS_Subset
        <5>2. QED BY <1>2, <3>2, <5>1, FS_EmptySet
      <4>2. driver.next \in Nat
        BY DEF TurnInv, DriverState
      <4>3. (driver.next + j) % n \in 0..(n - 1)
        BY <4>1, <4>2
      <4>4. At(j)' = ((driver.next + j) % n) + 1
        BY <1>5, <1>6 DEF At
      <4>5. At(j)' \in 1..n
        BY <4>1, <4>3, <4>4
      <4>6. QED BY <1>1, <1>2, <4>5
    <3>3. QED BY <1>2, <1>5, <1>6, <3>1, <3>2 DEF AheadComeLater
  <2>3. QED BY <2>1, <2>2
<1>10. QED BY <1>5, <1>7, <1>8, <1>9 DEF TurnInv

LEMMA RestartTurn ==
  ASSUME TurnInv, Restart
  PROVE  TurnInv'
<1>1. driver' = [list |-> NoList, known |-> {}, next |-> 0] /\ ahead' = ahead
  BY DEF Restart
<1>2. driver' \in DriverState
  BY <1>1 DEF DriverState, NoList
<1>3. QED BY <1>1, <1>2 DEF TurnInv, ListFits, AheadComeLater

LEMMA StepTurn == TurnInv /\ [Next]_vars => TurnInv'
<1> SUFFICES ASSUME TurnInv, [Next]_vars PROVE TurnInv'
  OBVIOUS
<1>1. CASE UNCHANGED <<driver, ahead>>
  BY <1>1 DEF TurnInv, ListFits, AheadComeLater, Length, At
<1>2. CASE List
  BY <1>2, ListTurn
<1>3. CASE Activate
  BY <1>3, ActivateTurn
<1>4. CASE NothingToStart \/ Refused \/ Unanswered
  BY <1>4, TickEndsTurn DEF NothingToStart, Refused, Unanswered
<1>5. CASE Restart
  BY <1>5, RestartTurn
<1>6. QED
  BY <1>1, <1>2, <1>3, <1>4, <1>5
  DEF Next, Tick, vars, Create, Bind, SetAutomation, Start, Resume, Preflight, Pause, Fail, Close,
      Report, GroupEnds, Becomes

LEMMA OrderAlways == Spec => []TurnInv
BY InitTurn, StepTurn, PTL DEF Spec

\* Round robin (driver.ts:61): while the same runs exist, none is started a second
\* time before every other run that every list showed ready has had its turn,
\* however many there are.
THEOREM TurnAlways == Spec => Turn
<1>1. TurnInv /\ [Next]_vars =>
        [\A r \in Ids :
           Activate /\ driver.list[Choice].id = r =>
             \A s \in Ids \ {r} :
               (\E i \in DOMAIN driver.list : driver.list[i] = [id |-> s, eager |-> TRUE])
                 => r \notin ahead[s]]_vars
  <2> SUFFICES ASSUME TurnInv, Activate, NEW s \in Ids,
                      NEW i \in DOMAIN driver.list, driver.list[i] = [id |-> s, eager |-> TRUE],
                      driver.list[Choice].id \in ahead[s]
               PROVE  FALSE
    OBVIOUS
  <2>1. driver.list # NoList /\ driver.known # {} /\ i \in 1..Length
    BY DEF Activate, TurnInv, ListFits
  <2>2. PICK c \in 0..(Length - 1) :
          /\ Choice = At(c) /\ Choice \in 1..Length
          /\ \A j \in 0..(Length - 1) : driver.list[At(j)].eager => c <= j
    BY <2>1, FirstEager DEF Activate
  <2>3. PICK j \in 0..(Length - 1) : At(j) = i
    BY <2>1, Places
  <2>4. c <= j
    BY <2>2, <2>3
  <2>5. /\ s = Ordered(driver.known)[At(j)]
        /\ driver.list[Choice].id = Ordered(driver.known)[At(c)]
    BY <2>1, <2>2, <2>3 DEF TurnInv, ListFits
  <2>6. j < c
    BY <2>1, <2>5 DEF TurnInv, AheadComeLater
  <2>7. Length \in Nat
    BY <2>1, Places
  <2>8. QED BY <2>4, <2>6, <2>7
<1>2. QED BY <1>1, OrderAlways, PTL DEF Spec, Turn

=============================================================================
