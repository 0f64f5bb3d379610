------------------------------ MODULE WorkPlan ------------------------------
(***************************************************************************)
(* The work plan of a run, as protocol-runner-core sees it: which plans    *)
(* validateWorkPlan accepts, and where the steps of an accepted plan lead. *)
(*                                                                         *)
(* A plan is a record: its mode, whether its own fields are sound, and its *)
(* steps.  A step has its id, its kind, the names of those of its fields   *)
(* that are malformed (`wrong`), its two transition rules, and, for a      *)
(* parallel group, its group id, its items and whether they write source.  *)
(* A path stands for what it resolves to; the validator compares           *)
(* source paths without regard to case.                                    *)
(***************************************************************************)
EXTENDS Naturals, Sequences, FiniteSets, Functions

CONSTANT UnsafeIds \* the ids that do not match STEP_ID_PATTERN

NoStep == "no step"

SafeId(id) == id # NoStep /\ id \notin UnsafeIds

IsSerial(step) == step.kind \in {"work", "review"}

IsGroup(step) == step.kind = "parallel_group"

-----------------------------------------------------------------------------
(* validateTransitionRule, and the rules' targets.                          *)

RuleForm(rule) ==
  /\ rule.action \in {"next", "pause", "stop", "go_to"}
  /\ IF rule.action = "go_to" THEN SafeId(rule.to) ELSE rule.to = NoStep

\* Mutant: only the rule for a completed step is looked at.
CompletedRule(step) == {step.on_completed}

Rules(step) == {step.on_completed, step.on_blocked}

Targets(plan) ==
  {rule.to : rule \in {r \in UNION {Rules(plan.steps[n]) : n \in DOMAIN plan.steps} :
                         r.action = "go_to"}}

-----------------------------------------------------------------------------
(* validateParallelGroupStep.                                               *)

SerialFields == {"contract", "planned_step", "visible_work_item", "prompt_template"}

GroupFields ==
  {"participation", "label", "executor", "contract_ref", "max_concurrency",
   "required_worker_capabilities", "sealed_output_defaults", "timeout_policy"}

ItemFields == {"label", "input_ref", "variables", "contract_ref", "sealed_output"}

\* Source writers name an exact base commit and the capability; the others no base.
WriterForm(step) ==
  IF step.writer THEN {"source_base_commit", "source_writer"} \subseteq step.given
  ELSE "source_base_commit" \notin step.given

\* The files an item of source writers owns: some, well-formed, and its output is
\* not among them.  The items of the others own none.
OwnershipForm(step, item) ==
  IF step.writer
  THEN item.owns # {} /\ "owned_source_paths" \notin item.wrong /\ item.target \notin item.owns
  ELSE item.owns = {}

ItemForm(step, item) ==
  /\ SafeId(item.id)
  /\ item.wrong \cap ItemFields = {}
  /\ OwnershipForm(step, item)

GroupForm(step) ==
  /\ SafeId(step.group)
  /\ step.wrong \cap GroupFields = {}
  /\ WriterForm(step)
  /\ step.items # <<>>
  /\ \A i \in DOMAIN step.items : ItemForm(step, step.items[i])
  /\ IsInjective([i \in DOMAIN step.items |-> step.items[i].id])
  /\ \A i, j \in DOMAIN step.items :
       i # j => step.items[i].owns \cap step.items[j].owns = {}

\* The sealed outputs declared anywhere in the plan, by group and item.
OutputsDistinct(plan) ==
  LET all == UNION {{<<n, i>> : i \in DOMAIN plan.steps[n].items} : n \in DOMAIN plan.steps}
      target(at) == plan.steps[at[1]].items[at[2]].target
  IN \A a, b \in all : target(a) = target(b) => a = b

-----------------------------------------------------------------------------
(* validateWorkPlan.                                                        *)

StepForm(step) ==
  /\ SafeId(step.id)
  /\ \/ IsSerial(step) /\ step.wrong \cap SerialFields = {}
     \/ IsGroup(step) /\ GroupForm(step)
  /\ \A rule \in {step.on_completed, step.on_blocked} : RuleForm(rule)

StepIds(plan) == {plan.steps[n].id : n \in DOMAIN plan.steps}

GroupsOf(plan) == SelectSeq(plan.steps, IsGroup)

Accepted(plan) ==
  /\ plan.sound
  /\ plan.mode \in {"serial", "mixed"}
  /\ plan.steps # <<>>
  /\ \A n \in DOMAIN plan.steps : StepForm(plan.steps[n])
  /\ IsInjective([n \in DOMAIN plan.steps |-> plan.steps[n].id])
  /\ IsInjective([n \in DOMAIN GroupsOf(plan) |-> GroupsOf(plan)[n].group])
  /\ OutputsDistinct(plan)
  /\ Targets(plan) \subseteq StepIds(plan)
  /\ plan.mode = "serial" => GroupsOf(plan) = <<>>

-----------------------------------------------------------------------------
(* steps.ts and transitions.ts.  A cursor names a step by id and ordinal; 0  *)
(* and NoStep stand for null.                                               *)

StepByOrdinal(plan, n) == IF n \in DOMAIN plan.steps THEN n ELSE 0

\* The first of the steps with this id.
StepById(plan, id) ==
  IF id \notin StepIds(plan) THEN 0
  ELSE CHOOSE n \in DOMAIN plan.steps :
         plan.steps[n].id = id /\ \A k \in 1..(n - 1) : plan.steps[k].id # id

\* resolveCurrentStep: by id, and by ordinal only when there is no id.
CurrentStep(plan, cursor) ==
  IF cursor.id # NoStep THEN StepById(plan, cursor.id)
  ELSE StepByOrdinal(plan, cursor.ordinal)

Cursor(plan, n) == [id |-> plan.steps[n].id, ordinal |-> n]

\* resolveTransition for the step at n and the outcome reported of it: what becomes
\* of the run, and the step it goes to (0 for none).
Transition(plan, n, outcome) ==
  LET step == plan.steps[n]
      rule == IF outcome = "completed" THEN step.on_completed ELSE step.on_blocked
      Goes(to) == [action |-> IF to = 0 THEN "block" ELSE "advance", to |-> to]
  IN CASE rule.action = "go_to" -> Goes(StepById(plan, rule.to))
       [] rule.action = "next" -> Goes(StepByOrdinal(plan, n + 1))
       [] OTHER -> [action |-> rule.action, to |-> 0]
=============================================================================
