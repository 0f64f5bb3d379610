---------------------------- MODULE RunControlProofs ----------------------------
(***************************************************************************)
(* Proofs about RunControl, for any work plan, any rules and any number of *)
(* requests in flight.                                                     *)
(***************************************************************************)
EXTENDS RunControl, FiniteSetTheorems, TLAPS

-----------------------------------------------------------------------------
(* Numbers of attempts.                                                      *)

\* The largest number of a set that has one is in the set.
LEMMA MaxInSet ==
  ASSUME NEW S, IsFiniteSet(S), S \subseteq Nat, S # {}
  PROVE  Max(S) \in S
<1> DEFINE above(x) == {y \in S : x <= y}
           tails == {above(x) : x \in S}
<1>1. tails \subseteq FiniteSubsetsOf(S) /\ tails # {}
  <2>1. \A x \in S : above(x) \in SUBSET S
    OBVIOUS
  <2>2. \A x \in S : IsFiniteSet(above(x))
    BY <2>1, FS_Subset
  <2>3. QED BY <2>1, <2>2 DEF FiniteSubsetsOf
<1>2. PICK least \in tails : \A t \in tails : <<t, least>> \notin StrictSubsetOrdering(S)
  BY <1>1, FS_StrictSubsetOrderingWellFounded, WFMin
<1>3. PICK x \in S : least = above(x)
  OBVIOUS
<1>4. ASSUME NEW y \in S, ~ (x >= y) PROVE FALSE
  <2>1. above(y) \in tails
    OBVIOUS
  <2>2. x \in above(x) /\ x \notin above(y) /\ above(y) \subseteq above(x)
    <3>1. S \subseteq Nat /\ x \in Nat /\ y \in Nat /\ x < y
      BY <1>4
    <3>2. \A z \in Nat : y <= z => x <= z
      BY <3>1
    <3>3. x \in above(x)
      BY <3>1
    <3>4. x \notin above(y)
      BY <3>1
    <3>5. above(y) \subseteq above(x)
      BY <3>1, <3>2
    <3>6. QED BY <3>3, <3>4, <3>5
  <2>3. <<above(y), above(x)>> \in StrictSubsetOrdering(S)
    BY <2>2 DEF StrictSubsetOrdering
  <2>4. QED BY <1>2, <1>3, <2>1, <2>3
<1>5. QED BY <1>4 DEF Max

LEMMA PromptParts ==
  /\ \A p \in Prompts : p[1] \in Steps /\ p[2] \in 1 .. MaxAttempts[p[1]] /\ p = <<p[1], p[2]>>
  /\ \A s \in Steps, n \in Nat : n \in 1 .. MaxAttempts[s] => <<s, n>> \in Prompts
  /\ NoPrompt \notin Prompts
BY DEF Prompts, NoPrompt, Steps

\* The number a return is taken for is one of an attempt at the step.
LEMMA NewestAttempt ==
  ASSUME TypeOK, NEW step \in Steps, NextAttempt(step) # 1
  PROVE  <<step, NextAttempt(step) - 1>> \in Prompts
<1>1. AttemptsOf(step) \subseteq 1 .. MaxAttempts[step]
  BY PromptParts DEF AttemptsOf, TypeOK
<1>2. MaxAttempts[step] \in Nat
  BY PlanAssumption
<1>3. AttemptsOf(step) # {} /\ NextAttempt(step) = Max(AttemptsOf(step)) + 1
  BY DEF NextAttempt
<1>4. IsFiniteSet(AttemptsOf(step))
  <2>1. IsFiniteSet(1 .. MaxAttempts[step])
    BY <1>2, FS_Interval
  <2>2. QED BY <1>1, <2>1, FS_Subset
<1>5. Max(AttemptsOf(step)) \in AttemptsOf(step)
  BY <1>1, <1>2, <1>3, <1>4, MaxInSet
<1>6. NextAttempt(step) - 1 = Max(AttemptsOf(step)) /\ Max(AttemptsOf(step)) \in 1 .. MaxAttempts[step]
  BY <1>1, <1>3, <1>5
<1>7. QED BY <1>6, PromptParts

-----------------------------------------------------------------------------
(* The invariant.  None of the three properties is inductive: a request      *)
(* writes back a state that it loaded any time ago, so every state in        *)
(* flight must be as well supported by the files as the stored one; the      *)
(* prompt that is about to be sent must be nobody else's, which the flag wx  *)
(* of its file sees to.                                                      *)

Evidenced(state) ==
  /\ state.step # 1 => \E r \in reports : LeadsTo(r, "ready", state.step)
  /\ state.status = "completed" => \E r \in reports : LeadsTo(r, "completed", state.step)

Founded(state) ==
  /\ state.pending # NoPrompt => sends[state.pending] = 1 /\ state.pending \in prompts
  /\ state.status = "waiting_for_start_report" => state.pending # NoPrompt
  /\ state.status = "waiting_for_completion_report" => \E p \in starts : p[1] = state.step

Supported(state) == Evidenced(state) /\ Founded(state)

HasPrompt(local) ==
  \/ local.pc \in {"snapshot", "prompt", "send", "answer", "start_file", "report_file"}
  \/ local.pc = "write" /\ local.then = "snapshot"

\* What a request in flight may rely on.
Sound(local) ==
  /\ HasPrompt(local) => local.prompt \in Prompts
  /\ local.pc = "send" => sends[local.prompt] = 0
  /\ local.pc = "answer" => sends[local.prompt] = 1
  /\ local.pc = "start_file" =>
       local.state.pending = local.prompt /\ local.prompt[1] = local.state.step
  /\ local.pc = "report_file" =>
       local.report # "invalid" /\ local.prompt[1] = local.state.step
  /\ exists => /\ Supported(local.state)
               /\ local.pc \in {"send", "answer"} => local.prompt \in prompts

Clash(local, other) ==
  local.pc = "send" /\ other.pc = "send" /\ local.prompt = other.prompt

SendsOnce ==
  /\ \A p \in Prompts : sends[p] <= 1 /\ (exists /\ sends[p] > 0 => p \in prompts)
  /\ \A g, h \in Handlers : Clash(handler[g], handler[h]) => g = h

RunInv ==
  /\ TypeOK
  /\ \A h \in Handlers : Sound(handler[h])
  /\ Supported(run)
  /\ SendsOnce

LEMMA FirstStateSound ==
  /\ FirstState \in RunState
  /\ Idle \in HandlerState
  /\ Supported(FirstState)
  /\ Sound(Idle)
BY PlanAssumption, PromptParts
   DEF FirstState, Idle, RunState, RunStatus, HandlerState, Verdict, Steps, Supported, Evidenced,
       Founded, Sound, HasPrompt

LEMMA InitRun == Init => RunInv
<1> SUFFICES ASSUME Init PROVE RunInv
  OBVIOUS
<1>1. TypeOK
  BY FirstStateSound DEF Init, TypeOK
<1>2. SendsOnce
  BY <1>1 DEF Init, SendsOnce, Clash, Idle
<1>3. QED BY <1>1, <1>2, FirstStateSound DEF Init, RunInv

-----------------------------------------------------------------------------
(* Files are added, none goes and nothing is sent: what was supported is.    *)

FilesGrow ==
  /\ exists' = exists /\ sends' = sends
  /\ snapshots \subseteq snapshots' /\ snapshots' \subseteq Steps
  /\ prompts \subseteq prompts' /\ prompts' \subseteq Prompts
  /\ starts \subseteq starts' /\ starts' \subseteq Prompts
  /\ reports \subseteq reports' /\ reports' \subseteq [prompt : Prompts, verdict : Verdict \ {"invalid"}]

LEMMA SupportKept ==
  ASSUME FilesGrow, NEW state, Supported(state)
  PROVE  Supported(state)'
BY DEF FilesGrow, Supported, Evidenced, Founded, LeadsTo

LEMMA SoundKept ==
  ASSUME FilesGrow, NEW local, Sound(local)
  PROVE  Sound(local)'
BY SupportKept DEF FilesGrow, Sound, HasPrompt

LEMMA SameFiles == ASSUME TypeOK, UNCHANGED <<exists, files, sends>> PROVE FilesGrow
BY DEF TypeOK, FilesGrow, files

\* A request goes on, and the others stay where they are.
LEMMA RequestGoes ==
  ASSUME RunInv, FilesGrow, NEW h \in Handlers, NEW local \in HandlerState,
         Goes(h, local), Sound(local)',
         run' \in RunState, Supported(run)',
         \A g \in Handlers \ {h} : ~Clash(handler[g], local)
  PROVE  RunInv'
<1>1. /\ handler' \in [Handlers -> HandlerState]
      /\ handler'[h] = local
      /\ \A g \in Handlers \ {h} : handler'[g] = handler[g]
  BY DEF Goes, RunInv, TypeOK
<1>2. TypeOK'
  BY <1>1 DEF FilesGrow, RunInv, TypeOK
<1>3. \A g \in Handlers : Sound(handler[g])'
  <2> SUFFICES ASSUME NEW g \in Handlers PROVE Sound(handler[g])'
    OBVIOUS
  <2>1. CASE g = h
    BY <1>1, <2>1 DEF Sound, HasPrompt, Supported, Evidenced, Founded
  <2>2. CASE g # h
    <3>1. PICK other : other = handler[g]
      OBVIOUS
    <3>2. Sound(other)'
      BY <3>1, SoundKept DEF RunInv
    <3>3. handler'[g] = other
      BY <1>1, <2>2, <3>1
    <3>4. QED BY <3>2, <3>3 DEF Sound, HasPrompt, Supported, Evidenced, Founded
  <2>3. QED BY <2>1, <2>2
<1>4. SendsOnce'
  <2>1. \A p \in Prompts : sends'[p] <= 1 /\ (exists' /\ sends'[p] > 0 => p \in prompts')
    BY DEF FilesGrow, RunInv, SendsOnce
  <2>2. \A g, k \in Handlers : Clash(handler'[g], handler'[k]) => g = k
    BY <1>1 DEF RunInv, SendsOnce, Clash
  <2>3. QED BY <2>1, <2>2 DEF SendsOnce, Clash
<1>5. QED BY <1>2, <1>3, <1>4 DEF RunInv

\* As most do, to a place where they do not hold a prompt to be sent, and leaving
\* the stored state alone.
LEMMA RequestSteps ==
  ASSUME RunInv, FilesGrow, run' = run, NEW h \in Handlers, NEW local \in HandlerState,
         Goes(h, local), Sound(local)', local.pc # "send"
  PROVE  RunInv'
<1>1. PICK state : state = run
  OBVIOUS
<1>2. Supported(state)' /\ run' = state /\ run \in RunState
  BY <1>1, SupportKept DEF RunInv, TypeOK
<1>3. Supported(run)'
  BY <1>2 DEF Supported, Evidenced, Founded
<1>4. QED BY <1>2, <1>3, RequestGoes DEF Clash

LEMMA RequestEnds ==
  ASSUME RunInv, FilesGrow, run' = run, NEW h \in Handlers, Ends(h)
  PROVE  RunInv'
<1>1. Sound(Idle)'
  BY FirstStateSound, SoundKept
<1>2. QED BY <1>1, FirstStateSound, RequestSteps DEF Ends, Idle

\* A request goes on to write a state that is supported.
LEMMA RequestWrites ==
  ASSUME RunInv, FilesGrow, run' = run, NEW h \in Handlers, NEW state \in RunState,
         NEW local \in HandlerState, NEW then \in {"idle", "snapshot", "cleanup", "delete"},
         Goes(h, ToWrite(local, state, then)),
         then = "snapshot" => local.prompt \in Prompts,
         exists => Supported(state)'
  PROVE  RunInv'
<1>1. PICK to : to = ToWrite(local, state, then)
  OBVIOUS
<1>2. /\ to \in HandlerState /\ to.pc = "write" /\ to.state = state /\ to.then = then
      /\ to.prompt = local.prompt
  BY <1>1 DEF ToWrite, HandlerState
<1>3. Sound(to)'
  BY <1>2 DEF Sound, HasPrompt, FilesGrow
<1>4. QED BY <1>1, <1>2, <1>3, RequestSteps

-----------------------------------------------------------------------------
(* The states the requests write.                                            *)

\* A state whose status is changed, for one that asks for nothing.
LEMMA StatusPatched ==
  ASSUME NEW state \in RunState, Supported(state),
         NEW status \in RunStatus \ {"completed", "waiting_for_start_report",
                                     "waiting_for_completion_report"}
  PROVE  LET patched == [state EXCEPT !.status = status]
         IN  patched \in RunState /\ Supported(patched)
BY DEF RunState, Supported, Evidenced, Founded

LEMMA StatusOnly ==
  ASSUME NEW state \in RunState, Supported(state),
         NEW status \in RunStatus \ {"completed", "waiting_for_start_report",
                                     "waiting_for_completion_report"}
  PROVE  LET patched == [state EXCEPT !.status = status, !.pending = NoPrompt]
         IN  patched \in RunState /\ Supported(patched)
BY DEF RunState, Supported, Evidenced, Founded

LEMMA BlockedSupported ==
  ASSUME NEW state \in RunState, Supported(state)
  PROVE  Blocked(state) \in RunState /\ Supported(Blocked(state))
BY StatusOnly DEF Blocked, RunStatus

LEMMA AtTyped ==
  ASSUME NEW state \in RunState, NEW status \in {"paused", "completed", "ready"},
         NEW step \in Steps
  PROVE  /\ At(state, status, step) \in RunState
         /\ At(state, status, step).pending = NoPrompt
         /\ At(state, status, step).status = status
         /\ At(state, status, step).step = step
BY DEF At, RunState, RunStatus

LEMMA BlockedTyped ==
  ASSUME NEW state \in RunState
  PROVE  /\ Blocked(state) \in RunState
         /\ Blocked(state).pending = NoPrompt
         /\ Blocked(state).status = "blocked"
         /\ Blocked(state).step = state.step
BY DEF Blocked, RunState, RunStatus

\* What a rule makes of a state depends on its step alone.
LEMMA RuleFollowed ==
  ASSUME NEW state \in RunState, NEW first \in RunState, first.step = state.step,
         NEW rule \in Rules
  PROVE  /\ AfterRule(state, rule) \in RunState
         /\ AfterRule(state, rule).pending = NoPrompt
         /\ AfterRule(state, rule).status \in {"paused", "completed", "ready", "blocked"}
         /\ AfterRule(state, rule).status # "ready"
              => AfterRule(state, rule).step = state.step
         /\ AfterRule(first, rule).status = AfterRule(state, rule).status
         /\ AfterRule(first, rule).step = AfterRule(state, rule).step
<1>1. StepCount \in Nat \ {0} /\ state.step \in Steps
  BY PlanAssumption DEF RunState
<1>2. CASE rule.action = "pause"
  <2>1. /\ AfterRule(state, rule) = At(state, "paused", state.step)
        /\ AfterRule(first, rule) = At(first, "paused", state.step)
    BY <1>2 DEF AfterRule
  <2>2. QED BY <1>1, <2>1, AtTyped
<1>3. CASE rule.action = "stop"
  <2>1. /\ AfterRule(state, rule) = At(state, "completed", state.step)
        /\ AfterRule(first, rule) = At(first, "completed", state.step)
    BY <1>3 DEF AfterRule
  <2>2. QED BY <1>1, <2>1, AtTyped
<1>4. CASE rule.action = "go_to"
  <2>1. rule.step \in Steps
    BY <1>4 DEF Rules
  <2>2. /\ AfterRule(state, rule) = At(state, "ready", rule.step)
        /\ AfterRule(first, rule) = At(first, "ready", rule.step)
    BY <1>4 DEF AfterRule
  <2>3. QED BY <2>1, <2>2, AtTyped
<1>5. CASE rule.action = "next" /\ state.step < StepCount
  <2>1. state.step + 1 \in Steps
    BY <1>1, <1>5 DEF Steps
  <2>2. /\ AfterRule(state, rule) = At(state, "ready", state.step + 1)
        /\ AfterRule(first, rule) = At(first, "ready", state.step + 1)
    BY <1>5 DEF AfterRule
  <2>3. QED BY <2>1, <2>2, AtTyped
<1>6. CASE ~(rule.action \in {"pause", "stop", "go_to"}
               \/ (rule.action = "next" /\ state.step < StepCount))
  <2>1. AfterRule(state, rule) = Blocked(state) /\ AfterRule(first, rule) = Blocked(first)
    BY <1>6 DEF AfterRule
  <2>2. QED BY <2>1, BlockedTyped
<1>7. QED BY <1>2, <1>3, <1>4, <1>5, <1>6

\* The state after an accepted report rests on that report, once it is on disk.
LEMMA TransitionSupported ==
  ASSUME NEW state \in RunState, NEW r \in reports', r.prompt[1] = state.step,
         r.verdict \in {"completed", "blocked", "other_step"},
         Evidenced(state)'
  PROVE  /\ Transition(state, r.verdict) \in RunState
         /\ Supported(Transition(state, r.verdict))'
<1> DEFINE after == Transition(state, r.verdict)
           rule == RuleFor(state.step, r.verdict)
<1>1. CASE r.verdict = "other_step"
  <2>1. after = Blocked(state)
    BY <1>1 DEF Transition
  <2>2. QED BY <2>1, BlockedTyped DEF Supported, Evidenced, Founded
<1>2. CASE r.verdict # "other_step"
  <2>1. rule \in Rules /\ after = AfterRule(state, rule)
    BY <1>2, PlanAssumption DEF RuleFor, Transition, RunState
  <2>2. PICK first : first = [FirstState EXCEPT !.step = state.step]
    OBVIOUS
  <2>3. first \in RunState /\ first.step = state.step
    BY <2>2, FirstStateSound DEF RunState
  <2>4. /\ after \in RunState /\ after.pending = NoPrompt
        /\ after.status \in {"paused", "completed", "ready", "blocked"}
        /\ after.status # "ready" => after.step = state.step
        /\ AfterRule(first, rule).status = after.status
        /\ AfterRule(first, rule).step = after.step
    <3> HIDE DEF rule, after
    <3>1. QED BY <2>1, <2>3, RuleFollowed
  <2>5. LeadsTo(r, after.status, after.step)
    BY <1>2, <2>2, <2>4 DEF LeadsTo
  <2> HIDE DEF after
  <2>6. Founded(after)'
    BY <2>4 DEF Founded
  <2>7. Evidenced(after)'
    <3>1. CASE after.status = "ready"
      BY <2>5, <3>1 DEF Evidenced
    <3>2. CASE after.status # "ready"
      BY <2>4, <2>5, <3>2 DEF Evidenced
    <3>3. QED BY <3>1, <3>2
  <2>8. QED BY <2>4, <2>6, <2>7 DEF Supported, after
<1>3. QED BY <1>1, <1>2

-----------------------------------------------------------------------------
(* The requests, step by step.                                               *)

LEMMA RequestPatches ==
  ASSUME RunInv, UNCHANGED <<run, exists, files, sends>>, NEW h \in Handlers,
         NEW state \in RunState, NEW local \in HandlerState, NEW then \in {"idle", "cleanup", "delete"},
         Goes(h, ToWrite(local, state, then)), exists => Supported(state)
  PROVE  RunInv'
<1>1. FilesGrow
  BY SameFiles DEF RunInv
<1>2. exists => Supported(state)'
  BY <1>1, SupportKept
<1>3. QED BY <1>1, <1>2, RequestWrites

\* A step to a place that holds what the request held.
LEMMA RequestMoves ==
  ASSUME RunInv, UNCHANGED <<run, exists, files, sends>>, NEW h \in Handlers,
         NEW local \in HandlerState, Goes(h, local), local.pc # "send", Sound(local)
  PROVE  RunInv'
<1>1. FilesGrow
  BY SameFiles DEF RunInv
<1>2. Sound(local)'
  BY <1>1, SoundKept
<1>3. QED BY <1>1, <1>2, RequestSteps

LEMMA PatchSteps ==
  ASSUME RunInv, NEW h \in Handlers,
         BindRun(h) \/ SetAutomation(h) \/ PauseRun(h) \/ FailRun(h) \/ CloseRun(h)
  PROVE  RunInv'
<1>1. run \in RunState /\ Supported(run) /\ Idle \in HandlerState
  BY FirstStateSound DEF RunInv, TypeOK
<1>2. UNCHANGED <<run, exists, files, sends>>
  BY DEF BindRun, SetAutomation, PauseRun, FailRun, CloseRun, Request
<1>3. CASE BindRun(h)
  <2>1. PICK state : state = [run EXCEPT !.status = IF run.status = "draft" THEN "bound" ELSE run.status,
                                          !.bound = TRUE]
    OBVIOUS
  <2>2. state \in RunState /\ Supported(state)
    BY <1>1, <2>1 DEF RunState, RunStatus, Supported, Evidenced, Founded
  <2>3. Goes(h, ToWrite(Idle, state, "idle"))
    BY <1>1, <1>3, <2>1 DEF BindRun, Request, RunState
  <2>4. QED BY <1>1, <1>2, <2>2, <2>3, RequestPatches
<1>4. CASE SetAutomation(h)
  <2>1. PICK state : state = [run EXCEPT !.pickup = ~run.pickup]
    OBVIOUS
  <2>2. state \in RunState /\ Supported(state)
    BY <1>1, <2>1 DEF RunState, Supported, Evidenced, Founded
  <2>3. Goes(h, ToWrite(Idle, state, "idle"))
    BY <1>1, <1>4, <2>1 DEF SetAutomation, Request, RunState
  <2>4. QED BY <1>1, <1>2, <2>2, <2>3, RequestPatches
<1>5. ASSUME NEW status \in {"paused", "failed", "closed"}, NEW then \in {"idle", "cleanup"},
             Goes(h, ToWrite(Idle, [run EXCEPT !.status = status], then))
      PROVE  RunInv'
  <2>1. PICK state : state = [run EXCEPT !.status = status]
    OBVIOUS
  <2>2. state \in RunState /\ Supported(state)
    BY <1>1, <2>1, StatusPatched DEF RunStatus
  <2>3. QED BY <1>1, <1>2, <1>5, <2>1, <2>2, RequestPatches
<1>6. QED
  BY <1>3, <1>4, <1>5 DEF PauseRun, FailRun, CloseRun, Request

\* A request that keeps the state it has just loaded.
LEMMA LoadSteps ==
  ASSUME RunInv, NEW h \in Handlers,
         LoadToSend(h) \/ \E verdict \in StatusVerdicts : AcceptReturn(h, verdict)
  PROVE  RunInv'
<1>1. run \in RunState /\ Supported(run) /\ Idle \in HandlerState
  BY FirstStateSound DEF RunInv, TypeOK
<1>2. UNCHANGED <<run, exists, files, sends>>
  BY DEF LoadToSend, AcceptReturn
<1>3. CASE LoadToSend(h)
  <2>1. PICK local : local = [Idle EXCEPT !.pc = "prepare", !.state = run]
    OBVIOUS
  <2>2. local \in HandlerState /\ local.pc = "prepare" /\ local.state = run
    BY <1>1, <2>1 DEF HandlerState
  <2>3. Sound(local)
    BY <1>1, <2>2 DEF Sound, HasPrompt
  <2>4. QED BY <1>2, <1>3, <2>1, <2>2, <2>3, RequestMoves DEF LoadToSend
<1>4. ASSUME NEW verdict \in StatusVerdicts, AcceptReturn(h, verdict)
      PROVE  RunInv'
  <2>1. PICK local : local = [Idle EXCEPT !.pc = "number", !.state = run, !.report = verdict]
    OBVIOUS
  <2>2. verdict \in Verdict
    BY DEF StatusVerdicts, VerdictOf, Verdict, ParsesStatus
  <2>3. local \in HandlerState /\ local.pc = "number" /\ local.state = run
    BY <1>1, <2>1, <2>2 DEF HandlerState
  <2>4. Sound(local)
    BY <1>1, <2>3 DEF Sound, HasPrompt
  <2>5. QED BY <1>2, <1>4, <2>1, <2>3, <2>4, RequestMoves DEF AcceptReturn
<1>5. QED BY <1>3, <1>4

LEMMA StartStep ==
  ASSUME RunInv, NEW h \in Handlers, NEW p \in StartedPrompts, AcceptStartReport(h, p)
  PROVE  RunInv'
<1>1. run \in RunState /\ Supported(run) /\ Idle \in HandlerState
  BY FirstStateSound DEF RunInv, TypeOK
<1>2. UNCHANGED <<run, exists, files, sends>>
  BY DEF AcceptStartReport
<1>3. CASE ~ReportMatches(run, p)
  <2>1. PICK state : state = Blocked(run)
    OBVIOUS
  <2>2. state \in RunState /\ Supported(state)
    BY <1>1, <2>1, BlockedSupported
  <2>3. QED BY <1>1, <1>2, <1>3, <2>1, <2>2, RequestPatches DEF AcceptStartReport
<1>4. CASE ReportMatches(run, p)
  <2>1. run.pending = p /\ p \in Prompts /\ p[1] = run.step
    BY <1>1, <1>4, PlanAssumption DEF ReportMatches, RunState, NoPrompt, Steps
  <2>2. PICK local : local = [Idle EXCEPT !.pc = "start_file", !.state = run, !.prompt = p]
    OBVIOUS
  <2>3. /\ local \in HandlerState /\ local.pc = "start_file" /\ local.state = run
        /\ local.prompt = p
    BY <1>1, <2>1, <2>2 DEF HandlerState
  <2>4. Sound(local)
    BY <1>1, <2>1, <2>3 DEF Sound, HasPrompt
  <2>5. QED BY <1>2, <1>4, <2>2, <2>3, <2>4, RequestMoves DEF AcceptStartReport
<1>5. QED BY <1>3, <1>4

\* The state written is one that was supported when it was loaded, and is.
LEMMA WriteStep ==
  ASSUME RunInv, NEW h \in Handlers, WriteState(h)
  PROVE  RunInv'
<1>1. handler[h] \in HandlerState /\ Sound(handler[h]) /\ run \in RunState /\ Supported(run)
  BY DEF RunInv, TypeOK
<1>2. FilesGrow
  BY SameFiles DEF RunInv, WriteState
<1>3. run' \in RunState /\ Supported(run)'
  <2>1. PICK state \in RunState : state = Stored(handler[h].state)
    BY <1>1 DEF Stored, HandlerState
  <2>2. Supported(state)
    BY <1>1, <2>1 DEF Stored, Sound
  <2>3. Supported(state)' /\ run' = state
    BY <1>2, <2>1, <2>2, SupportKept DEF WriteState
  <2>4. QED BY <2>1, <2>3 DEF Supported, Evidenced, Founded
<1>4. PICK local \in HandlerState : /\ Goes(h, local)
                                    /\ local.pc # "send"
                                    /\ Sound(local)
  <2>1. CASE exists /\ handler[h].then # "idle"
    <3>1. PICK local : local = [Idle EXCEPT !.pc = handler[h].then, !.prompt = handler[h].prompt]
      OBVIOUS
    <3>2. /\ local \in HandlerState /\ local.pc = handler[h].then /\ local.state = FirstState
          /\ local.prompt = handler[h].prompt /\ local.pc \in {"snapshot", "cleanup", "delete"}
      BY <1>1, <2>1, <3>1, FirstStateSound DEF HandlerState, Idle
    <3>3. Sound(local)
      BY <1>1, <3>2, FirstStateSound DEF Sound, HasPrompt, WriteState
    <3>4. QED BY <2>1, <3>1, <3>2, <3>3 DEF WriteState
  <2>2. CASE ~(exists /\ handler[h].then # "idle")
    BY <2>2, FirstStateSound DEF WriteState, Ends, Idle
  <2>3. QED BY <2>1, <2>2
<1>5. Sound(local)'
  BY <1>2, <1>4, SoundKept
<1>6. QED BY <1>2, <1>3, <1>4, <1>5, RequestGoes DEF Clash

LEMMA PrepareStep ==
  ASSUME RunInv, NEW h \in Handlers, NEW contractsOk \in BOOLEAN, Prepare(h, contractsOk)
  PROVE  RunInv'
<1> DEFINE me == handler[h]
<1>1. me \in HandlerState /\ me.state \in RunState /\ Idle \in HandlerState
      /\ (exists => Supported(me.state))
  BY FirstStateSound DEF RunInv, TypeOK, Sound, HandlerState
<1>2. UNCHANGED <<run, exists, files, sends>> /\ FilesGrow
  BY SameFiles DEF Prepare, RunInv
<1>3. CASE ~exists
  BY <1>2, <1>3, RequestEnds DEF Prepare
<1>4. CASE exists /\ ~contractsOk
  <2>1. PICK state : state = Blocked(me.state)
    OBVIOUS
  <2>2. state \in RunState /\ Supported(state)
    BY <1>1, <1>4, <2>1, BlockedSupported
  <2>3. QED BY <1>1, <1>2, <1>4, <2>1, <2>2, RequestPatches DEF Prepare
<1>5. CASE exists /\ contractsOk
  <2>1. PICK p \in Prompts : p = <<me.state.step, NextAttempt(me.state.step)>>
    BY <1>5 DEF Prepare
  <2>2. PICK state : state = [me.state EXCEPT !.status = "dispatching_prompt", !.pending = NoPrompt]
    OBVIOUS
  <2>3. state \in RunState /\ Supported(state)
    BY <1>1, <1>5, <2>2, StatusOnly DEF RunStatus
  <2>4. PICK local : local = [me EXCEPT !.prompt = p]
    OBVIOUS
  <2>5. local \in HandlerState /\ local.prompt = p
    BY <1>1, <2>4 DEF HandlerState
  <2>6. Goes(h, ToWrite(local, state, "snapshot"))
    BY <1>5, <2>1, <2>2, <2>4 DEF Prepare
  <2>7. Supported(state)'
    BY <1>2, <2>3, SupportKept
  <2>8. QED BY <1>2, <2>3, <2>5, <2>6, <2>7, RequestWrites
<1>6. QED BY <1>3, <1>4, <1>5

LEMMA SnapshotStep ==
  ASSUME RunInv, NEW h \in Handlers, WriteSnapshot(h)
  PROVE  RunInv'
<1> DEFINE me == handler[h]
<1>1. me \in HandlerState /\ Sound(me) /\ me.pc = "snapshot" /\ me.prompt \in Prompts
  BY DEF RunInv, TypeOK, Sound, HasPrompt, WriteSnapshot
<1>2. FilesGrow /\ run' = run
  <2>1. me.prompt[1] \in Steps
    BY <1>1, PromptParts
  <2>2. QED BY <2>1 DEF WriteSnapshot, FilesGrow, RunInv, TypeOK
<1>3. CASE Ends(h)
  BY <1>2, <1>3, RequestEnds
<1>4. CASE Goes(h, [me EXCEPT !.pc = "prompt"])
  <2>1. PICK local : local = [me EXCEPT !.pc = "prompt"]
    OBVIOUS
  <2>2. local \in HandlerState /\ local.pc = "prompt" /\ local.state = me.state /\ local.prompt = me.prompt
    BY <1>1, <2>1 DEF HandlerState
  <2>3. Sound(local)
    BY <1>1, <2>2 DEF Sound, HasPrompt
  <2>4. Sound(local)'
    BY <1>2, <2>3, SoundKept
  <2>5. QED BY <1>2, <1>4, <2>1, <2>2, <2>4, RequestSteps
<1>5. QED BY <1>3, <1>4 DEF WriteSnapshot

\* The flag wx: whoever writes the file of a prompt attempt is the first, and
\* nobody has sent it, or is about to.
LEMMA PromptStep ==
  ASSUME RunInv, NEW h \in Handlers, WritePrompt(h)
  PROVE  RunInv'
<1> DEFINE me == handler[h]
<1>1. me \in HandlerState /\ Sound(me) /\ me.pc = "prompt" /\ me.prompt \in Prompts
  BY DEF RunInv, TypeOK, Sound, HasPrompt, WritePrompt
<1>2. FilesGrow /\ run' = run
  BY <1>1 DEF WritePrompt, FilesGrow, RunInv, TypeOK
<1>3. CASE ~exists \/ me.prompt \in prompts
  BY <1>2, <1>3, RequestEnds DEF WritePrompt
<1>4. CASE exists /\ me.prompt \notin prompts
  <2>1. PICK local : local = [me EXCEPT !.pc = "send"]
    OBVIOUS
  <2>2. local \in HandlerState /\ local.pc = "send" /\ local.state = me.state /\ local.prompt = me.prompt
    BY <1>1, <2>1 DEF HandlerState
  <2>3. sends[me.prompt] = 0
    BY <1>1, <1>4 DEF RunInv, SendsOnce, TypeOK
  <2>4. me.prompt \in prompts'
    BY <1>4 DEF WritePrompt
  <2>5. PICK state : state = me.state
    OBVIOUS
  <2>6. Supported(state)'
    BY <1>1, <1>2, <1>4, <2>5, SupportKept DEF Sound
  <2>7. Sound(local)'
    <3>1. local.state = state /\ local.prompt \in Prompts /\ sends'[local.prompt] = 0 /\ local.prompt \in prompts'
      BY <1>1, <1>2, <2>2, <2>3, <2>4, <2>5 DEF FilesGrow
    <3>2. QED BY <2>2, <2>6, <3>1 DEF Sound, HasPrompt
  <2>8. \A g \in Handlers \ {h} : ~Clash(handler[g], local)
    BY <1>4, <2>2 DEF RunInv, Sound, Clash
  <2>9. run' \in RunState /\ Supported(run)'
    <3>1. PICK stored : stored = run
      OBVIOUS
    <3>2. Supported(stored)' /\ run' = stored /\ run \in RunState
      BY <1>2, <3>1, SupportKept DEF RunInv, TypeOK
    <3>3. QED BY <3>1, <3>2 DEF Supported, Evidenced, Founded
  <2>10. Goes(h, local)
    BY <1>4, <2>1 DEF WritePrompt
  <2>11. QED BY <1>2, <2>2, <2>7, <2>8, <2>9, <2>10, RequestGoes
<1>5. QED BY <1>3, <1>4

\* The only step that sends: what anybody waits for was sent before.
LEMMA SendStep ==
  ASSUME RunInv, NEW h \in Handlers, SendPrompt(h)
  PROVE  RunInv'
<1> DEFINE me == handler[h]
           p == handler[h].prompt
<1>1. me \in HandlerState /\ Sound(me) /\ me.pc = "send" /\ p \in Prompts /\ sends[p] = 0
  BY DEF RunInv, TypeOK, Sound, HasPrompt, SendPrompt
<1>2. UNCHANGED <<run, exists, files>> /\ sends' = [sends EXCEPT ![p] = 1]
  BY <1>1 DEF SendPrompt
<1>3. /\ sends' \in [Prompts -> Nat] /\ sends'[p] = 1
      /\ \A q \in Prompts \ {p} : sends'[q] = sends[q]
  BY <1>1, <1>2 DEF RunInv, TypeOK
<1>4. PICK local : local = [me EXCEPT !.pc = "answer"]
  OBVIOUS
<1>5. /\ local \in HandlerState /\ local.pc = "answer" /\ local.state = me.state
      /\ local.prompt = p
  BY <1>1, <1>4 DEF HandlerState
<1>6. /\ handler' = [handler EXCEPT ![h] = local]
      /\ handler'[h] = local
      /\ \A g \in Handlers \ {h} : handler'[g] = handler[g]
  BY <1>4 DEF SendPrompt, Goes, RunInv, TypeOK
<1>7. TypeOK'
  BY <1>2, <1>3, <1>5, <1>6 DEF RunInv, TypeOK, files
<1>8. ASSUME NEW state \in RunState, Supported(state) PROVE Supported(state)'
  <2>1. Evidenced(state)'
    BY <1>2, <1>8 DEF Supported, Evidenced, LeadsTo, files
  <2>2. state.pending # NoPrompt => sends'[state.pending] = 1
    BY <1>1, <1>3, <1>8 DEF Supported, Founded, RunState
  <2>3. Founded(state)'
    BY <1>2, <1>8, <2>2 DEF Supported, Founded, files
  <2>4. QED BY <2>1, <2>3 DEF Supported
<1>9. Supported(run)'
  <2>1. PICK stored \in RunState : stored = run
    BY DEF RunInv, TypeOK
  <2>2. Supported(stored)' /\ run' = stored
    BY <1>2, <1>8, <2>1 DEF RunInv
  <2>3. QED BY <2>2 DEF Supported, Evidenced, Founded
<1>10. ASSUME NEW g \in Handlers PROVE Sound(handler[g])'
  <2>1. PICK other \in HandlerState : other = handler[g]
    BY DEF RunInv, TypeOK
  <2>2. PICK state \in RunState : state = other.state
    BY DEF HandlerState
  <2>3. Sound(other) /\ (exists => Supported(state)')
    BY <1>8, <2>1, <2>2 DEF RunInv, Sound
  <2>4. CASE g = h
    <3>1. handler'[g] = local /\ local.state = state
      BY <1>5, <1>6, <2>1, <2>2, <2>4
    <3>2. p \in prompts \/ ~exists
      BY <1>1 DEF Sound
    <3>3. Sound(local)'
      BY <1>1, <1>2, <1>3, <1>5, <2>3, <3>1, <3>2 DEF Sound, HasPrompt, files
    <3>4. QED BY <3>1, <3>3 DEF Sound, HasPrompt, Supported, Evidenced, Founded
  <2>5. CASE g # h
    <3>1. handler'[g] = other
      BY <1>6, <2>1, <2>5
    <3>2. other.pc = "send" => other.prompt # p
      BY <1>1, <2>1, <2>5 DEF RunInv, SendsOnce, Clash
    <3>3. other.pc \in {"send", "answer"} => sends'[other.prompt] = sends[other.prompt]
      BY <1>1, <1>3, <2>3, <3>2 DEF Sound, HasPrompt
    <3>4. Sound(other)'
      BY <1>2, <2>2, <2>3, <3>3 DEF Sound, HasPrompt, files
    <3>5. QED BY <3>1, <3>4 DEF Sound, HasPrompt, Supported, Evidenced, Founded
  <2>6. QED BY <2>4, <2>5
<1>11. SendsOnce'
  <2>1. \A q \in Prompts : sends'[q] <= 1 /\ (exists' /\ sends'[q] > 0 => q \in prompts')
    BY <1>1, <1>2, <1>3 DEF RunInv, SendsOnce, Sound, files
  <2>2. \A g, k \in Handlers : Clash(handler'[g], handler'[k]) => g = k
    BY <1>5, <1>6 DEF RunInv, SendsOnce, Clash
  <2>3. QED BY <2>1, <2>2 DEF SendsOnce, Clash
<1>12. QED BY <1>7, <1>9, <1>10, <1>11 DEF RunInv

LEMMA AnswerStep ==
  ASSUME RunInv, NEW h \in Handlers, NEW send_status, SendAnswered(h, send_status)
  PROVE  RunInv'
<1> DEFINE me == handler[h]
<1>1. me \in HandlerState /\ Sound(me) /\ me.pc = "answer" /\ me.prompt \in Prompts
      /\ sends[me.prompt] = 1 /\ run \in RunState /\ Supported(run) /\ Idle \in HandlerState
  BY FirstStateSound DEF RunInv, TypeOK, Sound, HasPrompt, SendAnswered
<1>2. UNCHANGED <<run, exists, files, sends>> /\ FilesGrow
  BY SameFiles DEF SendAnswered, RunInv
<1>3. CASE Ends(h)
  BY <1>2, <1>3, RequestEnds
<1>4. CASE exists /\ Goes(h, ToWrite(Idle, Blocked(run), "idle"))
  <2>1. PICK state : state = Blocked(run)
    OBVIOUS
  <2>2. state \in RunState /\ Supported(state)
    BY <1>1, <2>1, BlockedSupported
  <2>3. QED BY <1>1, <1>2, <1>4, <2>1, <2>2, RequestPatches
<1>5. CASE exists /\ Goes(h, ToWrite(Idle, Waiting(run, me.prompt), "idle"))
  <2>1. PICK state : state = Waiting(run, me.prompt)
    OBVIOUS
  <2>2. /\ state \in RunState /\ state.step = run.step /\ state.pending = me.prompt
        /\ state.status = "waiting_for_start_report"
    BY <1>1, <2>1 DEF Waiting, RunState, RunStatus
  <2>3. Supported(state)
    BY <1>1, <1>5, <2>2, PromptParts DEF Supported, Evidenced, Founded, Sound
  <2>4. QED BY <1>1, <1>2, <1>5, <2>1, <2>2, <2>3, RequestPatches
<1>6. QED BY <1>3, <1>4, <1>5 DEF SendAnswered

LEMMA StartFileStep ==
  ASSUME RunInv, NEW h \in Handlers, WriteStartReport(h)
  PROVE  RunInv'
<1> DEFINE me == handler[h]
<1>1. me \in HandlerState /\ Sound(me) /\ me.pc = "start_file" /\ Idle \in HandlerState
  BY FirstStateSound DEF RunInv, TypeOK, WriteStartReport
<1>2. StartFile(me.state) = me.prompt /\ me.prompt \in Prompts /\ me.prompt[1] = me.state.step
  BY <1>1, PromptParts DEF Sound, HasPrompt, StartFile
<1>3. FilesGrow /\ run' = run
  BY <1>2 DEF WriteStartReport, FilesGrow, RunInv, TypeOK
<1>4. CASE ~exists \/ StartFile(me.state) \in starts
  BY <1>3, <1>4, RequestEnds DEF WriteStartReport
<1>5. CASE exists /\ StartFile(me.state) \notin starts
  <2>1. PICK loaded \in RunState : loaded = me.state
    BY <1>1 DEF HandlerState
  <2>2. PICK state : state = Started(loaded)
    OBVIOUS
  <2>3. /\ state \in RunState /\ state.step = loaded.step /\ state.pending = NoPrompt
        /\ state.status = "waiting_for_completion_report"
    BY <2>2 DEF Started, RunState, RunStatus
  <2>4. Supported(loaded)'
    BY <1>1, <1>3, <1>5, <2>1, SupportKept DEF Sound
  <2>5. \E p \in starts' : p[1] = loaded.step
    BY <1>2, <1>5, <2>1 DEF WriteStartReport
  <2>6. Supported(state)'
    BY <2>3, <2>4, <2>5 DEF Supported, Evidenced, Founded
  <2>7. Goes(h, ToWrite(Idle, state, "idle"))
    BY <1>5, <2>1, <2>2 DEF WriteStartReport
  <2>8. QED BY <1>1, <1>3, <2>3, <2>6, <2>7, RequestWrites
<1>6. QED BY <1>4, <1>5

LEMMA NumberStep ==
  ASSUME RunInv, NEW h \in Handlers, NumberReturn(h)
  PROVE  RunInv'
<1> DEFINE me == handler[h]
           step == handler[h].state.step
<1>1. me \in HandlerState /\ Sound(me) /\ me.state \in RunState /\ step \in Steps
      /\ Idle \in HandlerState
  BY FirstStateSound DEF RunInv, TypeOK, HandlerState, RunState
<1>2. UNCHANGED <<run, exists, files, sends>> /\ FilesGrow
  BY SameFiles DEF NumberReturn, RunInv
<1>3. CASE Ends(h)
  BY <1>2, <1>3, RequestEnds
<1>4. CASE exists /\ Goes(h, ToWrite(Idle, Blocked(me.state), "idle"))
  <2>1. PICK state : state = Blocked(me.state)
    OBVIOUS
  <2>2. state \in RunState /\ Supported(state)
    BY <1>1, <1>4, <2>1, BlockedSupported DEF Sound
  <2>3. QED BY <1>1, <1>2, <1>4, <2>1, <2>2, RequestPatches
<1>5. CASE /\ exists /\ NextAttempt(step) # 1 /\ me.report # "invalid"
           /\ Goes(h, [me EXCEPT !.pc = "report_file", !.prompt = <<step, NextAttempt(step) - 1>>])
  <2>1. PICK p : p = <<step, NextAttempt(step) - 1>>
    OBVIOUS
  <2>2. p \in Prompts /\ p[1] = step
    BY <1>1, <1>5, <2>1, NewestAttempt DEF RunInv
  <2>3. PICK local : local = [me EXCEPT !.pc = "report_file", !.prompt = p]
    OBVIOUS
  <2>4. /\ local \in HandlerState /\ local.pc = "report_file" /\ local.state = me.state
        /\ local.prompt = p /\ local.report = me.report
    BY <1>1, <2>2, <2>3 DEF HandlerState
  <2>5. Sound(local)
    BY <1>1, <1>5, <2>2, <2>4 DEF Sound, HasPrompt
  <2>6. QED BY <1>2, <1>5, <2>1, <2>3, <2>4, <2>5, RequestMoves
<1>6. QED BY <1>3, <1>4, <1>5 DEF NumberReturn

LEMMA ReportStep ==
  ASSUME RunInv, NEW h \in Handlers, WriteReport(h)
  PROVE  RunInv'
<1> DEFINE me == handler[h]
<1>1. me \in HandlerState /\ Sound(me) /\ me.pc = "report_file" /\ Idle \in HandlerState
  BY FirstStateSound DEF RunInv, TypeOK, WriteReport
<1>2. /\ me.prompt \in Prompts /\ me.prompt[1] = me.state.step
      /\ me.report \in {"completed", "blocked", "other_step"}
  BY <1>1 DEF Sound, HasPrompt, HandlerState, Verdict
<1>3. PICK r : r = [prompt |-> me.prompt, verdict |-> me.report]
  OBVIOUS
<1>4. r \in [prompt : Prompts, verdict : Verdict \ {"invalid"}] /\ r.prompt = me.prompt /\ r.verdict = me.report
  BY <1>2, <1>3 DEF Verdict
<1>5. FilesGrow /\ run' = run
  BY <1>3, <1>4 DEF WriteReport, FilesGrow, RunInv, TypeOK
<1>6. CASE ~exists \/ \E q \in reports : q.prompt = me.prompt
  BY <1>5, <1>6, RequestEnds DEF WriteReport
<1>7. CASE exists /\ ~ \E q \in reports : q.prompt = me.prompt
  <2>1. PICK loaded \in RunState : loaded = me.state
    BY <1>1 DEF HandlerState
  <2>2. PICK state : state = Transition(loaded, r.verdict)
    OBVIOUS
  <2>3. Supported(loaded)'
    BY <1>1, <1>5, <1>7, <2>1, SupportKept DEF Sound
  <2>4. r \in reports'
    BY <1>3, <1>7 DEF WriteReport
  <2>5. state \in RunState /\ Supported(state)'
    BY <1>2, <1>4, <2>1, <2>2, <2>3, <2>4, TransitionSupported DEF Supported
  <2>6. Goes(h, ToWrite(Idle, state, "idle"))
    BY <1>4, <1>7, <2>1, <2>2 DEF WriteReport
  <2>7. QED BY <1>1, <1>5, <2>5, <2>6, RequestWrites
<1>8. QED BY <1>6, <1>7

LEMMA CleanUpStep ==
  ASSUME RunInv, NEW h \in Handlers, CleanUpRelay(h)
  PROVE  RunInv'
<1> DEFINE me == handler[h]
<1>1. me \in HandlerState /\ Sound(me) /\ run \in RunState /\ Supported(run) /\ me.pc = "cleanup"
  BY DEF RunInv, TypeOK, CleanUpRelay
<1>2. UNCHANGED <<run, exists, files, sends>> /\ FilesGrow
  BY SameFiles DEF CleanUpRelay, RunInv
<1>3. CASE Ends(h)
  BY <1>2, <1>3, RequestEnds
<1>4. CASE Goes(h, ToWrite(me, run, "delete"))
  <2>1. PICK state : state = run
    OBVIOUS
  <2>2. PICK local : local = me
    OBVIOUS
  <2>3. QED BY <1>1, <1>2, <1>4, <2>1, <2>2, RequestPatches
<1>5. CASE Goes(h, [me EXCEPT !.pc = "delete"])
  <2>1. PICK local : local = [me EXCEPT !.pc = "delete"]
    OBVIOUS
  <2>2. local \in HandlerState /\ local.pc = "delete" /\ local.state = me.state
    BY <1>1, <2>1 DEF HandlerState
  <2>3. Sound(local)
    BY <1>1, <2>2 DEF Sound, HasPrompt
  <2>4. QED BY <1>2, <1>5, <2>1, <2>2, <2>3, RequestMoves
<1>6. QED BY <1>3, <1>4, <1>5 DEF CleanUpRelay

\* After the deletion nothing is left to support, and nothing is sent twice.
LEMMA DeleteStep ==
  ASSUME RunInv, NEW h \in Handlers, DeleteRun(h)
  PROVE  RunInv'
<1>1. /\ handler' \in [Handlers -> HandlerState]
      /\ handler'[h] = Idle
      /\ \A g \in Handlers \ {h} : handler'[g] = handler[g]
  BY FirstStateSound DEF DeleteRun, Ends, Goes, RunInv, TypeOK
<1>2. TypeOK'
  BY <1>1, FirstStateSound DEF DeleteRun, RunInv, TypeOK
<1>3. \A g \in Handlers : Sound(handler[g])'
  BY <1>1 DEF DeleteRun, RunInv, Sound, HasPrompt, Idle
<1>4. Supported(run)'
  BY DEF DeleteRun, Supported, Evidenced, Founded, FirstState
<1>5. SendsOnce'
  <2>1. \A p \in Prompts : sends'[p] <= 1 /\ ~exists'
    BY DEF DeleteRun, RunInv, SendsOnce
  <2>2. \A g, k \in Handlers : Clash(handler'[g], handler'[k]) => g = k
    BY <1>1 DEF RunInv, SendsOnce, Clash, Idle
  <2>3. QED BY <2>1, <2>2 DEF SendsOnce, Clash
<1>6. QED BY <1>2, <1>3, <1>4, <1>5 DEF RunInv

LEMMA RestartStep ==
  ASSUME RunInv, Restart
  PROVE  RunInv'
<1>1. UNCHANGED <<run, exists, files, sends>> /\ FilesGrow
  BY SameFiles DEF Restart, RunInv
<1>2. \A h \in Handlers : handler'[h] = Idle
  BY DEF Restart
<1>3. TypeOK'
  BY <1>1, FirstStateSound DEF Restart, RunInv, TypeOK, files
<1>4. Sound(Idle)'
  BY <1>1, FirstStateSound, SoundKept
<1>5. \A h \in Handlers : Sound(handler[h])'
  BY <1>2, <1>4 DEF Sound, HasPrompt, Supported, Evidenced, Founded
<1>6. Supported(run)' /\ SendsOnce'
  BY <1>1, <1>2
     DEF RunInv, Supported, Evidenced, Founded, LeadsTo, SendsOnce, Clash, Idle, files
<1>7. QED BY <1>3, <1>5, <1>6 DEF RunInv

LEMMA StepRun == RunInv /\ [Next]_vars => RunInv'
<1> SUFFICES ASSUME RunInv, [Next]_vars PROVE RunInv'
  OBVIOUS
<1>1. ASSUME NEW h \in Handlers, Arrives(h)
      PROVE  RunInv'
  <2>1. CASE \E p \in {q \in StartedPrompts : q = NoPrompt \/ sends[q] > 0} : AcceptStartReport(h, p)
    BY <2>1, StartStep
  <2>2. QED BY <1>1, <2>1, PatchSteps, LoadSteps DEF Arrives
<1>2. ASSUME NEW h \in Handlers, Advances(h)
      PROVE  RunInv'
  BY <1>2, WriteStep, PrepareStep, SnapshotStep, PromptStep, SendStep, AnswerStep, StartFileStep,
     NumberStep, ReportStep, CleanUpStep, DeleteStep
     DEF Advances
<1>3. CASE UNCHANGED vars
  BY <1>3 DEF vars, files, RunInv, TypeOK, Sound, HasPrompt, Supported, Evidenced, Founded, LeadsTo,
              SendsOnce, Clash
<1>4. QED BY <1>1, <1>2, <1>3, RestartStep DEF Next

LEMMA RunAlways == Spec => []RunInv
BY InitRun, StepRun, PTL DEF Spec

-----------------------------------------------------------------------------
(* The theorems.                                                             *)

\* A prompt attempt is handed to the Desktop at most once, whatever requests to
\* start, resume and retry run side by side, and wherever the service stopped.
THEOREM SentOnceAlways == Spec => []SentOnce
<1>1. RunInv => SentOnce
  BY DEF RunInv, SendsOnce, SentOnce
<1>2. QED BY <1>1, RunAlways, PTL

\* The cursor never runs ahead of the evidence, though every request writes the
\* whole state back that it loaded before it waited.
THEOREM CursorHasEvidenceAlways == Spec => []CursorHasEvidence
<1>1. RunInv => CursorHasEvidence
  BY DEF RunInv, Supported, Evidenced, CursorHasEvidence
<1>2. QED BY <1>1, RunAlways, PTL

\* The run waits only for what can come.
THEOREM WaitingIsFoundedAlways == Spec => []WaitingIsFounded
<1>1. RunInv => WaitingIsFounded
  BY DEF RunInv, Supported, Founded, WaitingIsFounded
<1>2. QED BY <1>1, RunAlways, PTL
=============================================================================
