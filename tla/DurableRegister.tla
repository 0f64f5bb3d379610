---------------------------- MODULE DurableRegister ----------------------------
(***************************************************************************)
(* What the relay's state store promises its callers: each mutation takes  *)
(* effect at most once, at one instant between its request and its answer, *)
(* and survives every crash once it has.  A mutation answered ok has taken *)
(* effect; one answered with an error, or never answered because the       *)
(* process died, may or may not have.                                      *)
(***************************************************************************)
EXTENDS Naturals, Sequences, FiniteSets

CONSTANT Ops  \* the mutations callers request

VARIABLES
  log,    \* the mutations that took effect, in order
  answer  \* what the caller of each mutation knows

vars == <<log, answer>>

Answers == {"new", "pending", "ok", "unchanged", "failed", "lost"}

InEffect(o) == \E k \in 1 .. Len(log) : log[k] = o

Init ==
  /\ log = <<>>
  /\ answer = [o \in Ops |-> "new"]

Ask(o) ==
  /\ answer[o] = "new"
  /\ answer' = [answer EXCEPT ![o] = "pending"]
  /\ UNCHANGED log

TakeEffect(o) ==
  /\ answer[o] = "pending" /\ ~InEffect(o)
  /\ log' = Append(log, o)
  /\ UNCHANGED answer

\* ok is said of a mutation in effect, unchanged of one that has nothing to do.
Reply(o, said) ==
  /\ answer[o] = "pending"
  /\ said = "ok" => InEffect(o)
  /\ said = "unchanged" => ~InEffect(o)
  /\ answer' = [answer EXCEPT ![o] = said]
  /\ UNCHANGED log

Crash ==
  /\ answer' = [o \in Ops |-> IF answer[o] = "pending" THEN "lost" ELSE answer[o]]
  /\ UNCHANGED log

Next ==
  \/ \E o \in Ops : Ask(o) \/ TakeEffect(o)
  \/ \E o \in Ops, said \in {"ok", "unchanged", "failed"} : Reply(o, said)
  \/ Crash

Spec == Init /\ [][Next]_vars
=============================================================================
