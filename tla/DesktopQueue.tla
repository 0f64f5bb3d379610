----------------------------- MODULE DesktopQueue -----------------------------
(***************************************************************************)
(* The queue in front of the visible Codex Desktop window                  *)
(* (services/codex-desktop-api/src/desktop-action-queue.ts).               *)
(*                                                                         *)
(* Every request that touches the window waits in `pending` behind a gate  *)
(* that gives the person at the workstation time to object.  When the      *)
(* countdown ends, or the operator allows it, everything pending becomes   *)
(* one snapshot, whose actions run one after the other; what arrives       *)
(* meanwhile waits for a gate of its own.                                  *)
(***************************************************************************)
EXTENDS Naturals, Sequences, FiniteSets

CONSTANTS
  Actions,   \* the actions that may be asked for, numbered in that order
  Countdown  \* whether auto_allow_ms is positive

ASSUME QueueAssumption == Actions \subseteq Nat \ {0} /\ IsFiniteSet(Actions) /\ Countdown \in BOOLEAN

VARIABLES
  gate,     \* gate_status
  pending,  \* the actions that wait for the gate
  snapshot, \* the actions released together that have not ended; the first one runs
  asked,    \* history: the actions in the order they were enqueued
  ended     \* history: the actions in the order they ended

queueVars == <<gate, pending, snapshot, asked, ended>>

GateStatus == {"idle", "countdown", "held", "executing"}

QueueInit ==
  /\ gate = "idle"
  /\ pending = <<>> /\ snapshot = <<>>
  /\ asked = <<>> /\ ended = <<>>

\* releaseSnapshot: its first action starts at once.
Release(waiting) ==
  /\ gate' = "executing"
  /\ snapshot' = waiting
  /\ pending' = <<>>

\* ensureGate, for an idle gate before which `waiting` is pending.
EnsureGate(waiting) ==
  IF waiting # <<>> /\ ~Countdown THEN Release(waiting)
  ELSE /\ gate' = IF waiting = <<>> THEN "idle" ELSE "countdown"
       /\ pending' = waiting
       /\ snapshot' = <<>>

Enqueue(a) ==
  /\ asked' = Append(asked, a)
  /\ IF gate = "idle"
     THEN EnsureGate(Append(pending, a))
     ELSE pending' = Append(pending, a) /\ UNCHANGED <<gate, snapshot>>
  /\ UNCHANGED ended

\* The timer fires, or the operator allows: the timer only runs in a countdown.
CountdownEnds ==
  /\ gate = "countdown"
  /\ Release(pending)
  /\ UNCHANGED <<asked, ended>>

AllowNow ==
  /\ gate \in {"countdown", "held"}
  /\ Release(pending)
  /\ UNCHANGED <<asked, ended>>

\* While a snapshot executes, wait() changes nothing.
Wait ==
  /\ gate = "countdown"
  /\ gate' = "held"
  /\ UNCHANGED <<pending, snapshot, asked, ended>>

\* Mutant: the gate goes idle and nobody looks at what arrived meanwhile.
EndAndIdle(a) ==
  /\ snapshot # <<>> /\ Head(snapshot) = a
  /\ ended' = Append(ended, a)
  /\ snapshot' = Tail(snapshot)
  /\ gate' = IF Tail(snapshot) = <<>> THEN "idle" ELSE gate
  /\ UNCHANGED <<pending, asked>>

\* An action ends, well or with an error.  The last one of a snapshot closes
\* the gate, which opens again at once for what arrived meanwhile.
End(a) ==
  /\ snapshot # <<>> /\ Head(snapshot) = a
  /\ ended' = Append(ended, a)
  /\ IF Tail(snapshot) = <<>>
     THEN EnsureGate(pending)
     ELSE snapshot' = Tail(snapshot) /\ UNCHANGED <<gate, pending>>
  /\ UNCHANGED asked

\* Every action asked for is executed once, in the order of the requests, or is
\* still on its way; it never waits before a gate that nobody will open; and
\* nothing runs, or is about to, while the operator holds the gate.
QueueSound ==
  /\ gate \in GateStatus
  /\ ended \o snapshot \o pending = asked
  /\ gate = "idle" => pending = <<>> /\ snapshot = <<>>
  /\ gate \in {"countdown", "held"} => pending # <<>> /\ snapshot = <<>>
  /\ gate = "executing" <=> snapshot # <<>>
=============================================================================
