------------------------------ MODULE WorkLedger ------------------------------
(***************************************************************************)
(* What a parallel group promises about its items, without leases, rows,   *)
(* clocks or preflight: an item is open, held, completed or in need of     *)
(* attention; what was learnt about it is only ever added to; a completed  *)
(* item is final; only an operator reopens an item that needs attention.   *)
(*                                                                         *)
(* This is the abstract specification.  ParallelGroupLedger states that    *)
(* the SQLite store implements it.                                         *)
(***************************************************************************)
EXTENDS Naturals, Sequences, FiniteSets

CONSTANTS
  Items,   \* the items of the ledger
  Limit,   \* how many may be held at once
  Outcome  \* what may be recorded about an item, "completed" among it

VARIABLES
  work,     \* where each item stands
  evidence  \* the outcomes recorded for each item, in order

vars == <<work, evidence>>

Work == {"open", "held", "completed", "attention"}

Held == {i \in Items : work[i] = "held"}

Init ==
  /\ work = [i \in Items |-> "open"]
  /\ evidence = [i \in Items |-> <<>>]

\* Some open items are given to holders, never beyond the limit.
Take ==
  \E taken \in SUBSET {i \in Items : work[i] = "open"} :
    /\ taken # {}
    /\ Cardinality(Held \cup taken) <= Limit
    /\ work' = [i \in Items |-> IF i \in taken THEN "held" ELSE work[i]]
    /\ UNCHANGED evidence

\* A held item is put back, as if it had never been taken.
PutBack(i) ==
  /\ work'[i] = "open"
  /\ evidence'[i] = evidence[i]

\* A held item ends with one outcome.
End(i, outcome) ==
  /\ work'[i] = IF outcome = "completed" THEN "completed" ELSE "attention"
  /\ evidence'[i] = Append(evidence[i], outcome)

\* Some holders let go at once; the other items are untouched.
LetGo ==
  \E gone \in SUBSET Held :
    /\ gone # {}
    /\ work' \in [Items -> Work]
    /\ DOMAIN evidence' = Items
    /\ \A i \in gone : PutBack(i) \/ \E outcome \in Outcome : End(i, outcome)
    /\ \A i \in Items \ gone : work'[i] = work[i] /\ evidence'[i] = evidence[i]

\* An operator asks for another attempt.
Reopen(i) ==
  /\ work[i] = "attention"
  /\ work' = [work EXCEPT ![i] = "open"]
  /\ UNCHANGED evidence

\* An operator stops everything: what is not completed needs attention, and
\* what was under way, or waiting for another attempt, may be marked so.
Abandon ==
  /\ work' = [i \in Items |-> IF work[i] = "completed" THEN "completed" ELSE "attention"]
  /\ DOMAIN evidence' = Items
  /\ \A i \in Items :
       \/ evidence'[i] = evidence[i]
       \/ work[i] \in {"open", "held"} /\ evidence'[i] = Append(evidence[i], "cancelled")

Next ==
  \/ Take
  \/ LetGo
  \/ \E i \in Items : Reopen(i)
  \/ Abandon

Spec == Init /\ [][Next]_vars
=============================================================================
