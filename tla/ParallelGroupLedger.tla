------------------------- MODULE ParallelGroupLedger -------------------------
(***************************************************************************)
(* The store's rows seen as a WorkLedger: the status of an item row is     *)
(* read as where the item stands, and its attempts, but for the newest     *)
(* while it is still created, leased or running, as the evidence.          *)
(***************************************************************************)
EXTENDS ParallelGroup

LedgerWork(status) ==
  CASE status = "pending"             -> "open"
    [] status \in {"leased", "running"} -> "held"
    [] status = "completed"           -> "completed"
    [] OTHER                          -> "attention"

LedgerEvidence(tried) ==
  IF tried # <<>> /\ tried[Len(tried)] \in StoppableAttempt
  THEN SubSeq(tried, 1, Len(tried) - 1)
  ELSE tried

Ledger == INSTANCE WorkLedger WITH
  Limit    <- MaxConcurrency,
  Outcome  <- ResultStatus \cup {"stale"},
  work     <- [i \in Items |-> LedgerWork(itemStatus[i])],
  evidence <- [i \in Items |-> LedgerEvidence(attempts[i])]

\* The store implements the ledger: whatever leases, expiries, recoveries,
\* retries and stops do to the group, item and attempt rows, each transaction
\* is one step of the ledger.  In particular several items recovered at once
\* end or go back one by one with exactly one outcome each, no row is settled
\* twice for one hold, and only a retry reopens an item.
ImplementsLedger == Ledger!Spec
=============================================================================
