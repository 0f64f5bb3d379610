---------------------------- MODULE ParallelGroup ----------------------------
(***************************************************************************)
(* One parallel group in the SQLite store of protocol-runner-api.          *)
(*                                                                         *)
(* The store keeps a row for the group, a row per item, a row per attempt  *)
(* at an item and a row per lease.  Every operation below is one           *)
(* `withWrite` transaction of services/protocol-runner-api/src/store.ts,   *)
(* so it is one action here.  Operations whose guard fails throw and leave *)
(* the database as it was: they are stuttering steps.                      *)
(*                                                                         *)
(* Time is relative: a lease carries the time it has left (`expiresIn`),   *)
(* and expires_at <= now is expiresIn = 0.  A heartbeat renews the lease   *)
(* from the server's clock, so one constant, LeaseTtl, is enough.          *)
(***************************************************************************)
EXTENDS Naturals, Sequences, FiniteSets, Functions

CONSTANTS
  Items,          \* the item ids of the group; the code orders them by id
  Leases,         \* the lease ids (random UUIDs): a grant takes fresh ones
  MaxConcurrency, \* max_concurrency of the work plan
  LeaseTtl,       \* lease_ttl_ms, in ticks
  MaxAttempts,    \* bound: attempts per item an explicit retry may reach
  MaxLead         \* bound: how far observed_at may run ahead of the clock

ASSUME ItemsAssumption == Items \subseteq Nat \ {0} /\ IsFiniteSet(Items)
ASSUME LeasesAssumption == IsFiniteSet(Leases)
ASSUME BoundsAssumption ==
  /\ MaxConcurrency \in Nat \ {0}
  /\ LeaseTtl \in Nat \ {0}
  /\ MaxAttempts \in Nat \ {0}
  /\ MaxLead \in Nat

VARIABLES
  group,      \* status of the group row
  preflight,  \* preflight_status of the group row
  itemStatus, \* status of each item row
  latest,     \* latest_attempt_id of each item row: its number, 0 for NULL
  attempts,   \* the statuses of each item's attempts, by attempt number
  lease,      \* the lease rows
  dirs,       \* the attempt directories that exist on disk
  checks      \* outcome of the preflight checks a request holds, not yet recorded

vars == <<group, preflight, itemStatus, latest, attempts, lease, dirs, checks>>

-----------------------------------------------------------------------------
(* The rows and their statuses.                                            *)

GroupStatus == {"pending", "preflighting", "ready_to_lease", "leasing", "running",
                "paused", "completed", "needs_attention", "stopped", "cancelled"}

PreflightStatus == {"not_run", "passed", "failed"}

ItemStatus == {"pending", "leased", "running", "completed", "blocked",
               "needs_recovery", "cancelled", "stopped"}

\* "failed" stands for the results the store treats alike: failed, timed_out,
\* evidence_missing, output_missing and status_invalid.
ResultStatus == {"completed", "blocked", "failed", "cancelled"}

LiveAttempt == {"leased", "running"}

AttemptStatus == {"created", "stale"} \cup LiveAttempt \cup ResultStatus

LeaseRow == [status    : {"none", "active", "released", "expired", "cancelled"},
             item      : Items \cup {0},
             attempt   : Nat,
             expiresIn : 0 .. LeaseTtl]

NoLease == [status |-> "none", item |-> 0, attempt |-> 0, expiresIn |-> 0]

\* isParallelItemAttentionStatus: the items an operator has to look at.
AttentionItem == {"blocked", "needs_recovery", "cancelled", "stopped"}

\* Mutant: the item takes the attempt's status as it is.
ItemStatusVerbatim(result) == result

ItemStatusForAttempt(result) ==
  CASE result = "completed" -> "completed"
    [] result = "blocked"   -> "blocked"
    [] OTHER                -> "needs_recovery"

Active == {l \in Leases : lease[l].status = "active"}

Expired(l) == lease[l].expiresIn = 0

\* The attempt a lease authorises: its item and its number.
AttemptOf(l) == <<lease[l].item, lease[l].attempt>>

AttemptStatusOf(l) == attempts[lease[l].item][lease[l].attempt]

\* A lease that is no longer active keeps its row, without a deadline.
Ended(row, status) ==
  [status |-> status, item |-> row.item, attempt |-> row.attempt, expiresIn |-> 0]

(* computeParallelGroupStatus: the group's status from the rows it reads,  *)
(* after a result or a recovery.                                           *)
ComputeGroupStatus(status, active) ==
  IF Items # {} /\ \A i \in Items : status[i] = "completed" THEN "completed"
  ELSE IF \E i \in Items : status[i] \in AttentionItem THEN "needs_attention"
  ELSE IF active # {} \/ \E i \in Items : status[i] = "pending" THEN "running"
  ELSE "needs_attention"

Init ==
  /\ group = "pending"
  /\ preflight = "not_run"
  /\ itemStatus = [i \in Items |-> "pending"]
  /\ latest = [i \in Items |-> 0]
  /\ attempts = [i \in Items |-> <<>>]
  /\ lease = [l \in Leases |-> NoLease]
  /\ dirs = {}
  /\ checks = "none"

-----------------------------------------------------------------------------
(* Preflight.  The checks of preflightParallelGroup read the item rows and  *)
(* the file system; the outcome is recorded in a later transaction, which   *)
(* looks at nothing again.  One request is in flight at a time (a bound).   *)

PreflightChecks(outcome) ==
  /\ checks = "none"
  /\ outcome = "passed" => \E i \in Items : itemStatus[i] = "pending"
  /\ checks' = outcome
  /\ UNCHANGED <<group, preflight, itemStatus, latest, attempts, lease, dirs>>

RecordPreflight ==
  /\ checks # "none"
  /\ preflight' = checks
  /\ group' = IF checks = "passed" THEN "ready_to_lease" ELSE "needs_attention"
  /\ checks' = "none"
  /\ UNCHANGED <<itemStatus, latest, attempts, lease, dirs>>

-----------------------------------------------------------------------------
(* grantParallelLeases.  The candidates are the pending items without an    *)
(* active lease whose latest attempt, if any, was never started; the first  *)
(* `available` of them by id get a lease.  An attempt row that was created  *)
(* by a retry or put back by stale recovery is reused.                      *)

NotLeased(i) == \A l \in Active : lease[l].item # i

Startable(i) == latest[i] = 0 \/ attempts[i][latest[i]] = "created"

\* Mutant: an item that is leased but not yet running is offered again.
CandidatesByItemStatus == {i \in Items : itemStatus[i] \in {"pending", "leased"}}

LeaseCandidates ==
  {i \in Items : itemStatus[i] = "pending" /\ NotLeased(i) /\ Startable(i)}

\* Mutant: the leases already active are not counted.
AvailableIgnoringActive(capacity) ==
  IF capacity < MaxConcurrency THEN capacity ELSE MaxConcurrency

AvailableLeases(capacity) ==
  LET free == IF Cardinality(Active) < MaxConcurrency
              THEN MaxConcurrency - Cardinality(Active)
              ELSE 0
  IN  IF capacity < free THEN capacity ELSE free

AttemptToLease(i) == IF latest[i] # 0 THEN latest[i] ELSE Len(attempts[i]) + 1

LeasedAttempts(i) ==
  IF latest[i] # 0 THEN [attempts[i] EXCEPT ![latest[i]] = "leased"]
                   ELSE Append(attempts[i], "leased")

\* `chosen` is the prefix of the candidates, in id order, that fits.
FirstCandidates(chosen, available) ==
  /\ Cardinality(chosen) <= available
  /\ Cardinality(chosen) < available => chosen = LeaseCandidates
  /\ \A i \in chosen, j \in LeaseCandidates \ chosen : i < j

GrantLeases(chosen, fresh) ==
  \E holder \in Bijection(fresh, chosen) :
    /\ lease' = [l \in Leases |->
         IF l \in fresh
         THEN [status |-> "active", item |-> holder[l],
               attempt |-> AttemptToLease(holder[l]), expiresIn |-> LeaseTtl]
         ELSE lease[l]]
    /\ attempts' = [i \in Items |-> IF i \in chosen THEN LeasedAttempts(i) ELSE attempts[i]]
    /\ latest' = [i \in Items |-> IF i \in chosen THEN AttemptToLease(i) ELSE latest[i]]
    /\ itemStatus' = [i \in Items |-> IF i \in chosen THEN "leased" ELSE itemStatus[i]]
    /\ group' = "running"
    /\ UNCHANGED <<preflight, dirs, checks>>

Leaseable == preflight = "passed" /\ group \in {"ready_to_lease", "running", "leasing"}

Grant(capacity) ==
  /\ Leaseable
  /\ \E chosen \in SUBSET LeaseCandidates :
       /\ chosen # {}
       /\ FirstCandidates(chosen, AvailableLeases(capacity))
       /\ \E fresh \in SUBSET {l \in Leases : lease[l].status = "none"} :
            GrantLeases(chosen, fresh)

-----------------------------------------------------------------------------
(* recordParallelHeartbeat: renews an active, unexpired lease, and starts   *)
(* its attempt and its item if they were only leased.  The executor sends   *)
(* no heartbeat_at of its own, so the stored time never moves backward.     *)

\* Mutant: the heartbeat starts the attempt but forgets the item.
HeartbeatForgetsItem(l) ==
  /\ l \in Active /\ ~Expired(l)
  /\ lease' = [lease EXCEPT ![l].expiresIn = LeaseTtl]
  /\ attempts' = [attempts EXCEPT ![lease[l].item][lease[l].attempt] =
                    IF @ = "leased" THEN "running" ELSE @]
  /\ UNCHANGED <<group, preflight, itemStatus, latest, dirs, checks>>

Heartbeat(l) ==
  LET i == lease[l].item
      n == lease[l].attempt
  IN  /\ l \in Active /\ ~Expired(l)
      /\ lease' = [lease EXCEPT ![l].expiresIn = LeaseTtl]
      /\ attempts' = [attempts EXCEPT ![i][n] = IF @ = "leased" THEN "running" ELSE @]
      /\ itemStatus' = [itemStatus EXCEPT ![i] = IF @ = "leased" THEN "running" ELSE @]
      /\ UNCHANGED <<group, preflight, latest, dirs, checks>>

(* recordParallelAttemptResult, called for an executor's result and, with   *)
(* status cancelled, for an operator's cancel-attempt request.              *)

\* Mutant: the row of the lease is left active.
ResultLeavesLease(l, result) ==
  LET i == lease[l].item
      n == lease[l].attempt
  IN  /\ l \in Active /\ ~Expired(l)
      /\ AttemptStatusOf(l) \in LiveAttempt
      /\ attempts' = [attempts EXCEPT ![i][n] = result]
      /\ itemStatus' = [itemStatus EXCEPT ![i] = ItemStatusForAttempt(result)]
      /\ group' = ComputeGroupStatus(itemStatus', Active)
      /\ UNCHANGED <<lease, preflight, latest, dirs, checks>>

RecordResult(l, result) ==
  LET i == lease[l].item
      n == lease[l].attempt
  IN  /\ l \in Active /\ ~Expired(l)
      /\ AttemptStatusOf(l) \in LiveAttempt
      /\ attempts' = [attempts EXCEPT ![i][n] = result]
      /\ lease' = [lease EXCEPT ![l] =
           Ended(@, IF result = "cancelled" THEN "cancelled" ELSE "released")]
      /\ itemStatus' = [itemStatus EXCEPT ![i] = ItemStatusForAttempt(result)]
      /\ group' = ComputeGroupStatus(itemStatus', Active \ {l})
      /\ UNCHANGED <<preflight, latest, dirs, checks>>

-----------------------------------------------------------------------------
(* retryParallelItem: a new attempt for an item that needs attention.  The  *)
(* group becomes leaseable whatever its status was.                         *)

\* Mutant: an item in any status but pending is retried.
RetryCompletedToo(i) ==
  /\ itemStatus[i] \in AttentionItem \cup {"completed"}
  /\ Len(attempts[i]) < MaxAttempts
  /\ attempts' = [attempts EXCEPT ![i] = Append(@, "created")]
  /\ latest' = [latest EXCEPT ![i] = Len(attempts[i]) + 1]
  /\ itemStatus' = [itemStatus EXCEPT ![i] = "pending"]
  /\ group' = "ready_to_lease"
  /\ UNCHANGED <<preflight, lease, dirs, checks>>

Retry(i) ==
  /\ itemStatus[i] \in AttentionItem
  /\ latest[i] # 0 => attempts[i][latest[i]] \notin LiveAttempt
  /\ Len(attempts[i]) < MaxAttempts
  /\ attempts' = [attempts EXCEPT ![i] = Append(@, "created")]
  /\ latest' = [latest EXCEPT ![i] = Len(attempts[i]) + 1]
  /\ itemStatus' = [itemStatus EXCEPT ![i] = "pending"]
  /\ group' = "ready_to_lease"
  /\ UNCHANGED <<preflight, lease, dirs, checks>>

-----------------------------------------------------------------------------
(* recoverStaleParallelLeases.  Leases past the observed time expire.  An   *)
(* attempt whose directory is proven absent never started: it is put back   *)
(* as created.  Any other attempt becomes stale and its item needs recovery.*)

StaleLeases(lead) == {l \in Active : lease[l].expiresIn <= lead}

NeverStarted(l) == AttemptOf(l) \notin dirs

Requeued(l) == NeverStarted(l) /\ AttemptStatusOf(l) \in LiveAttempt

RecoveredAttempt(i, n, stale) ==
  LET of == {l \in stale : AttemptOf(l) = <<i, n>>}
  IN  IF of # {} /\ attempts[i][n] \in LiveAttempt
      THEN IF \E l \in of : Requeued(l) THEN "created" ELSE "stale"
      ELSE attempts[i][n]

\* Mutant: the recovery updates an item that is leased, not one already running.
RecoveredLeasedItem(i, stale) ==
  LET of == {l \in stale : lease[l].item = i}
  IN  IF of # {} /\ itemStatus[i] = "leased"
      THEN IF \E l \in of : Requeued(l) THEN "pending" ELSE "needs_recovery"
      ELSE itemStatus[i]

RecoveredItem(i, stale) ==
  LET of == {l \in stale : lease[l].item = i}
  IN  IF of # {} /\ itemStatus[i] \in {"leased", "running"}
      THEN IF \E l \in of : Requeued(l) THEN "pending" ELSE "needs_recovery"
      ELSE itemStatus[i]

RecoverStale(lead) ==
  LET stale == StaleLeases(lead)
  IN  /\ stale # {}
      /\ lease' = [l \in Leases |-> IF l \in stale THEN Ended(lease[l], "expired") ELSE lease[l]]
      /\ attempts' = [i \in Items |->
           [n \in 1 .. Len(attempts[i]) |-> RecoveredAttempt(i, n, stale)]]
      /\ itemStatus' = [i \in Items |-> RecoveredItem(i, stale)]
      /\ group' = IF group = "paused" THEN "paused"
                  ELSE ComputeGroupStatus(itemStatus', Active \ stale)
      /\ UNCHANGED <<preflight, latest, dirs, checks>>

-----------------------------------------------------------------------------
(* controlParallelGroup.                                                    *)

Pause ==
  /\ group' = "paused"
  /\ UNCHANGED <<preflight, itemStatus, latest, attempts, lease, dirs, checks>>

\* Mutant: the attempts a retry or a recovery left created are not cancelled.
LiveOnly == LiveAttempt

StoppableAttempt == {"created"} \cup LiveAttempt

Stop ==
  /\ lease' = [l \in Leases |-> IF l \in Active THEN Ended(lease[l], "cancelled") ELSE lease[l]]
  /\ attempts' = [i \in Items |->
       [n \in 1 .. Len(attempts[i]) |->
          IF attempts[i][n] \in StoppableAttempt THEN "cancelled" ELSE attempts[i][n]]]
  /\ itemStatus' = [i \in Items |->
       IF itemStatus[i] = "completed" THEN "completed" ELSE "stopped"]
  /\ group' = "stopped"
  /\ UNCHANGED <<preflight, latest, dirs, checks>>

-----------------------------------------------------------------------------
(* What happens around the store.                                           *)

\* The holder of a lease, whatever became of it since, creates the attempt's
\* directory (launchAndSubmit in the executor).
MakeAttemptDir(l) ==
  /\ lease[l].status # "none"
  /\ dirs' = dirs \cup {AttemptOf(l)}
  /\ UNCHANGED <<group, preflight, itemStatus, latest, attempts, lease, checks>>

\* The server's clock moves on.
Tick ==
  /\ lease' = [l \in Leases |->
       IF lease[l].expiresIn > 0 THEN [lease[l] EXCEPT !.expiresIn = @ - 1] ELSE lease[l]]
  /\ UNCHANGED <<group, preflight, itemStatus, latest, attempts, dirs, checks>>

Next ==
  \/ \E outcome \in {"passed", "failed"} : PreflightChecks(outcome)
  \/ RecordPreflight
  \/ \E capacity \in 1 .. MaxConcurrency : Grant(capacity)
  \/ \E l \in Leases : Heartbeat(l)
  \/ \E l \in Leases, result \in ResultStatus : RecordResult(l, result)
  \/ \E i \in Items : Retry(i)
  \/ \E lead \in 0 .. MaxLead : RecoverStale(lead)
  \/ Pause
  \/ Stop
  \/ \E l \in Leases : MakeAttemptDir(l)
  \/ Tick

Spec == Init /\ [][Next]_vars

-----------------------------------------------------------------------------
(* Properties.                                                              *)

\* Every row holds the statuses its column may hold; an item's attempts are
\* numbered without gaps.
TypeOK ==
  /\ group \in GroupStatus
  /\ preflight \in PreflightStatus
  /\ itemStatus \in [Items -> ItemStatus]
  /\ latest \in [Items -> Nat]
  /\ attempts \in [Items -> Seq(AttemptStatus)]
  /\ lease \in [Leases -> LeaseRow]
  /\ dirs \subseteq Items \X Nat
  /\ checks \in {"none", "passed", "failed"}

\* No two workers hold the same item: whatever sequence of grants, expiries,
\* recoveries and retries led here, an item has at most one active lease.
OneHolder ==
  \A l, m \in Active : lease[l].item = lease[m].item => l = m

\* max_concurrency is never exceeded, although each grant counts the active
\* leases afresh and recovery puts items back while others are still held.
ConcurrencyRespected == Cardinality(Active) <= MaxConcurrency

\* An active lease is for the item's newest attempt, and the three rows agree
\* that it is being worked on: the result and the heartbeat of the holder are
\* never refused for a row that some other operation moved on.
LeaseOwnsAttempt ==
  \A l \in Active :
    LET i == lease[l].item
    IN  /\ i \in Items
        /\ lease[l].attempt = latest[i]
        /\ latest[i] = Len(attempts[i])
        /\ AttemptStatusOf(l) \in LiveAttempt
        /\ itemStatus[i] = AttemptStatusOf(l)

\* An item or an attempt that is leased or running has an active lease.  An
\* orphan would be stuck: recovery starts from active leases, and neither a
\* grant nor a retry accepts its status.
NoOrphans ==
  \A i \in Items :
    /\ itemStatus[i] \in {"leased", "running"} => \E l \in Active : lease[l].item = i
    /\ \A n \in 1 .. Len(attempts[i]) :
         attempts[i][n] \in LiveAttempt => \E l \in Active : AttemptOf(l) = <<i, n>>

\* A pending item can be leased: the candidate query never passes it over for
\* a leftover attempt or lease, so a pending item is not lost to the group.
PendingIsLeaseable == \A i \in Items : itemStatus[i] = "pending" => i \in LeaseCandidates

\* A group reported completed has every item completed, and a stopped group has
\* nothing left to lease and nobody working, until somebody retries an item.
GroupStatusHonest ==
  /\ group = "completed" => \A i \in Items : itemStatus[i] = "completed"
  /\ group = "stopped" =>
       /\ Active = {}
       /\ \A i \in Items :
            /\ itemStatus[i] \in {"completed", "stopped"}
            /\ \A n \in 1 .. Len(attempts[i]) : attempts[i][n] \notin {"created"} \cup LiveAttempt

\* "Completed sibling items remain complete", and an attempt that reached an
\* outcome remains evidence of it (docs/architecture.md, identities): no step
\* rewrites a finished attempt, reopens a completed item or drops an attempt.
Finished(i, n) == attempts[i][n] \notin {"created"} \cup LiveAttempt

KeepsEvidence ==
  \A i \in Items :
    /\ itemStatus[i] = "completed" => itemStatus'[i] = "completed"
    /\ Len(attempts'[i]) >= Len(attempts[i])
    /\ \A n \in 1 .. Len(attempts[i]) : Finished(i, n) => attempts'[i][n] = attempts[i][n]

EvidencePreserved == [][KeepsEvidence]_vars
=============================================================================
