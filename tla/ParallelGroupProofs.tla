------------------------- MODULE ParallelGroupProofs -------------------------
(***************************************************************************)
(* Proofs about ParallelGroup, for every set of items and leases, every    *)
(* concurrency limit and every lease time: the rows' invariant GroupInv    *)
(* and the properties that follow from it, and that the store implements   *)
(* WorkLedger.                                                             *)
(***************************************************************************)
EXTENDS ParallelGroupLedger, TLAPS, FiniteSetTheorems, SequenceTheorems

\* Every lease row in use names an item of the group: with it the types of
\* the rows are preserved by every step.
RowsInGroup == \A l \in Leases : lease[l].status # "none" => lease[l].item \in Items

TypeInv == TypeOK /\ RowsInGroup

-----------------------------------------------------------------------------
(* Lemmas about the operators the actions are built from.                  *)

LEMMA ComputedStatus ==
  ASSUME NEW status, NEW active
  PROVE  /\ ComputeGroupStatus(status, active) \in {"completed", "needs_attention", "running"}
         /\ ComputeGroupStatus(status, active) = "completed"
              => \A i \in Items : status[i] = "completed"
BY DEF ComputeGroupStatus

LEMMA ItemStatusTyped ==
  ASSUME NEW result \in ResultStatus
  PROVE  /\ ItemStatusForAttempt(result) \in ItemStatus
         /\ ItemStatusForAttempt(result) \in {"completed"} \cup AttentionItem
BY DEF ResultStatus, ItemStatusForAttempt, ItemStatus, AttentionItem

LEMMA EndedTyped ==
  ASSUME NEW row \in LeaseRow, NEW status \in {"released", "expired", "cancelled"}
  PROVE  /\ Ended(row, status) \in LeaseRow
         /\ Ended(row, status).status = status
         /\ Ended(row, status).item = row.item
         /\ Ended(row, status).attempt = row.attempt
BY BoundsAssumption DEF Ended, LeaseRow

\* Writing one attempt of one item leaves the attempts well typed.
LEMMA AttemptsExcept ==
  ASSUME NEW table \in [Items -> Seq(AttemptStatus)], NEW i, NEW n, NEW status \in AttemptStatus
  PROVE  [table EXCEPT ![i][n] = status] \in [Items -> Seq(AttemptStatus)]
<1>1. CASE i \in Items
  <2>1. table[i] \in Seq(AttemptStatus)
    BY <1>1
  <2>2. [table[i] EXCEPT ![n] = status] \in Seq(AttemptStatus)
    <3>1. CASE n \in 1 .. Len(table[i])
      BY <2>1, <3>1, ExceptSeq
    <3>2. CASE n \notin 1 .. Len(table[i])
      <4>1. [table[i] EXCEPT ![n] = status] = table[i]
        BY <2>1, <3>2
      <4>2. QED BY <2>1, <4>1
    <3>3. QED BY <3>1, <3>2
  <2>3. QED BY <1>1, <2>2
<1>2. CASE i \notin Items
  BY <1>2
<1>3. QED BY <1>1, <1>2

-----------------------------------------------------------------------------
(* The types.                                                              *)

LEMMA InitTypes == Init => TypeInv
BY BoundsAssumption
   DEF Init, TypeInv, TypeOK, RowsInGroup, GroupStatus, PreflightStatus, ItemStatus, NoLease, LeaseRow

LEMMA GrantTypes ==
  ASSUME TypeInv, NEW capacity \in 1 .. MaxConcurrency, Grant(capacity)
  PROVE  TypeInv'
<1>1. PICK chosen \in SUBSET LeaseCandidates, fresh \in SUBSET Leases : GrantLeases(chosen, fresh)
  BY DEF Grant
<1>2. PICK holder \in Bijection(fresh, chosen) :
        /\ lease' = [l \in Leases |->
             IF l \in fresh
             THEN [status |-> "active", item |-> holder[l],
                   attempt |-> AttemptToLease(holder[l]), expiresIn |-> LeaseTtl]
             ELSE lease[l]]
        /\ attempts' = [i \in Items |-> IF i \in chosen THEN LeasedAttempts(i) ELSE attempts[i]]
        /\ latest' = [i \in Items |-> IF i \in chosen THEN AttemptToLease(i) ELSE latest[i]]
        /\ itemStatus' = [i \in Items |-> IF i \in chosen THEN "leased" ELSE itemStatus[i]]
        /\ group' = "running"
        /\ UNCHANGED <<preflight, dirs, checks>>
  BY <1>1 DEF GrantLeases
<1>3. chosen \subseteq Items /\ \A l \in fresh : holder[l] \in Items
  BY <1>1 DEF LeaseCandidates, Bijection, Injection, Surjection
<1>4. \A i \in Items : AttemptToLease(i) \in Nat
  BY DEF AttemptToLease, TypeInv, TypeOK
<1>5. \A i \in Items : LeasedAttempts(i) \in Seq(AttemptStatus)
  <2>1. SUFFICES ASSUME NEW i \in Items PROVE LeasedAttempts(i) \in Seq(AttemptStatus)
    OBVIOUS
  <2>2. attempts[i] \in Seq(AttemptStatus) /\ "leased" \in AttemptStatus
    BY DEF TypeInv, TypeOK, AttemptStatus, LiveAttempt
  <2>3. Append(attempts[i], "leased") \in Seq(AttemptStatus)
    BY <2>2, AppendProperties
  <2>4. [attempts[i] EXCEPT ![latest[i]] = "leased"] \in Seq(AttemptStatus)
    <3>1. CASE latest[i] \in 1 .. Len(attempts[i])
      BY <2>2, <3>1, ExceptSeq
    <3>2. CASE latest[i] \notin 1 .. Len(attempts[i])
      <4>1. [attempts[i] EXCEPT ![latest[i]] = "leased"] = attempts[i]
        BY <2>2, <3>2
      <4>2. QED BY <2>2, <4>1
    <3>3. QED BY <3>1, <3>2
  <2>5. QED BY <2>3, <2>4 DEF LeasedAttempts
<1>6. lease' \in [Leases -> LeaseRow] /\ RowsInGroup'
  BY <1>2, <1>3, <1>4, BoundsAssumption DEF TypeInv, TypeOK, RowsInGroup, LeaseRow
<1>7. attempts' \in [Items -> Seq(AttemptStatus)]
  BY <1>2, <1>5 DEF TypeInv, TypeOK
<1>8. latest' \in [Items -> Nat] /\ itemStatus' \in [Items -> ItemStatus] /\ group' \in GroupStatus
  BY <1>2, <1>4 DEF TypeInv, TypeOK, ItemStatus, GroupStatus
<1>9. QED BY <1>2, <1>6, <1>7, <1>8 DEF TypeInv, TypeOK

LEMMA HeartbeatTypes ==
  ASSUME TypeInv, NEW l \in Leases, Heartbeat(l)
  PROVE  TypeInv'
<1> DEFINE i == lease[l].item
           n == lease[l].attempt
<1>1. i \in Items /\ lease[l] \in LeaseRow /\ attempts[i] \in Seq(AttemptStatus)
  BY DEF Heartbeat, Active, TypeInv, TypeOK, RowsInGroup
<1>2. lease' \in [Leases -> LeaseRow] /\ RowsInGroup'
  <2>1. lease' = [lease EXCEPT ![l] = [lease[l] EXCEPT !.expiresIn = LeaseTtl]]
    BY DEF Heartbeat
  <2>2. [lease[l] EXCEPT !.expiresIn = LeaseTtl] \in LeaseRow
    BY <1>1, BoundsAssumption DEF LeaseRow
  <2>3. QED BY <1>1, <2>1, <2>2 DEF TypeInv, TypeOK, RowsInGroup, LeaseRow
<1>3. attempts' \in [Items -> Seq(AttemptStatus)]
  <2>1. attempts' = [attempts EXCEPT ![i] =
          [attempts[i] EXCEPT ![n] = IF attempts[i][n] = "leased" THEN "running" ELSE attempts[i][n]]]
    BY DEF Heartbeat
  <2>2. CASE n \in 1 .. Len(attempts[i])
    <3>1. (IF attempts[i][n] = "leased" THEN "running" ELSE attempts[i][n]) \in AttemptStatus
      BY <1>1, <2>2, ElementOfSeq DEF AttemptStatus, LiveAttempt
    <3>2. QED BY <1>1, <2>1, <2>2, <3>1, ExceptSeq DEF TypeInv, TypeOK
  <2>3. CASE n \notin 1 .. Len(attempts[i])
    <3>1. attempts' = attempts
      BY <1>1, <2>1, <2>3 DEF TypeInv, TypeOK
    <3>2. QED BY <3>1 DEF TypeInv, TypeOK
  <2>4. QED BY <2>2, <2>3
<1>4. itemStatus' \in [Items -> ItemStatus]
  BY <1>1 DEF Heartbeat, TypeInv, TypeOK, ItemStatus
<1>5. QED BY <1>2, <1>3, <1>4 DEF Heartbeat, TypeInv, TypeOK

LEMMA ResultTypes ==
  ASSUME TypeInv, NEW l \in Leases, NEW result \in ResultStatus, RecordResult(l, result)
  PROVE  TypeInv'
<1> DEFINE ending == IF result = "cancelled" THEN "cancelled" ELSE "released"
<1>1. lease[l].item \in Items /\ lease[l] \in LeaseRow
  BY DEF RecordResult, Active, TypeInv, TypeOK, RowsInGroup
<1>2. lease' \in [Leases -> LeaseRow] /\ RowsInGroup'
  <2>1. lease' = [lease EXCEPT ![l] = Ended(lease[l], ending)]
    BY DEF RecordResult
  <2>2. Ended(lease[l], ending) \in LeaseRow /\ Ended(lease[l], ending).item = lease[l].item
    BY <1>1, EndedTyped
  <2>3. QED BY <1>1, <2>1, <2>2 DEF TypeInv, TypeOK, RowsInGroup
<1>3. attempts' \in [Items -> Seq(AttemptStatus)]
  BY AttemptsExcept DEF RecordResult, TypeInv, TypeOK, AttemptStatus
<1>4. itemStatus' \in [Items -> ItemStatus]
  BY ItemStatusTyped DEF RecordResult, TypeInv, TypeOK
<1>5. group' \in GroupStatus
  BY ComputedStatus DEF RecordResult, GroupStatus
<1>6. QED BY <1>2, <1>3, <1>4, <1>5 DEF RecordResult, TypeInv, TypeOK

LEMMA RetryTypes ==
  ASSUME TypeInv, NEW i \in Items, Retry(i)
  PROVE  TypeInv'
<1>1. Append(attempts[i], "created") \in Seq(AttemptStatus) /\ Len(attempts[i]) + 1 \in Nat
  <2>1. attempts[i] \in Seq(AttemptStatus) /\ "created" \in AttemptStatus
    BY DEF TypeInv, TypeOK, AttemptStatus
  <2>2. QED BY <2>1, AppendProperties
<1>2. QED BY <1>1 DEF Retry, TypeInv, TypeOK, RowsInGroup, ItemStatus, GroupStatus

LEMMA RecoverTypes ==
  ASSUME TypeInv, NEW lead \in 0 .. MaxLead, RecoverStale(lead)
  PROVE  TypeInv'
<1> DEFINE stale == StaleLeases(lead)
<1>1. lease' \in [Leases -> LeaseRow] /\ RowsInGroup'
  <2>1. lease' = [l \in Leases |-> IF l \in stale THEN Ended(lease[l], "expired") ELSE lease[l]]
    BY DEF RecoverStale
  <2>2. \A l \in Leases : lease[l] \in LeaseRow
    BY DEF TypeInv, TypeOK
  <2>3. \A l \in stale : lease[l].item \in Items /\ l \in Leases
    BY DEF StaleLeases, Active, TypeInv, RowsInGroup
  <2>4. QED BY <2>1, <2>2, <2>3, EndedTyped DEF TypeInv, TypeOK, RowsInGroup
<1>2. attempts' \in [Items -> Seq(AttemptStatus)]
  <2>1. \A i \in Items : \A n \in 1 .. Len(attempts[i]) : RecoveredAttempt(i, n, stale) \in AttemptStatus
    BY ElementOfSeq DEF RecoveredAttempt, TypeInv, TypeOK, AttemptStatus
  <2>2. \A i \in Items : Len(attempts[i]) \in Nat
    BY DEF TypeInv, TypeOK
  <2>3. \A i \in Items :
          [n \in 1 .. Len(attempts[i]) |-> RecoveredAttempt(i, n, stale)] \in Seq(AttemptStatus)
    BY <2>1, <2>2
  <2>4. QED BY <2>3 DEF RecoverStale
<1>3. itemStatus' \in [Items -> ItemStatus]
  BY DEF RecoverStale, RecoveredItem, TypeInv, TypeOK, ItemStatus
<1>4. group' \in GroupStatus
  BY ComputedStatus DEF RecoverStale, GroupStatus
<1>5. QED BY <1>1, <1>2, <1>3, <1>4 DEF RecoverStale, TypeInv, TypeOK

LEMMA StopTypes ==
  ASSUME TypeInv, Stop
  PROVE  TypeInv'
<1>1. lease' \in [Leases -> LeaseRow] /\ RowsInGroup'
  <2>1. \A l \in Leases : lease[l] \in LeaseRow
    BY DEF TypeInv, TypeOK
  <2>2. QED BY <2>1, EndedTyped DEF Stop, Active, TypeInv, TypeOK, RowsInGroup
<1>2. attempts' \in [Items -> Seq(AttemptStatus)]
  <2>1. \A i \in Items : Len(attempts[i]) \in Nat
    BY DEF TypeInv, TypeOK
  <2>2. \A i \in Items : \A n \in 1 .. Len(attempts[i]) :
          (IF attempts[i][n] \in StoppableAttempt THEN "cancelled" ELSE attempts[i][n]) \in AttemptStatus
    BY ElementOfSeq DEF TypeInv, TypeOK, AttemptStatus, ResultStatus
  <2>3. QED BY <2>1, <2>2 DEF Stop
<1>3. QED BY <1>1, <1>2 DEF Stop, TypeInv, TypeOK, ItemStatus, GroupStatus

LEMMA OtherTypes ==
  ASSUME TypeInv,
         \/ \E outcome \in {"passed", "failed"} : PreflightChecks(outcome)
         \/ RecordPreflight
         \/ Pause
         \/ \E l \in Leases : MakeAttemptDir(l)
         \/ Tick
         \/ UNCHANGED vars
  PROVE  TypeInv'
<1>1. CASE \E outcome \in {"passed", "failed"} : PreflightChecks(outcome)
  BY <1>1 DEF PreflightChecks, TypeInv, TypeOK, RowsInGroup
<1>2. CASE RecordPreflight
  BY <1>2 DEF RecordPreflight, TypeInv, TypeOK, RowsInGroup, PreflightStatus, GroupStatus
<1>3. CASE Pause
  BY <1>3 DEF Pause, TypeInv, TypeOK, RowsInGroup, GroupStatus
<1>4. CASE \E l \in Leases : MakeAttemptDir(l)
  <2>1. PICK l \in Leases : MakeAttemptDir(l)
    BY <1>4
  <2>2. lease[l] \in LeaseRow /\ lease[l].item \in Items
    BY <2>1 DEF MakeAttemptDir, TypeInv, TypeOK, RowsInGroup
  <2>3. AttemptOf(l) \in Items \X Nat
    BY <2>2 DEF AttemptOf, LeaseRow
  <2>4. QED BY <2>1, <2>3 DEF MakeAttemptDir, TypeInv, TypeOK, RowsInGroup
<1>5. CASE Tick
  <2>1. \A l \in Leases : lease[l] \in LeaseRow
    BY DEF TypeInv, TypeOK
  <2>2. \A l \in Leases : lease[l].expiresIn > 0 =>
          /\ [lease[l] EXCEPT !.expiresIn = lease[l].expiresIn - 1] \in LeaseRow
          /\ [lease[l] EXCEPT !.expiresIn = lease[l].expiresIn - 1].item = lease[l].item
          /\ [lease[l] EXCEPT !.expiresIn = lease[l].expiresIn - 1].status = lease[l].status
    BY <2>1, BoundsAssumption DEF LeaseRow
  <2>3. lease' = [l \in Leases |-> IF lease[l].expiresIn > 0
                   THEN [lease[l] EXCEPT !.expiresIn = lease[l].expiresIn - 1] ELSE lease[l]]
    BY <1>5 DEF Tick
  <2>4. QED BY <1>5, <2>1, <2>2, <2>3 DEF Tick, TypeInv, TypeOK, RowsInGroup
<1>6. CASE UNCHANGED vars
  BY <1>6 DEF vars, TypeInv, TypeOK, RowsInGroup
<1>7. QED BY <1>1, <1>2, <1>3, <1>4, <1>5, <1>6

LEMMA StepTypes == TypeInv /\ [Next]_vars => TypeInv'
BY GrantTypes, HeartbeatTypes, ResultTypes, RetryTypes, RecoverTypes, StopTypes, OtherTypes DEF Next

\* Every row of the four tables holds what its column may hold, through every
\* operation of the store on the group.
THEOREM TypesCorrect == Spec => []TypeOK
<1>1. Spec => []TypeInv
  BY InitTypes, StepTypes, PTL DEF Spec
<1>2. TypeInv => TypeOK
  BY DEF TypeInv
<1>3. QED BY <1>1, <1>2, PTL

-----------------------------------------------------------------------------
(* The lease invariant.  OneHolder and LeaseOwnsAttempt are not inductive:  *)
(* a grant must know that a pending item has no attempt in use, a recovery  *)
(* that the rows of the item, of its attempt and of its lease moved on      *)
(* together.  GroupInv says so for every item and for every active lease.   *)

LatestStatus(i) == IF latest[i] = 0 THEN "none" ELSE attempts[i][latest[i]]

\* The item row and the attempt rows of an item tell the same story.
RowsAgree(i) ==
  /\ latest[i] = Len(attempts[i])
  /\ \A n \in 1 .. Len(attempts[i]) :
       n # latest[i] => attempts[i][n] \notin {"created"} \cup LiveAttempt
  /\ itemStatus[i] \in LiveAttempt => LatestStatus(i) = itemStatus[i]
  /\ LatestStatus(i) \in LiveAttempt => itemStatus[i] = LatestStatus(i)
  /\ itemStatus[i] = "pending" => LatestStatus(i) \in {"none", "created"}
  /\ LatestStatus(i) = "created" => itemStatus[i] = "pending"

LeaseAgrees(l) ==
  /\ lease[l].attempt = latest[lease[l].item]
  /\ itemStatus[lease[l].item] \in LiveAttempt

GroupInv ==
  /\ TypeInv
  /\ \A i \in Items : RowsAgree(i)
  /\ \A l \in Active : LeaseAgrees(l)
  /\ \A i \in Items : itemStatus[i] \in LiveAttempt => \E l \in Active : lease[l].item = i
  /\ OneHolder

\* A step that leaves an item's rows alone leaves them agreeing.
LEMMA RowsUntouched ==
  ASSUME NEW i \in Items, RowsAgree(i),
         latest'[i] = latest[i], attempts'[i] = attempts[i], itemStatus'[i] = itemStatus[i]
  PROVE  RowsAgree(i)'
BY DEF RowsAgree, LatestStatus

\* Settling or starting the latest attempt together with its item.
LEMMA RowsMoveTogether ==
  ASSUME TypeInv, NEW i \in Items, RowsAgree(i), latest[i] # 0,
         NEW a, NEW s,
         a \in LiveAttempt \/ s \in LiveAttempt => a = s,
         a = "created" <=> s = "pending",
         latest'[i] = latest[i],
         attempts'[i] = [attempts[i] EXCEPT ![latest[i]] = a],
         itemStatus'[i] = s
  PROVE  RowsAgree(i)'
<1>1. attempts[i] \in Seq(AttemptStatus) /\ latest[i] \in 1 .. Len(attempts[i])
  BY DEF TypeInv, TypeOK, RowsAgree
<1>2. /\ Len(attempts'[i]) = Len(attempts[i])
      /\ attempts'[i][latest[i]] = a
      /\ \A n \in 1 .. Len(attempts[i]) : n # latest[i] => attempts'[i][n] = attempts[i][n]
  BY <1>1
<1>3. LatestStatus(i)' = a
  BY <1>1, <1>2 DEF LatestStatus
<1>4. QED BY <1>1, <1>2, <1>3 DEF RowsAgree

\* What the invariant says of the rows an active lease works on.
LEMMA HolderRows ==
  ASSUME GroupInv, NEW l \in Active
  PROVE  /\ lease[l].item \in Items
         /\ lease[l].attempt = latest[lease[l].item]
         /\ latest[lease[l].item] \in 1 .. Len(attempts[lease[l].item])
         /\ AttemptStatusOf(l) = itemStatus[lease[l].item]
         /\ AttemptStatusOf(l) \in LiveAttempt
<1>1. lease[l].item \in Items /\ LeaseAgrees(l)
  BY DEF GroupInv, TypeInv, RowsInGroup, Active
<1>2. RowsAgree(lease[l].item) /\ attempts[lease[l].item] \in Seq(AttemptStatus)
  BY <1>1 DEF GroupInv, TypeInv, TypeOK
<1>3. latest[lease[l].item] # 0
  BY <1>1, <1>2 DEF LeaseAgrees, RowsAgree, LatestStatus, LiveAttempt
<1>4. latest[lease[l].item] \in 1 .. Len(attempts[lease[l].item])
  BY <1>1, <1>2, <1>3 DEF RowsAgree, TypeInv, TypeOK
<1>5. AttemptStatusOf(l) = itemStatus[lease[l].item]
  BY <1>1, <1>2, <1>3 DEF LeaseAgrees, RowsAgree, LatestStatus, AttemptStatusOf
<1>6. QED BY <1>1, <1>4, <1>5 DEF LeaseAgrees

LEMMA InitGroup == Init => GroupInv
<1>1. SUFFICES ASSUME Init PROVE GroupInv
  OBVIOUS
<1>2. Active = {}
  BY <1>1 DEF Init, Active, NoLease
<1>3. \A i \in Items : RowsAgree(i)
  BY <1>1 DEF Init, RowsAgree, LatestStatus, LiveAttempt
<1>4. QED BY <1>1, <1>2, <1>3, InitTypes DEF GroupInv, OneHolder, Init, LiveAttempt

\* A step that changes no item, attempt or lease status keeps the invariant.
LEMMA FrameGroup ==
  ASSUME GroupInv, TypeInv',
         UNCHANGED <<latest, attempts, itemStatus>>,
         \A l \in Leases : /\ lease'[l].status = lease[l].status
                           /\ lease'[l].item = lease[l].item
                           /\ lease'[l].attempt = lease[l].attempt
  PROVE  GroupInv'
<1>1. Active' = Active
  BY DEF Active
<1>2. Active \subseteq Leases
  BY DEF Active
<1>3. \A i \in Items : RowsAgree(i)'
  BY RowsUntouched DEF GroupInv
<1>4. \A l \in Active' : LeaseAgrees(l)'
  BY <1>1, <1>2 DEF GroupInv, LeaseAgrees
<1>5. OneHolder'
  BY <1>1, <1>2 DEF GroupInv, OneHolder
<1>6. \A i \in Items : itemStatus'[i] \in LiveAttempt => \E l \in Active' : lease'[l].item = i
  BY <1>1, <1>2 DEF GroupInv
<1>7. QED BY <1>3, <1>4, <1>5, <1>6 DEF GroupInv

LEMMA OtherGroup ==
  ASSUME GroupInv,
         \/ \E outcome \in {"passed", "failed"} : PreflightChecks(outcome)
         \/ RecordPreflight
         \/ Pause
         \/ \E l \in Leases : MakeAttemptDir(l)
         \/ Tick
         \/ UNCHANGED vars
  PROVE  GroupInv'
<1>1. TypeInv'
  BY OtherTypes DEF GroupInv
<1>2. UNCHANGED <<latest, attempts, itemStatus>>
  BY DEF PreflightChecks, RecordPreflight, Pause, MakeAttemptDir, Tick, vars
<1>3. \A l \in Leases : /\ lease'[l].status = lease[l].status
                        /\ lease'[l].item = lease[l].item
                        /\ lease'[l].attempt = lease[l].attempt
  <2>1. CASE Tick
    <3>1. \A l \in Leases : lease[l] \in LeaseRow
      BY DEF GroupInv, TypeInv, TypeOK
    <3>2. QED BY <2>1, <3>1 DEF Tick, LeaseRow
  <2>2. CASE UNCHANGED lease
    BY <2>2
  <2>3. QED BY <2>1, <2>2 DEF PreflightChecks, RecordPreflight, Pause, MakeAttemptDir, vars
<1>4. QED BY <1>1, <1>2, <1>3, FrameGroup

LEMMA HeartbeatGroup ==
  ASSUME GroupInv, NEW l \in Leases, Heartbeat(l)
  PROVE  GroupInv'
<1> DEFINE i == lease[l].item
           s == IF itemStatus[i] = "leased" THEN "running" ELSE itemStatus[i]
<1>1. TypeInv'
  BY HeartbeatTypes DEF GroupInv
<1>2. l \in Active /\ i \in Items /\ lease[l].attempt = latest[i] /\ latest[i] # 0
      /\ attempts[i][latest[i]] = itemStatus[i] /\ itemStatus[i] \in LiveAttempt
      /\ latest[i] \in 1 .. Len(attempts[i])
  BY HolderRows DEF Heartbeat, AttemptStatusOf
<1>3. lease[l] \in LeaseRow /\ attempts[i] \in Seq(AttemptStatus)
  BY <1>2 DEF GroupInv, TypeInv, TypeOK
<1>4. /\ Active' = Active
      /\ \A m \in Leases : lease'[m].item = lease[m].item /\ lease'[m].attempt = lease[m].attempt
  BY <1>3 DEF Heartbeat, Active, GroupInv, TypeInv, TypeOK, LeaseRow
<1>5. \A j \in Items : RowsAgree(j)'
  <2>1. SUFFICES ASSUME NEW j \in Items PROVE RowsAgree(j)'
    OBVIOUS
  <2>2. CASE j = i
    <3>1. attempts'[j] = [attempts[j] EXCEPT ![latest[j]] = s]
      BY <1>2, <1>3, <2>2 DEF Heartbeat, GroupInv, TypeInv, TypeOK
    <3>2. itemStatus'[j] = s /\ latest'[j] = latest[j] /\ latest[j] # 0
      BY <1>2, <2>2 DEF Heartbeat, GroupInv, TypeInv, TypeOK
    <3>3. s # "created" /\ s # "pending"
      BY <1>2 DEF LiveAttempt
    <3>4. RowsAgree(j) /\ TypeInv
      BY DEF GroupInv
    <3>5. QED BY <3>1, <3>2, <3>3, <3>4, RowsMoveTogether
  <2>3. CASE j # i
    <3>1. latest'[j] = latest[j] /\ attempts'[j] = attempts[j] /\ itemStatus'[j] = itemStatus[j]
      BY <2>3 DEF Heartbeat, GroupInv, TypeInv, TypeOK
    <3>2. QED BY <3>1, RowsUntouched DEF GroupInv
  <2>4. QED BY <2>2, <2>3
<1>6. \A j \in Items : itemStatus'[j] \in LiveAttempt <=> itemStatus[j] \in LiveAttempt
  BY <1>2 DEF Heartbeat, GroupInv, TypeInv, TypeOK, LiveAttempt
<1>7. \A m \in Active : m \in Leases /\ lease[m].item \in Items
  BY DEF Active, GroupInv, TypeInv, RowsInGroup
<1>8. \A m \in Active' : LeaseAgrees(m)'
  BY <1>4, <1>6, <1>7 DEF Heartbeat, GroupInv, LeaseAgrees
<1>9. OneHolder'
  BY <1>4, <1>7 DEF GroupInv, OneHolder
<1>10. \A j \in Items : itemStatus'[j] \in LiveAttempt => \E m \in Active' : lease'[m].item = j
  BY <1>4, <1>6, <1>7 DEF GroupInv
<1>11. QED BY <1>1, <1>5, <1>8, <1>9, <1>10 DEF GroupInv

LEMMA ResultGroup ==
  ASSUME GroupInv, NEW l \in Leases, NEW result \in ResultStatus, RecordResult(l, result)
  PROVE  GroupInv'
<1> DEFINE i == lease[l].item
           s == ItemStatusForAttempt(result)
<1>1. TypeInv'
  BY ResultTypes DEF GroupInv
<1>2. l \in Active /\ i \in Items /\ lease[l].attempt = latest[i] /\ latest[i] # 0
  BY HolderRows DEF RecordResult
<1>3. result \notin {"created"} \cup LiveAttempt /\ s \notin {"pending"} \cup LiveAttempt
  BY DEF ResultStatus, LiveAttempt, ItemStatusForAttempt
<1>4. \A m \in Active : m \in Leases /\ lease[m].item \in Items /\ (m # l => lease[m].item # i)
  BY <1>2 DEF Active, GroupInv, TypeInv, RowsInGroup, OneHolder
<1>5. /\ Active' = Active \ {l}
      /\ \A m \in Active' : lease'[m] = lease[m]
  <2>1. Ended(lease[l], IF result = "cancelled" THEN "cancelled" ELSE "released").status # "active"
    BY DEF Ended
  <2>2. lease \in [Leases -> LeaseRow]
    BY DEF GroupInv, TypeInv, TypeOK
  <2>3. QED BY <2>1, <2>2 DEF RecordResult, Active
<1>6. \A j \in Items : RowsAgree(j)'
  <2>1. SUFFICES ASSUME NEW j \in Items PROVE RowsAgree(j)'
    OBVIOUS
  <2>2. CASE j = i
    <3>1. attempts'[j] = [attempts[j] EXCEPT ![latest[j]] = result]
      BY <1>2, <2>2 DEF RecordResult, GroupInv, TypeInv, TypeOK
    <3>2. itemStatus'[j] = s /\ latest'[j] = latest[j] /\ latest[j] # 0
      BY <1>2, <2>2 DEF RecordResult, GroupInv, TypeInv, TypeOK
    <3>3. RowsAgree(j) /\ TypeInv
      BY DEF GroupInv
    <3>4. QED BY <1>3, <3>1, <3>2, <3>3, RowsMoveTogether
  <2>3. CASE j # i
    <3>1. latest'[j] = latest[j] /\ attempts'[j] = attempts[j] /\ itemStatus'[j] = itemStatus[j]
      BY <2>3 DEF RecordResult, GroupInv, TypeInv, TypeOK
    <3>2. QED BY <3>1, RowsUntouched DEF GroupInv
  <2>4. QED BY <2>2, <2>3
<1>7. /\ \A j \in Items : j # i => itemStatus'[j] = itemStatus[j]
      /\ itemStatus'[i] \notin LiveAttempt
      /\ latest' = latest
  BY <1>2, <1>3 DEF RecordResult, GroupInv, TypeInv, TypeOK
<1>8. \A m \in Active' : LeaseAgrees(m)'
  BY <1>4, <1>5, <1>7 DEF GroupInv, LeaseAgrees
<1>9. OneHolder'
  BY <1>4, <1>5 DEF GroupInv, OneHolder
<1>10. \A j \in Items : itemStatus'[j] \in LiveAttempt => \E m \in Active' : lease'[m].item = j
  BY <1>4, <1>5, <1>7 DEF GroupInv
<1>11. QED BY <1>1, <1>6, <1>8, <1>9, <1>10 DEF GroupInv

LEMMA RetryGroup ==
  ASSUME GroupInv, NEW i \in Items, Retry(i)
  PROVE  GroupInv'
<1>1. TypeInv'
  BY RetryTypes DEF GroupInv
<1>2. attempts[i] \in Seq(AttemptStatus) /\ latest[i] \in Nat /\ RowsAgree(i)
  BY DEF GroupInv, TypeInv, TypeOK
<1>3. Active' = Active /\ lease' = lease
  BY DEF Retry, Active
<1>4. \A j \in Items : j # i =>
        latest'[j] = latest[j] /\ attempts'[j] = attempts[j] /\ itemStatus'[j] = itemStatus[j]
  BY DEF Retry, GroupInv, TypeInv, TypeOK
<1>5. /\ latest'[i] = Len(attempts[i]) + 1
      /\ attempts'[i] = Append(attempts[i], "created")
      /\ itemStatus'[i] = "pending"
  BY DEF Retry, GroupInv, TypeInv, TypeOK
<1>6. itemStatus[i] \notin {"pending"} \cup LiveAttempt
  BY DEF Retry, AttentionItem, LiveAttempt
<1>7. \A n \in 1 .. Len(attempts[i]) : attempts[i][n] \notin {"created"} \cup LiveAttempt
  BY <1>2, <1>6 DEF Retry, RowsAgree, LatestStatus
<1>8. RowsAgree(i)'
  <2>1. /\ Len(attempts'[i]) = Len(attempts[i]) + 1
        /\ attempts'[i][latest'[i]] = "created"
        /\ \A n \in 1 .. Len(attempts[i]) : attempts'[i][n] = attempts[i][n]
    BY <1>2, <1>5
  <2>2. LatestStatus(i)' = "created"
    BY <1>2, <1>5, <2>1 DEF LatestStatus
  <2>3. QED BY <1>2, <1>5, <1>7, <2>1, <2>2 DEF RowsAgree, LiveAttempt
<1>9. \A j \in Items : RowsAgree(j)'
  BY <1>4, <1>8, RowsUntouched DEF GroupInv
<1>10. \A m \in Active : lease[m].item \in Items \ {i} /\ LeaseAgrees(m)
  BY <1>6 DEF Active, GroupInv, TypeInv, RowsInGroup, LeaseAgrees
<1>11. \A m \in Active' : LeaseAgrees(m)'
  BY <1>3, <1>4, <1>10 DEF LeaseAgrees
<1>12. \A j \in Items : itemStatus'[j] \in LiveAttempt => \E m \in Active' : lease'[m].item = j
  BY <1>3, <1>4, <1>5 DEF GroupInv, LiveAttempt
<1>13. OneHolder'
  BY <1>3 DEF GroupInv, OneHolder
<1>14. QED BY <1>1, <1>9, <1>11, <1>12, <1>13 DEF GroupInv

LEMMA StopGroup ==
  ASSUME GroupInv, Stop
  PROVE  GroupInv'
<1>1. TypeInv'
  BY StopTypes DEF GroupInv
<1>2. Active' = {}
  BY DEF Stop, Active, Ended
<1>3. \A j \in Items : itemStatus'[j] \in {"completed", "stopped"}
  BY DEF Stop
<1>4. \A j \in Items : RowsAgree(j)'
  <2>1. SUFFICES ASSUME NEW j \in Items PROVE RowsAgree(j)'
    OBVIOUS
  <2>2. attempts[j] \in Seq(AttemptStatus) /\ latest[j] \in Nat /\ RowsAgree(j)
    BY DEF GroupInv, TypeInv, TypeOK
  <2>3. /\ latest'[j] = latest[j]
        /\ Len(attempts'[j]) = Len(attempts[j])
        /\ \A n \in 1 .. Len(attempts[j]) : attempts'[j][n] \notin {"created"} \cup LiveAttempt
    BY <2>2 DEF Stop, StoppableAttempt, LiveAttempt
  <2>4. LatestStatus(j)' \notin {"created"} \cup LiveAttempt
    BY <2>2, <2>3 DEF LatestStatus, RowsAgree, LiveAttempt
  <2>5. itemStatus'[j] \notin {"pending"} \cup LiveAttempt
    BY <1>3 DEF LiveAttempt
  <2>6. QED BY <2>2, <2>3, <2>4, <2>5 DEF RowsAgree
<1>5. QED BY <1>1, <1>2, <1>3, <1>4 DEF GroupInv, OneHolder, LiveAttempt

LEMMA GrantGroup ==
  ASSUME GroupInv, NEW capacity \in 1 .. MaxConcurrency, Grant(capacity)
  PROVE  GroupInv'
<1>1. TypeInv'
  BY GrantTypes DEF GroupInv
<1>2. PICK chosen \in SUBSET LeaseCandidates,
           fresh \in SUBSET {l \in Leases : lease[l].status = "none"} : GrantLeases(chosen, fresh)
  BY DEF Grant
<1>3. PICK holder \in Bijection(fresh, chosen) :
        /\ lease' = [l \in Leases |->
             IF l \in fresh
             THEN [status |-> "active", item |-> holder[l],
                   attempt |-> AttemptToLease(holder[l]), expiresIn |-> LeaseTtl]
             ELSE lease[l]]
        /\ attempts' = [i \in Items |-> IF i \in chosen THEN LeasedAttempts(i) ELSE attempts[i]]
        /\ latest' = [i \in Items |-> IF i \in chosen THEN AttemptToLease(i) ELSE latest[i]]
        /\ itemStatus' = [i \in Items |-> IF i \in chosen THEN "leased" ELSE itemStatus[i]]
  BY <1>2 DEF GrantLeases
<1>4. /\ \A l \in fresh : holder[l] \in chosen
      /\ \A l, m \in fresh : holder[l] = holder[m] => l = m
      /\ \A i \in chosen : \E l \in fresh : holder[l] = i
  BY <1>3 DEF Bijection, Injection, Surjection, IsInjective
<1>5. \A i \in chosen : i \in Items /\ itemStatus[i] = "pending" /\ NotLeased(i)
  BY <1>2 DEF LeaseCandidates
<1>6. Active \cap fresh = {} /\ Active' = Active \cup fresh
  BY <1>2, <1>3 DEF Active
<1>7. /\ \A l \in fresh : /\ lease'[l].item = holder[l]
                         /\ lease'[l].attempt = AttemptToLease(holder[l])
      /\ \A l \in Active : lease'[l] = lease[l]
  BY <1>2, <1>3, <1>6 DEF Active
<1>8. \A l \in Active : lease[l].item \in Items \ chosen /\ LeaseAgrees(l)
  BY <1>5 DEF GroupInv, TypeInv, RowsInGroup, Active, NotLeased
<1>9. \A i \in Items : RowsAgree(i)'
  <2>1. SUFFICES ASSUME NEW i \in Items PROVE RowsAgree(i)'
    OBVIOUS
  <2>2. CASE i \notin chosen
    <3>1. latest'[i] = latest[i] /\ attempts'[i] = attempts[i] /\ itemStatus'[i] = itemStatus[i]
      BY <1>3, <2>2
    <3>2. QED BY <3>1, RowsUntouched DEF GroupInv
  <2>3. CASE i \in chosen
    <3>1. /\ attempts[i] \in Seq(AttemptStatus)
          /\ latest[i] \in Nat
          /\ RowsAgree(i)
          /\ itemStatus[i] = "pending"
      BY <1>5, <2>3 DEF GroupInv, TypeInv, TypeOK
    <3>2. itemStatus'[i] = "leased" /\ latest'[i] = AttemptToLease(i) /\ attempts'[i] = LeasedAttempts(i)
      BY <1>3, <2>3
    <3>3. CASE latest[i] = 0
      <4>1. Len(attempts[i]) = 0 /\ latest'[i] = 1 /\ attempts'[i] = Append(attempts[i], "leased")
        BY <3>1, <3>2, <3>3 DEF RowsAgree, AttemptToLease, LeasedAttempts
      <4>2. Len(attempts'[i]) = 1 /\ attempts'[i][1] = "leased"
        BY <3>1, <4>1
      <4>3. LatestStatus(i)' = "leased"
        BY <4>1, <4>2 DEF LatestStatus
      <4>4. QED BY <3>2, <4>1, <4>2, <4>3 DEF RowsAgree, LiveAttempt
    <3>4. CASE latest[i] # 0
      <4>1. latest'[i] = latest[i] /\ attempts'[i] = [attempts[i] EXCEPT ![latest[i]] = "leased"]
        BY <3>2, <3>4 DEF AttemptToLease, LeasedAttempts
      <4>2. TypeInv
        BY DEF GroupInv
      <4>3. QED BY <3>1, <3>2, <3>4, <4>1, <4>2, RowsMoveTogether
    <3>5. QED BY <3>3, <3>4
  <2>4. QED BY <2>2, <2>3
<1>10. \A l \in Active' : LeaseAgrees(l)'
  <2>1. ASSUME NEW l \in Active PROVE LeaseAgrees(l)'
    BY <1>3, <1>7, <1>8 DEF LeaseAgrees
  <2>2. ASSUME NEW l \in fresh PROVE LeaseAgrees(l)'
    BY <1>3, <1>4, <1>5, <1>7 DEF LeaseAgrees, LiveAttempt
  <2>3. QED BY <1>6, <2>1, <2>2
<1>11. \A i \in Items : itemStatus'[i] \in LiveAttempt => \E l \in Active' : lease'[l].item = i
  <2>1. SUFFICES ASSUME NEW i \in Items, itemStatus'[i] \in LiveAttempt
                 PROVE  \E l \in Active' : lease'[l].item = i
    OBVIOUS
  <2>2. CASE i \in chosen
    BY <1>4, <1>6, <1>7, <2>2
  <2>3. CASE i \notin chosen
    BY <1>3, <1>6, <1>7, <2>1, <2>3 DEF GroupInv
  <2>4. QED BY <2>2, <2>3
<1>12. OneHolder'
  BY <1>4, <1>6, <1>7, <1>8 DEF GroupInv, OneHolder
<1>13. QED BY <1>1, <1>9, <1>10, <1>11, <1>12 DEF GroupInv

LEMMA RecoverGroup ==
  ASSUME GroupInv, NEW lead \in 0 .. MaxLead, RecoverStale(lead)
  PROVE  GroupInv'
<1> DEFINE stale == StaleLeases(lead)
<1>1. TypeInv'
  BY RecoverTypes DEF GroupInv
<1>2. stale \subseteq Active /\ Active \subseteq Leases
  BY DEF StaleLeases, Active
<1>3. /\ lease' = [l \in Leases |-> IF l \in stale THEN Ended(lease[l], "expired") ELSE lease[l]]
      /\ attempts' = [i \in Items |->
           [n \in 1 .. Len(attempts[i]) |-> RecoveredAttempt(i, n, stale)]]
      /\ itemStatus' = [i \in Items |-> RecoveredItem(i, stale)]
      /\ latest' = latest
  BY DEF RecoverStale
<1>4. Active' = Active \ stale /\ \A l \in Active' : lease'[l] = lease[l]
  BY <1>2, <1>3 DEF Active, Ended
<1>5. \A l \in Active : /\ lease[l].item \in Items
                        /\ lease[l].attempt = latest[lease[l].item]
                        /\ LeaseAgrees(l)
  BY HolderRows DEF GroupInv
<1>6. ASSUME NEW i \in Items, \A l \in stale : lease[l].item # i
      PROVE  itemStatus'[i] = itemStatus[i] /\ attempts'[i] = attempts[i]
  <2>1. itemStatus'[i] = itemStatus[i]
    BY <1>3, <1>6 DEF RecoveredItem
  <2>2. \A n \in 1 .. Len(attempts[i]) : RecoveredAttempt(i, n, stale) = attempts[i][n]
    BY <1>6 DEF RecoveredAttempt, AttemptOf
  <2>3. attempts'[i] = [n \in 1 .. Len(attempts[i]) |-> attempts[i][n]]
    BY <1>3, <2>2
  <2>4. attempts[i] \in Seq(AttemptStatus)
    BY DEF GroupInv, TypeInv, TypeOK
  <2>5. QED BY <2>1, <2>3, <2>4
<1>7. ASSUME NEW l \in stale, NEW i \in Items, lease[l].item = i
      PROVE  RowsAgree(i)' /\ itemStatus'[i] \notin LiveAttempt
  <2>1. /\ RowsAgree(i)
        /\ latest[i] \in 1 .. Len(attempts[i])
        /\ attempts[i] \in Seq(AttemptStatus)
        /\ attempts[i][latest[i]] = itemStatus[i]
        /\ itemStatus[i] \in LiveAttempt
        /\ AttemptOf(l) = <<i, latest[i]>>
        /\ AttemptStatusOf(l) \in LiveAttempt
    BY <1>2, <1>7, HolderRows DEF GroupInv, TypeInv, TypeOK, AttemptOf, AttemptStatusOf
  <2>2. \A m \in stale : lease[m].item = i => m = l
    BY <1>2, <1>7 DEF GroupInv, OneHolder
  <2>3. itemStatus'[i] = IF Requeued(l) THEN "pending" ELSE "needs_recovery"
    BY <1>3, <1>7, <2>1, <2>2 DEF RecoveredItem, LiveAttempt
  <2>4. RecoveredAttempt(i, latest[i], stale) = IF Requeued(l) THEN "created" ELSE "stale"
    <3>1. {m \in stale : AttemptOf(m) = <<i, latest[i]>>} = {l}
      BY <1>7, <2>1, <2>2 DEF AttemptOf
    <3>2. QED BY <2>1, <3>1 DEF RecoveredAttempt
  <2>5. \A n \in 1 .. Len(attempts[i]) : n # latest[i] =>
          RecoveredAttempt(i, n, stale) = attempts[i][n]
    <3>1. ASSUME NEW n \in 1 .. Len(attempts[i]), n # latest[i]
          PROVE  attempts[i][n] \notin LiveAttempt
      BY <2>1, <3>1 DEF RowsAgree
    <3>2. QED BY <3>1 DEF RecoveredAttempt
  <2>6. /\ Len(attempts'[i]) = Len(attempts[i])
        /\ latest'[i] = latest[i]
        /\ \A n \in 1 .. Len(attempts[i]) : attempts'[i][n] = RecoveredAttempt(i, n, stale)
    BY <1>3, <2>1
  <2>7. LatestStatus(i)' = IF Requeued(l) THEN "created" ELSE "stale"
    BY <2>1, <2>4, <2>6 DEF LatestStatus
  <2>8. QED BY <2>1, <2>3, <2>5, <2>6, <2>7 DEF RowsAgree, LiveAttempt
<1>8. \A i \in Items : RowsAgree(i)'
  <2>1. SUFFICES ASSUME NEW i \in Items PROVE RowsAgree(i)'
    OBVIOUS
  <2>2. CASE \E l \in stale : lease[l].item = i
    BY <1>7, <2>2
  <2>3. CASE \A l \in stale : lease[l].item # i
    <3>1. itemStatus'[i] = itemStatus[i] /\ attempts'[i] = attempts[i] /\ latest'[i] = latest[i]
      BY <1>3, <1>6, <2>3
    <3>2. QED BY <3>1, RowsUntouched DEF GroupInv
  <2>4. QED BY <2>2, <2>3
<1>9. \A l \in Active' : LeaseAgrees(l)'
  <2>1. SUFFICES ASSUME NEW l \in Active \ stale PROVE LeaseAgrees(l)'
    BY <1>4
  <2>2. \A m \in stale : lease[m].item # lease[l].item
    BY <1>2 DEF GroupInv, OneHolder
  <2>3. itemStatus'[lease[l].item] = itemStatus[lease[l].item]
    BY <1>5, <1>6, <2>2
  <2>4. QED BY <1>3, <1>4, <1>5, <2>3 DEF LeaseAgrees
<1>10. \A i \in Items : itemStatus'[i] \in LiveAttempt => \E l \in Active' : lease'[l].item = i
  <2>1. SUFFICES ASSUME NEW i \in Items, itemStatus'[i] \in LiveAttempt
                 PROVE  \E l \in Active' : lease'[l].item = i
    OBVIOUS
  <2>2. \A l \in stale : lease[l].item # i
    BY <1>7, <2>1
  <2>3. itemStatus[i] \in LiveAttempt
    BY <1>6, <2>1, <2>2
  <2>4. QED BY <1>4, <2>2, <2>3 DEF GroupInv
<1>11. OneHolder'
  BY <1>4 DEF GroupInv, OneHolder
<1>12. QED BY <1>1, <1>8, <1>9, <1>10, <1>11 DEF GroupInv

LEMMA StepGroup == GroupInv /\ [Next]_vars => GroupInv'
BY GrantGroup, HeartbeatGroup, ResultGroup, RetryGroup, RecoverGroup, StopGroup, OtherGroup DEF Next

LEMMA GroupAlways == Spec => []GroupInv
BY InitGroup, StepGroup, PTL DEF Spec

\* No two workers ever hold the same item.
THEOREM OneHolderAlways == Spec => []OneHolder
BY GroupAlways, PTL DEF GroupInv

LEMMA HoldersOwn == GroupInv => LeaseOwnsAttempt
<1>1. SUFFICES ASSUME GroupInv, NEW l \in Active
               PROVE  LET i == lease[l].item
                      IN  /\ i \in Items
                          /\ lease[l].attempt = latest[i]
                          /\ latest[i] = Len(attempts[i])
                          /\ AttemptStatusOf(l) \in LiveAttempt
                          /\ itemStatus[i] = AttemptStatusOf(l)
  BY DEF LeaseOwnsAttempt
<1>2. RowsAgree(lease[l].item)
  BY <1>1, HolderRows DEF GroupInv
<1>3. QED BY <1>1, <1>2, HolderRows DEF RowsAgree

\* The holder of an active lease works on the item's newest attempt, and the
\* item, attempt and lease rows agree on it.
THEOREM LeaseOwnsAttemptAlways == Spec => []LeaseOwnsAttempt
BY HoldersOwn, GroupAlways, PTL

LEMMA NoneOrphaned == GroupInv => NoOrphans
<1>1. SUFFICES ASSUME GroupInv, NEW i \in Items
               PROVE  /\ itemStatus[i] \in {"leased", "running"} => \E l \in Active : lease[l].item = i
                      /\ \A n \in 1 .. Len(attempts[i]) :
                           attempts[i][n] \in LiveAttempt => \E l \in Active : AttemptOf(l) = <<i, n>>
  BY DEF NoOrphans
<1>2. itemStatus[i] \in {"leased", "running"} => \E l \in Active : lease[l].item = i
  BY <1>1 DEF GroupInv, LiveAttempt
<1>3. ASSUME NEW n \in 1 .. Len(attempts[i]), attempts[i][n] \in LiveAttempt
      PROVE  \E l \in Active : AttemptOf(l) = <<i, n>>
  <2>1. RowsAgree(i) /\ latest[i] \in Nat /\ attempts[i] \in Seq(AttemptStatus)
    BY <1>1 DEF GroupInv, TypeInv, TypeOK
  <2>2. n = latest[i] /\ latest[i] # 0
    BY <1>3, <2>1 DEF RowsAgree
  <2>3. itemStatus[i] \in LiveAttempt
    BY <1>3, <2>1, <2>2 DEF RowsAgree, LatestStatus
  <2>4. PICK l \in Active : lease[l].item = i
    BY <1>1, <2>3 DEF GroupInv
  <2>5. lease[l].attempt = n
    BY <1>1, <2>2, <2>4, HolderRows
  <2>6. QED BY <2>4, <2>5 DEF AttemptOf
<1>4. QED BY <1>2, <1>3

\* No item and no attempt is left leased or running without an active lease,
\* where neither a recovery nor a retry would reach it.
THEOREM NoOrphansAlways == Spec => []NoOrphans
BY NoneOrphaned, GroupAlways, PTL

LEMMA PendingCandidates == GroupInv => PendingIsLeaseable
<1>1. SUFFICES ASSUME GroupInv, NEW i \in Items, itemStatus[i] = "pending"
               PROVE  i \in LeaseCandidates
  BY DEF PendingIsLeaseable
<1>2. NotLeased(i)
  BY <1>1 DEF GroupInv, LeaseAgrees, NotLeased, LiveAttempt
<1>3. Startable(i)
  <2>1. RowsAgree(i) /\ attempts[i] \in Seq(AttemptStatus) /\ latest[i] \in Nat
    BY <1>1 DEF GroupInv, TypeInv, TypeOK
  <2>2. latest[i] # 0 => attempts[i][latest[i]] \in AttemptStatus
    BY <2>1, ElementOfSeq DEF RowsAgree
  <2>3. "none" \notin AttemptStatus
    BY DEF AttemptStatus, LiveAttempt, ResultStatus
  <2>4. QED BY <1>1, <2>1, <2>2, <2>3 DEF RowsAgree, LatestStatus, Startable
<1>4. QED BY <1>1, <1>2, <1>3 DEF LeaseCandidates

\* Every pending item is a candidate for the next grant.
THEOREM PendingIsLeaseableAlways == Spec => []PendingIsLeaseable
BY PendingCandidates, GroupAlways, PTL

-----------------------------------------------------------------------------
(* The concurrency limit.  Only a grant adds active leases, as many as it    *)
(* chose items, and it chose no more than the limit leaves.                  *)

LEMMA ActiveFinite == IsFiniteSet(Active) /\ Cardinality(Active) \in Nat
<1>1. IsFiniteSet(Active)
  BY LeasesAssumption, FS_Subset DEF Active
<1>2. QED BY <1>1, FS_CardinalityType

LEMMA GrantWithinLimit ==
  ASSUME ConcurrencyRespected, NEW capacity \in 1 .. MaxConcurrency, Grant(capacity)
  PROVE  ConcurrencyRespected'
<1>1. PICK chosen \in SUBSET LeaseCandidates,
           fresh \in SUBSET {l \in Leases : lease[l].status = "none"} :
             FirstCandidates(chosen, AvailableLeases(capacity)) /\ GrantLeases(chosen, fresh)
  BY DEF Grant
<1>2. PICK holder \in Bijection(fresh, chosen) :
        lease' = [l \in Leases |->
             IF l \in fresh
             THEN [status |-> "active", item |-> holder[l],
                   attempt |-> AttemptToLease(holder[l]), expiresIn |-> LeaseTtl]
             ELSE lease[l]]
  BY <1>1 DEF GrantLeases
<1>3. Active' = Active \cup fresh
  BY <1>1, <1>2 DEF Active
<1>4. IsFiniteSet(fresh) /\ Cardinality(fresh) \in Nat
  <2>1. fresh \in SUBSET Leases
    BY <1>1
  <2>2. IsFiniteSet(fresh)
    BY <2>1, LeasesAssumption, FS_Subset
  <2>3. QED BY <2>2, FS_CardinalityType
<1>5. Cardinality(chosen) = Cardinality(fresh)
  <2>1. ExistsBijection(fresh, chosen)
    BY <1>2 DEF ExistsBijection
  <2>2. QED BY <1>4, <2>1, FS_Bijection
<1>6. Cardinality(chosen) <= AvailableLeases(capacity)
  BY <1>1 DEF FirstCandidates
<1>7. Cardinality(Active) + AvailableLeases(capacity) <= MaxConcurrency
      /\ AvailableLeases(capacity) \in Nat
  BY ActiveFinite, BoundsAssumption DEF AvailableLeases, ConcurrencyRespected
<1>8. Active \cap fresh = {}
  BY <1>1 DEF Active
<1>9. Cardinality(Active \cup fresh) = Cardinality(Active) + Cardinality(fresh)
  <2>1. Cardinality(Active \cup fresh)
          = Cardinality(Active) + Cardinality(fresh) - Cardinality(Active \cap fresh)
    BY <1>4, ActiveFinite, FS_Union
  <2>2. Cardinality(Active \cap fresh) = 0
    BY <1>8, FS_EmptySet
  <2>3. QED BY <1>4, <2>1, <2>2, ActiveFinite
<1>10. QED
  BY <1>3, <1>4, <1>5, <1>6, <1>7, <1>9, ActiveFinite, BoundsAssumption DEF ConcurrencyRespected

\* Every step but a grant keeps the active leases or takes some away.
LEMMA NoNewActive ==
  ASSUME TypeInv, [Next]_vars, \A capacity \in 1 .. MaxConcurrency : ~Grant(capacity)
  PROVE  Active' \subseteq Active
<1>1. CASE \E l \in Leases : Heartbeat(l)
  BY <1>1 DEF Heartbeat, Active, TypeInv, TypeOK, LeaseRow
<1>2. CASE \E l \in Leases, result \in ResultStatus : RecordResult(l, result)
  BY <1>2 DEF RecordResult, Active, Ended, TypeInv, TypeOK, LeaseRow
<1>3. CASE \E lead \in 0 .. MaxLead : RecoverStale(lead)
  BY <1>3 DEF RecoverStale, Active, Ended
<1>4. CASE Stop
  BY <1>4 DEF Stop, Active, Ended
<1>5. CASE Tick
  <2>1. \A l \in Leases : lease[l] \in LeaseRow
    BY DEF TypeInv, TypeOK
  <2>2. QED BY <1>5, <2>1 DEF Tick, Active, LeaseRow
<1>6. CASE UNCHANGED lease
  BY <1>6 DEF Active
<1>7. QED
  BY <1>1, <1>2, <1>3, <1>4, <1>5, <1>6
     DEF Next, vars, PreflightChecks, RecordPreflight, Retry, Pause, MakeAttemptDir

LEMMA StepLimit == TypeInv /\ ConcurrencyRespected /\ [Next]_vars => ConcurrencyRespected'
<1>1. SUFFICES ASSUME TypeInv, ConcurrencyRespected, [Next]_vars
               PROVE  ConcurrencyRespected'
  OBVIOUS
<1>2. CASE \E capacity \in 1 .. MaxConcurrency : Grant(capacity)
  BY <1>1, <1>2, GrantWithinLimit
<1>3. CASE \A capacity \in 1 .. MaxConcurrency : ~Grant(capacity)
  <2>1. Active' \subseteq Active
    BY <1>1, <1>3, NoNewActive
  <2>2. Cardinality(Active') <= Cardinality(Active) /\ IsFiniteSet(Active')
    BY <2>1, ActiveFinite, FS_Subset
  <2>3. Cardinality(Active') \in Nat
    BY <2>2, FS_CardinalityType
  <2>4. QED BY <1>1, <2>2, <2>3, ActiveFinite, BoundsAssumption DEF ConcurrencyRespected
<1>4. QED BY <1>2, <1>3

\* max_concurrency bounds the number of active leases, for every limit.
THEOREM ConcurrencyAlways == Spec => []ConcurrencyRespected
<1>1. Init => ConcurrencyRespected
  <2>1. Init => Active = {}
    BY DEF Init, Active, NoLease
  <2>2. QED BY <2>1, FS_EmptySet, BoundsAssumption DEF ConcurrencyRespected
<1>2. Spec => []TypeInv
  BY GroupAlways, PTL DEF GroupInv
<1>3. QED BY <1>1, <1>2, StepLimit, PTL DEF Spec

-----------------------------------------------------------------------------
(* The group's status.                                                      *)

LEMMA InitHonest == Init => GroupStatusHonest
BY DEF Init, GroupStatusHonest

LEMMA StepHonest == GroupInv /\ GroupStatusHonest /\ [Next]_vars => GroupStatusHonest'
<1>1. SUFFICES ASSUME GroupInv, GroupStatusHonest, [Next]_vars
               PROVE  GroupStatusHonest'
  OBVIOUS
<1>2. CASE \/ RecordPreflight \/ Pause
           \/ \E capacity \in 1 .. MaxConcurrency : Grant(capacity)
           \/ \E i \in Items : Retry(i)
  <2>1. group' \in {"ready_to_lease", "needs_attention", "paused", "running"}
    BY <1>2 DEF RecordPreflight, Pause, Grant, GrantLeases, Retry
  <2>2. QED BY <2>1 DEF GroupStatusHonest
<1>3. CASE \E l \in Leases : Heartbeat(l)
  <2>1. PICK l \in Leases : Heartbeat(l)
    BY <1>3
  <2>2. l \in Active /\ lease[l].item \in Items /\ itemStatus[lease[l].item] \in LiveAttempt
    BY <1>1, <2>1, HolderRows DEF Heartbeat
  <2>3. group' \notin {"completed", "stopped"}
    BY <1>1, <2>1, <2>2 DEF Heartbeat, GroupStatusHonest, LiveAttempt
  <2>4. QED BY <2>3 DEF GroupStatusHonest
<1>4. CASE \E l \in Leases, result \in ResultStatus : RecordResult(l, result)
  <2>1. PICK l \in Leases, result \in ResultStatus : RecordResult(l, result)
    BY <1>4
  <2>2. group' = ComputeGroupStatus(itemStatus', Active \ {l})
    BY <2>1 DEF RecordResult
  <2>3. QED BY <2>2, ComputedStatus DEF GroupStatusHonest
<1>5. CASE \E lead \in 0 .. MaxLead : RecoverStale(lead)
  <2>1. PICK lead \in 0 .. MaxLead : RecoverStale(lead)
    BY <1>5
  <2>2. \/ group' = "paused"
        \/ group' = ComputeGroupStatus(itemStatus', Active \ StaleLeases(lead))
    BY <2>1 DEF RecoverStale
  <2>3. QED BY <2>2, ComputedStatus DEF GroupStatusHonest
<1>6. CASE Stop
  <2>1. Active' = {} /\ group' = "stopped"
    BY <1>6 DEF Stop, Active, Ended
  <2>2. \A i \in Items : itemStatus'[i] \in {"completed", "stopped"}
    BY <1>6 DEF Stop
  <2>3. \A i \in Items : \A n \in 1 .. Len(attempts'[i]) :
          attempts'[i][n] \notin {"created"} \cup LiveAttempt
    <3>1. \A i \in Items : attempts[i] \in Seq(AttemptStatus)
      BY <1>1 DEF GroupInv, TypeInv, TypeOK
    <3>2. QED BY <1>6, <3>1 DEF Stop, StoppableAttempt, LiveAttempt
  <2>4. QED BY <2>1, <2>2, <2>3 DEF GroupStatusHonest
<1>7. CASE \/ \E outcome \in {"passed", "failed"} : PreflightChecks(outcome)
           \/ \E l \in Leases : MakeAttemptDir(l)
           \/ UNCHANGED vars
  BY <1>1, <1>7 DEF PreflightChecks, MakeAttemptDir, vars, GroupStatusHonest, Active
<1>8. CASE Tick
  <2>1. \A l \in Leases : lease[l] \in LeaseRow
    BY <1>1 DEF GroupInv, TypeInv, TypeOK
  <2>2. Active' = Active
    BY <1>8, <2>1 DEF Tick, Active, LeaseRow
  <2>3. QED BY <1>1, <1>8, <2>2 DEF Tick, GroupStatusHonest
<1>9. QED BY <1>1, <1>2, <1>3, <1>4, <1>5, <1>6, <1>7, <1>8 DEF Next

\* The group is reported completed only when every item is, and a stopped group
\* has nobody working and nothing left to lease.
THEOREM GroupStatusHonestAlways == Spec => []GroupStatusHonest
BY InitHonest, StepHonest, GroupAlways, PTL DEF Spec

-----------------------------------------------------------------------------
(* What a step may never do.                                                *)

\* The rows a step may rewrite: only live or created attempts, and no item that
\* is completed.
LEMMA StepEvidence == GroupInv /\ [Next]_vars => KeepsEvidence \/ UNCHANGED vars
<1>1. SUFFICES ASSUME GroupInv, [Next]_vars, NEW i \in Items, ~UNCHANGED vars
               PROVE  /\ itemStatus[i] = "completed" => itemStatus'[i] = "completed"
                      /\ Len(attempts'[i]) >= Len(attempts[i])
                      /\ \A n \in 1 .. Len(attempts[i]) :
                           Finished(i, n) => attempts'[i][n] = attempts[i][n]
  BY DEF KeepsEvidence
<1>2. /\ attempts[i] \in Seq(AttemptStatus)
      /\ latest[i] \in Nat
      /\ RowsAgree(i)
      /\ itemStatus \in [Items -> ItemStatus]
      /\ attempts \in [Items -> Seq(AttemptStatus)]
  BY <1>1 DEF GroupInv, TypeInv, TypeOK
<1>3. CASE \E capacity \in 1 .. MaxConcurrency : Grant(capacity)
  <2>1. PICK chosen \in SUBSET LeaseCandidates :
          /\ attempts' = [j \in Items |-> IF j \in chosen THEN LeasedAttempts(j) ELSE attempts[j]]
          /\ itemStatus' = [j \in Items |-> IF j \in chosen THEN "leased" ELSE itemStatus[j]]
    BY <1>3 DEF Grant, GrantLeases
  <2>2. CASE i \notin chosen
    BY <1>2, <2>1, <2>2
  <2>3. CASE i \in chosen
    <3>1. itemStatus[i] = "pending" /\ Startable(i) /\ attempts'[i] = LeasedAttempts(i)
      BY <2>1, <2>3 DEF LeaseCandidates
    <3>2. CASE latest[i] = 0
      BY <1>2, <3>1, <3>2 DEF LeasedAttempts
    <3>3. CASE latest[i] # 0
      <4>1. attempts[i][latest[i]] = "created"
        BY <3>1, <3>3 DEF Startable
      <4>2. attempts'[i] = [attempts[i] EXCEPT ![latest[i]] = "leased"]
        BY <3>1, <3>3 DEF LeasedAttempts
      <4>3. QED BY <1>2, <3>1, <4>1, <4>2 DEF Finished
    <3>4. QED BY <3>2, <3>3
  <2>4. QED BY <2>2, <2>3
<1>4. CASE \E l \in Leases : Heartbeat(l)
  <2>1. PICK l \in Leases : Heartbeat(l)
    BY <1>4
  <2>2. lease[l].item \in Items /\ AttemptStatusOf(l) \in LiveAttempt
        /\ itemStatus[lease[l].item] \in LiveAttempt
    BY <1>1, <2>1, HolderRows DEF Heartbeat
  <2>3. QED BY <1>2, <2>1, <2>2 DEF Heartbeat, AttemptStatusOf, Finished, LiveAttempt
<1>5. CASE \E l \in Leases, result \in ResultStatus : RecordResult(l, result)
  <2>1. PICK l \in Leases, result \in ResultStatus : RecordResult(l, result)
    BY <1>5
  <2>2. lease[l].item \in Items /\ AttemptStatusOf(l) \in LiveAttempt
        /\ itemStatus[lease[l].item] \in LiveAttempt
    BY <1>1, <2>1, HolderRows DEF RecordResult
  <2>3. QED BY <1>2, <2>1, <2>2 DEF RecordResult, AttemptStatusOf, Finished, LiveAttempt
<1>6. CASE \E j \in Items : Retry(j)
  BY <1>2, <1>6 DEF Retry, AttentionItem
<1>7. CASE \E lead \in 0 .. MaxLead : RecoverStale(lead)
  <2>1. PICK lead \in 0 .. MaxLead : RecoverStale(lead)
    BY <1>7
  <2>2. itemStatus[i] = "completed" => itemStatus'[i] = "completed"
    BY <2>1 DEF RecoverStale, RecoveredItem
  <2>3. /\ Len(attempts'[i]) = Len(attempts[i])
        /\ \A n \in 1 .. Len(attempts[i]) :
             attempts'[i][n] = RecoveredAttempt(i, n, StaleLeases(lead))
    BY <1>2, <2>1 DEF RecoverStale
  <2>4. QED BY <1>2, <2>2, <2>3 DEF RecoveredAttempt, Finished
<1>8. CASE Stop
  <2>1. /\ Len(attempts'[i]) = Len(attempts[i])
        /\ \A n \in 1 .. Len(attempts[i]) : attempts'[i][n] =
             IF attempts[i][n] \in StoppableAttempt THEN "cancelled" ELSE attempts[i][n]
    BY <1>2, <1>8 DEF Stop
  <2>2. itemStatus[i] = "completed" => itemStatus'[i] = "completed"
    BY <1>8 DEF Stop
  <2>3. QED BY <1>2, <2>1, <2>2 DEF Finished, StoppableAttempt
<1>9. CASE UNCHANGED <<attempts, itemStatus>>
  BY <1>2, <1>9
<1>10. QED
  BY <1>1, <1>3, <1>4, <1>5, <1>6, <1>7, <1>8, <1>9
     DEF Next, PreflightChecks, RecordPreflight, Pause, MakeAttemptDir, Tick

\* No step reopens a completed item, drops an attempt or rewrites its outcome.
THEOREM EvidencePreservedAlways == Spec => EvidencePreserved
<1>1. GroupInv /\ [Next]_vars => [KeepsEvidence]_vars
  BY StepEvidence
<1>2. QED BY <1>1, GroupAlways, PTL DEF Spec, EvidencePreserved

\* An attempt in progress whose directory exists is not put back for a lease: what
\* the second heartbeat of a launch relies on (LaunchedOnce of ParallelExecutor).
KeepsStarted ==
  \A i \in Items : \A n \in 1 .. Len(attempts[i]) :
    attempts[i][n] \in LiveAttempt /\ <<i, n>> \in dirs => attempts'[i][n] # "created"

LEMMA StepStarted == GroupInv /\ [Next]_vars => [KeepsStarted]_vars
<1>1. SUFFICES ASSUME GroupInv, [Next]_vars, ~UNCHANGED vars,
                      NEW i \in Items, NEW n \in 1 .. Len(attempts[i]),
                      attempts[i][n] \in LiveAttempt, <<i, n>> \in dirs
               PROVE  attempts'[i][n] # "created"
  BY DEF KeepsStarted
<1>2. /\ attempts[i] \in Seq(AttemptStatus)
      /\ attempts \in [Items -> Seq(AttemptStatus)]
      /\ attempts[i][n] # "created"
  BY <1>1 DEF GroupInv, TypeInv, TypeOK, LiveAttempt
<1>3. CASE \E capacity \in 1 .. MaxConcurrency : Grant(capacity)
  <2>1. PICK chosen \in SUBSET LeaseCandidates :
          attempts' = [j \in Items |-> IF j \in chosen THEN LeasedAttempts(j) ELSE attempts[j]]
    BY <1>3 DEF Grant, GrantLeases
  <2>2. attempts'[i] \in {attempts[i], Append(attempts[i], "leased"),
                          [attempts[i] EXCEPT ![latest[i]] = "leased"]}
    BY <2>1 DEF LeasedAttempts
  <2>3. QED BY <1>2, <2>2
<1>4. CASE \E l \in Leases : Heartbeat(l)
  BY <1>2, <1>4 DEF Heartbeat
<1>5. CASE \E l \in Leases, result \in ResultStatus : RecordResult(l, result)
  BY <1>2, <1>5 DEF RecordResult, ResultStatus
<1>6. CASE \E j \in Items : Retry(j)
  BY <1>2, <1>6 DEF Retry
<1>7. CASE \E lead \in 0 .. MaxLead : RecoverStale(lead)
  <2>1. PICK lead \in 0 .. MaxLead : RecoverStale(lead)
    BY <1>7
  <2>2. attempts'[i][n] = RecoveredAttempt(i, n, StaleLeases(lead))
    BY <1>2, <2>1 DEF RecoverStale
  <2>3. \A l \in StaleLeases(lead) : AttemptOf(l) = <<i, n>> => ~Requeued(l)
    BY <1>1 DEF Requeued, NeverStarted
  <2>4. QED BY <1>2, <2>2, <2>3 DEF RecoveredAttempt
<1>8. CASE Stop
  BY <1>2, <1>8 DEF Stop
<1>9. CASE UNCHANGED attempts
  BY <1>2, <1>9
<1>10. QED
  BY <1>1, <1>3, <1>4, <1>5, <1>6, <1>7, <1>8, <1>9
     DEF Next, PreflightChecks, RecordPreflight, Pause, MakeAttemptDir, Tick

-----------------------------------------------------------------------------
(* The ledger.  The initial rows are an empty ledger, and every transaction *)
(* is a step of the ledger or leaves it alone.  GroupInv is what makes the  *)
(* mapping work: only an item's newest attempt can still be open, and       *)
(* exactly while its item is pending or held by an active lease.            *)

Stands(i) == LedgerWork(itemStatus[i])

Learnt(i) == LedgerEvidence(attempts[i])

-----------------------------------------------------------------------------
(* What the mapping makes of a list of attempts.                           *)

\* While the newest of m + 1 attempts is open, the evidence is the first m.
LEMMA EvidenceOfOpen ==
  ASSUME NEW s \in Seq(AttemptStatus), NEW m \in Nat, Len(s) = m + 1,
         s[m + 1] \in StoppableAttempt
  PROVE  /\ LedgerEvidence(s) \in Seq(AttemptStatus)
         /\ Len(LedgerEvidence(s)) = m
         /\ \A n \in 1 .. m : LedgerEvidence(s)[n] = s[n]
<1>1. LedgerEvidence(s) = SubSeq(s, 1, m)
  BY DEF LedgerEvidence
<1>2. SubSeq(s, 1, m) \in Seq(AttemptStatus)
  OBVIOUS
<1>3. Len(SubSeq(s, 1, m)) = m /\ \A n \in 1 .. m : SubSeq(s, 1, m)[n] = s[n]
  OBVIOUS
<1>4. QED BY <1>1, <1>2, <1>3

LEMMA EvidenceOfSettled ==
  ASSUME NEW s, s = <<>> \/ s[Len(s)] \notin StoppableAttempt
  PROVE  LedgerEvidence(s) = s
BY DEF LedgerEvidence

LEMMA StoppableTyped == StoppableAttempt \subseteq AttemptStatus
BY DEF StoppableAttempt, AttemptStatus, LiveAttempt

\* Rewriting the newest attempt while it stays open teaches nothing; giving it
\* an outcome adds that outcome.
LEMMA LastRewritten ==
  ASSUME NEW s \in Seq(AttemptStatus), NEW t \in Seq(AttemptStatus),
         s # <<>>, Len(t) = Len(s), s[Len(s)] \in StoppableAttempt,
         \A n \in 1 .. Len(s) : n # Len(s) => t[n] = s[n]
  PROVE  /\ t[Len(s)] \in StoppableAttempt => LedgerEvidence(t) = LedgerEvidence(s)
         /\ t[Len(s)] \notin StoppableAttempt
              => LedgerEvidence(t) = Append(LedgerEvidence(s), t[Len(s)])
<1>1. PICK m \in Nat : Len(s) = m + 1
  <2>1. Len(s) \in Nat /\ Len(s) # 0
    BY EmptySeq
  <2>2. Len(s) - 1 \in Nat /\ Len(s) = (Len(s) - 1) + 1
    BY <2>1
  <2>3. QED BY <2>2
<1>2. /\ LedgerEvidence(s) \in Seq(AttemptStatus)
      /\ Len(LedgerEvidence(s)) = m
      /\ \A n \in 1 .. m : LedgerEvidence(s)[n] = t[n]
  <2>1. /\ LedgerEvidence(s) \in Seq(AttemptStatus)
        /\ Len(LedgerEvidence(s)) = m
        /\ \A n \in 1 .. m : LedgerEvidence(s)[n] = s[n]
    BY <1>1, EvidenceOfOpen
  <2>2. \A n \in 1 .. m : t[n] = s[n]
    BY <1>1
  <2>3. QED BY <2>1, <2>2
<1>3. CASE t[Len(s)] \in StoppableAttempt
  <2>1. /\ LedgerEvidence(t) \in Seq(AttemptStatus)
        /\ Len(LedgerEvidence(t)) = m
        /\ \A n \in 1 .. m : LedgerEvidence(t)[n] = t[n]
    BY <1>1, <1>3, EvidenceOfOpen
  <2>2. LedgerEvidence(t) = LedgerEvidence(s)
    BY <1>2, <2>1, SeqEqual
  <2>3. QED BY <1>3, <2>2
<1>4. CASE t[Len(s)] \notin StoppableAttempt
  <2> DEFINE e == LedgerEvidence(s)
             u == Append(e, t[m + 1])
  <2>1. LedgerEvidence(t) = t
    BY <1>1, <1>4, EvidenceOfSettled
  <2>2. t[m + 1] \in AttemptStatus
    BY <1>1, ElementOfSeq
  <2> HIDE DEF e
  <2>3. e \in Seq(AttemptStatus) /\ Len(e) = m /\ \A n \in 1 .. m : e[n] = t[n]
    BY <1>2 DEF e
  <2>4. /\ u \in Seq(AttemptStatus)
        /\ Len(u) = m + 1
        /\ u[m + 1] = t[m + 1]
        /\ \A n \in 1 .. m : u[n] = t[n]
    BY <2>2, <2>3
  <2>5. \A n \in 1 .. m + 1 : u[n] = t[n]
    BY <2>4
  <2>6. t = u
    BY <1>1, <2>4, <2>5, SeqEqual
  <2>7. QED BY <1>1, <1>4, <2>1, <2>6 DEF e
<1>5. QED BY <1>3, <1>4

\* A new attempt teaches nothing, if the one before it has its outcome.
LEMMA AttemptAdded ==
  ASSUME NEW s \in Seq(AttemptStatus), NEW a \in StoppableAttempt,
         s = <<>> \/ s[Len(s)] \notin StoppableAttempt
  PROVE  LedgerEvidence(Append(s, a)) = LedgerEvidence(s)
<1> DEFINE t == Append(s, a)
           m == Len(s)
<1>1. a \in AttemptStatus /\ m \in Nat
  BY StoppableTyped
<1>2. /\ t \in Seq(AttemptStatus) /\ Len(t) = m + 1 /\ t[m + 1] = a
      /\ \A n \in 1 .. m : t[n] = s[n]
  BY <1>1
<1> HIDE DEF t, m
<1>3. /\ LedgerEvidence(t) \in Seq(AttemptStatus)
      /\ Len(LedgerEvidence(t)) = m
      /\ \A n \in 1 .. m : LedgerEvidence(t)[n] = t[n]
  BY <1>1, <1>2, EvidenceOfOpen
<1>4. LedgerEvidence(t) = s
  BY <1>2, <1>3, SeqEqual DEF m
<1>5. QED BY <1>4, EvidenceOfSettled DEF t

-----------------------------------------------------------------------------
(* What the invariant says of the rows the mapping reads.                   *)

LEMMA NewestRows ==
  ASSUME GroupInv, NEW i \in Items
  PROVE  /\ attempts[i] \in Seq(AttemptStatus)
         /\ itemStatus[i] \in ItemStatus
         /\ latest[i] = Len(attempts[i])
         /\ itemStatus[i] \in LiveAttempt =>
              /\ attempts[i] # <<>>
              /\ attempts[i][Len(attempts[i])] = itemStatus[i]
         /\ itemStatus[i] = "pending" =>
              attempts[i] = <<>> \/ attempts[i][Len(attempts[i])] = "created"
         /\ itemStatus[i] \notin {"pending"} \cup LiveAttempt =>
              attempts[i] = <<>> \/ attempts[i][Len(attempts[i])] \notin StoppableAttempt
<1>1. /\ attempts[i] \in Seq(AttemptStatus) /\ itemStatus[i] \in ItemStatus
      /\ RowsAgree(i)
  BY DEF GroupInv, TypeInv, TypeOK
<1>2. latest[i] = Len(attempts[i]) /\ Len(attempts[i]) \in Nat
  BY <1>1 DEF RowsAgree
<1>3. Len(attempts[i]) = 0 <=> attempts[i] = <<>>
  BY <1>1, EmptySeq
<1>4. attempts[i] # <<>> => attempts[i][Len(attempts[i])] = LatestStatus(i)
                            /\ LatestStatus(i) \in AttemptStatus
  BY <1>1, <1>2, <1>3, ElementOfSeq DEF LatestStatus
<1>5. attempts[i] = <<>> => LatestStatus(i) = "none"
  BY <1>2, <1>3 DEF LatestStatus
<1>6. "none" \notin AttemptStatus /\ "none" \notin LiveAttempt
  BY DEF AttemptStatus, LiveAttempt, ResultStatus
<1>7. QED
  BY <1>1, <1>2, <1>4, <1>5, <1>6 DEF RowsAgree, StoppableAttempt

LEMMA SameLedger ==
  ASSUME \A i \in Items : Stands(i)' = Stands(i) /\ Learnt(i)' = Learnt(i)
  PROVE  UNCHANGED Ledger!vars
BY DEF Ledger!vars, Stands, Learnt

LEMMA LedgerHeld ==
  Ledger!Held = {i \in Items : itemStatus[i] \in LiveAttempt}
BY DEF Ledger!Held, LedgerWork, LiveAttempt

\* The instance's own name for the size of a set.
LEMMA LedgerSize == \A S : Ledger!Cardinality(S) = Cardinality(S)
BY DEF Ledger!Cardinality, Cardinality

\* If every item has a holder of its own, there are no more items than holders.
LEMMA OneHolderEach ==
  ASSUME NEW held, NEW holders, IsFiniteSet(holders), NEW item,
         \A i \in held : \E l \in holders : item[l] = i
  PROVE  /\ IsFiniteSet(held)
         /\ Cardinality(held) \in Nat
         /\ Cardinality(held) <= Cardinality(holders)
<1> DEFINE holding == [i \in held |-> CHOOSE l \in holders : item[l] = i]
<1>1. \A i \in held : holding[i] \in holders /\ item[holding[i]] = i
  OBVIOUS
<1>2. holding \in Injection(held, holders)
  BY <1>1 DEF Injection, IsInjective
<1>3. IsFiniteSet(held) /\ Cardinality(held) <= Cardinality(holders)
  BY <1>2, FS_Injection
<1>4. QED BY <1>3, FS_CardinalityType

-----------------------------------------------------------------------------
(* The steps.                                                               *)

LEMMA GrantTakes ==
  ASSUME GroupInv, GroupInv', ConcurrencyRespected',
         NEW capacity \in 1 .. MaxConcurrency, Grant(capacity)
  PROVE  Ledger!Take
<1>1. PICK chosen \in SUBSET LeaseCandidates :
        /\ chosen # {}
        /\ attempts' = [i \in Items |-> IF i \in chosen THEN LeasedAttempts(i) ELSE attempts[i]]
        /\ itemStatus' = [i \in Items |-> IF i \in chosen THEN "leased" ELSE itemStatus[i]]
  BY DEF Grant, GrantLeases
<1>2. chosen \subseteq Items /\ \A i \in chosen : itemStatus[i] = "pending"
  BY DEF LeaseCandidates
<1>3. ASSUME NEW i \in chosen PROVE LedgerEvidence(attempts'[i]) = LedgerEvidence(attempts[i])
  <2>1. i \in Items /\ itemStatus[i] = "pending"
    BY <1>2
  <2>2. /\ attempts[i] \in Seq(AttemptStatus)
        /\ latest[i] = Len(attempts[i])
        /\ attempts[i] = <<>> \/ attempts[i][Len(attempts[i])] = "created"
    BY <2>1, NewestRows
  <2>3. "leased" \in StoppableAttempt /\ "created" \in StoppableAttempt
    BY DEF StoppableAttempt, LiveAttempt
  <2>4. attempts'[i] = LeasedAttempts(i)
    BY <1>1, <2>1
  <2>5. CASE attempts[i] = <<>>
    <3>1. attempts'[i] = Append(attempts[i], "leased")
      BY <2>2, <2>4, <2>5 DEF LeasedAttempts
    <3>2. QED BY <2>2, <2>3, <2>5, <3>1, AttemptAdded
  <2>6. CASE attempts[i] # <<>>
    <3> DEFINE s == attempts[i]
               t == [s EXCEPT ![Len(s)] = "leased"]
    <3>1. Len(s) \in Nat \ {0}
      BY <2>2, <2>6, EmptySeq
    <3>2. attempts'[i] = t
      BY <2>2, <2>4, <3>1 DEF LeasedAttempts
    <3>3. t \in Seq(AttemptStatus)
      BY <2>2, <2>3, <3>1, StoppableTyped, ExceptSeq
    <3>4. Len(t) = Len(s) /\ t[Len(s)] = "leased" /\ \A n \in 1 .. Len(s) : n # Len(s) => t[n] = s[n]
      BY <2>2, <3>1
    <3>5. s[Len(s)] \in StoppableAttempt /\ t[Len(s)] \in StoppableAttempt
      BY <2>2, <2>3, <2>6, <3>4
    <3>6. LedgerEvidence(t) = LedgerEvidence(s)
      <4> HIDE DEF t
      <4>1. QED BY <2>2, <2>6, <3>3, <3>4, <3>5, LastRewritten
    <3>7. QED BY <3>2, <3>6
  <2>7. QED BY <2>5, <2>6
<1>4. chosen \in SUBSET {i \in Items : [j \in Items |-> LedgerWork(itemStatus[j])][i] = "open"}
  BY <1>2 DEF LedgerWork
<1>5. Ledger!Held' = Ledger!Held \cup chosen
  <2>1. Ledger!Held' = {i \in Items : itemStatus'[i] \in LiveAttempt}
    BY DEF Ledger!Held, LedgerWork, LiveAttempt
  <2>2. QED BY <1>1, <1>2, <2>1, LedgerHeld DEF LiveAttempt
<1>6. Cardinality(Ledger!Held \cup chosen) <= MaxConcurrency
  <2> DEFINE item == [l \in Leases |-> lease'[l].item]
  <2>1. Active' \subseteq Leases /\ IsFiniteSet(Active') /\ Cardinality(Active') \in Nat
    <3>1. Active' \subseteq Leases
      BY DEF Active
    <3>2. QED BY <3>1, LeasesAssumption, FS_Subset, FS_CardinalityType
  <2>2. \A i \in Ledger!Held \cup chosen : \E l \in Active' : item[l] = i
    <3>1. \A i \in Ledger!Held \cup chosen : i \in Items /\ itemStatus'[i] \in LiveAttempt
      BY <1>5 DEF Ledger!Held, LedgerWork, LiveAttempt
    <3>2. QED BY <2>1, <3>1 DEF GroupInv
  <2> HIDE DEF item
  <2>3. /\ Cardinality(Ledger!Held \cup chosen) \in Nat
        /\ Cardinality(Ledger!Held \cup chosen) <= Cardinality(Active')
    BY <2>1, <2>2, OneHolderEach
  <2>4. Cardinality(Active') <= MaxConcurrency
    BY DEF ConcurrencyRespected
  <2>5. QED BY <2>1, <2>3, <2>4, BoundsAssumption
<1>7. [i \in Items |-> LedgerWork(itemStatus'[i])]
        = [i \in Items |-> IF i \in chosen THEN "held" ELSE [j \in Items |-> LedgerWork(itemStatus[j])][i]]
  BY <1>1 DEF LedgerWork
<1>8. [i \in Items |-> LedgerEvidence(attempts'[i])] = [i \in Items |-> LedgerEvidence(attempts[i])]
  BY <1>1, <1>3
<1>9. QED BY <1>1, <1>4, <1>6, <1>7, <1>8, LedgerSize DEF Ledger!Take

\* A heartbeat is none of the ledger's business.
LEMMA HeartbeatStutters ==
  ASSUME GroupInv, GroupInv', NEW l \in Leases, Heartbeat(l)
  PROVE  UNCHANGED Ledger!vars
<1>0. PICK i \in Items : i = lease[l].item
  BY HolderRows DEF Heartbeat
<1> DEFINE s == attempts[i]
           t == attempts'[i]
<1>1. /\ l \in Active /\ lease[l].attempt = latest[i]
      /\ latest[i] \in 1 .. Len(s)
      /\ s[latest[i]] = itemStatus[i] /\ itemStatus[i] \in LiveAttempt
  BY <1>0, HolderRows DEF Heartbeat, AttemptStatusOf
<1>2. /\ s \in Seq(AttemptStatus) /\ s # <<>> /\ latest[i] = Len(s)
      /\ t \in Seq(AttemptStatus)
  BY <1>1, NewestRows DEF GroupInv, TypeInv, TypeOK
<1>3. /\ Len(t) = Len(s)
      /\ t[Len(s)] \in LiveAttempt
      /\ \A n \in 1 .. Len(s) : n # Len(s) => t[n] = s[n]
  BY <1>0, <1>1, <1>2 DEF Heartbeat, GroupInv, TypeInv, TypeOK, LiveAttempt
<1>4. Learnt(i)' = Learnt(i)
  <2>1. s[Len(s)] \in StoppableAttempt /\ t[Len(s)] \in StoppableAttempt
    BY <1>1, <1>2, <1>3 DEF StoppableAttempt
  <2> HIDE DEF t
  <2>2. LedgerEvidence(t) = LedgerEvidence(s)
    BY <1>2, <1>3, <2>1, LastRewritten
  <2>3. QED BY <2>2 DEF Learnt, t
<1>5. Stands(i)' = Stands(i)
  BY <1>0, <1>1 DEF Heartbeat, GroupInv, TypeInv, TypeOK, Stands, LedgerWork, LiveAttempt
<1>6. \A j \in Items : j # i => itemStatus'[j] = itemStatus[j] /\ attempts'[j] = attempts[j]
  BY <1>0 DEF Heartbeat, GroupInv, TypeInv, TypeOK
<1>7. \A j \in Items : Stands(j)' = Stands(j) /\ Learnt(j)' = Learnt(j)
  BY <1>4, <1>5, <1>6 DEF Stands, Learnt
<1>8. QED BY <1>7, SameLedger

\* The ledger's view of one held item whose newest attempt is rewritten to a,
\* and its own row to the status that goes with it.
LEMMA HolderLetsGo ==
  ASSUME GroupInv, GroupInv', NEW i \in Items, itemStatus[i] \in LiveAttempt,
         Len(attempts'[i]) = Len(attempts[i]),
         \A n \in 1 .. Len(attempts[i]) : n # latest[i] => attempts'[i][n] = attempts[i][n]
  PROVE  /\ attempts'[i][latest[i]] \in StoppableAttempt => Learnt(i)' = Learnt(i)
         /\ attempts'[i][latest[i]] \notin StoppableAttempt =>
              Learnt(i)' = Append(Learnt(i), attempts'[i][latest[i]])
<1> DEFINE s == attempts[i]
           t == attempts'[i]
<1>1. /\ s \in Seq(AttemptStatus) /\ s # <<>> /\ latest[i] = Len(s)
      /\ s[Len(s)] \in StoppableAttempt
      /\ t \in Seq(AttemptStatus)
  BY NewestRows DEF GroupInv, TypeInv, TypeOK, StoppableAttempt
<1>2. Len(t) = Len(s) /\ \A n \in 1 .. Len(s) : n # Len(s) => t[n] = s[n]
  BY <1>1
<1> HIDE DEF s, t
<1>3. /\ t[Len(s)] \in StoppableAttempt => LedgerEvidence(t) = LedgerEvidence(s)
      /\ t[Len(s)] \notin StoppableAttempt => LedgerEvidence(t) = Append(LedgerEvidence(s), t[Len(s)])
  BY <1>1, <1>2, LastRewritten
<1>4. QED BY <1>1, <1>3 DEF Learnt, s, t

\* A set of held items let go, each put back or ended, is a LetGo of the ledger.
LEMMA LetGoStep ==
  ASSUME GroupInv, GroupInv', NEW gone \in SUBSET Items, gone # {},
         \A i \in gone : itemStatus[i] \in LiveAttempt,
         \A i \in gone :
           \/ Stands(i)' = "open" /\ Learnt(i)' = Learnt(i)
           \/ \E outcome \in ResultStatus \cup {"stale"} :
                /\ Stands(i)' = IF outcome = "completed" THEN "completed" ELSE "attention"
                /\ Learnt(i)' = Append(Learnt(i), outcome),
         \A i \in Items \ gone : Stands(i)' = Stands(i) /\ Learnt(i)' = Learnt(i)
  PROVE  Ledger!LetGo
<1> DEFINE work     == [i \in Items |-> LedgerWork(itemStatus[i])]
           evidence == [i \in Items |-> LedgerEvidence(attempts[i])]
<1>1. gone \in SUBSET Ledger!Held
  BY LedgerHeld
<1>2. work' \in [Items -> Ledger!Work] /\ DOMAIN evidence' = Items
  BY DEF LedgerWork, Ledger!Work
<1>3. \A i \in Items : /\ work[i] = Stands(i) /\ work'[i] = Stands(i)'
                       /\ evidence[i] = Learnt(i) /\ evidence'[i] = Learnt(i)'
  BY DEF Stands, Learnt
<1>4. ASSUME NEW i \in gone
      PROVE  Ledger!PutBack(i) \/ \E outcome \in ResultStatus \cup {"stale"} : Ledger!End(i, outcome)
  BY <1>3 DEF Ledger!PutBack, Ledger!End
<1>5. \A i \in Items \ gone : work'[i] = work[i] /\ evidence'[i] = evidence[i]
  BY <1>3
<1>6. QED BY <1>1, <1>2, <1>4, <1>5 DEF Ledger!LetGo

LEMMA ResultLetsGo ==
  ASSUME GroupInv, GroupInv', NEW l \in Leases, NEW result \in ResultStatus, RecordResult(l, result)
  PROVE  Ledger!LetGo
<1>0. PICK i \in Items : i = lease[l].item
  BY HolderRows DEF RecordResult
<1>1. /\ l \in Active /\ lease[l].attempt = latest[i]
      /\ latest[i] \in 1 .. Len(attempts[i])
      /\ itemStatus[i] \in LiveAttempt
      /\ attempts[i] \in Seq(AttemptStatus)
  BY <1>0, HolderRows, NewestRows DEF RecordResult
<1>2. /\ Len(attempts'[i]) = Len(attempts[i])
      /\ attempts'[i][latest[i]] = result
      /\ \A n \in 1 .. Len(attempts[i]) : n # latest[i] => attempts'[i][n] = attempts[i][n]
  BY <1>0, <1>1 DEF RecordResult, GroupInv, TypeInv, TypeOK
<1>3. result \notin StoppableAttempt
  BY DEF ResultStatus, StoppableAttempt, LiveAttempt
<1>4. Learnt(i)' = Append(Learnt(i), result)
  BY <1>1, <1>2, <1>3, HolderLetsGo
<1>5. Stands(i)' = IF result = "completed" THEN "completed" ELSE "attention"
  <2>1. itemStatus'[i] = ItemStatusForAttempt(result)
    BY <1>0, <1>1 DEF RecordResult, GroupInv, TypeInv, TypeOK
  <2>2. QED BY <2>1 DEF Stands, ItemStatusForAttempt, LedgerWork, ResultStatus
<1>6. \A j \in Items \ {i} : Stands(j)' = Stands(j) /\ Learnt(j)' = Learnt(j)
  BY <1>0 DEF RecordResult, GroupInv, TypeInv, TypeOK, Stands, Learnt
<1>7. {i} \in SUBSET Items /\ {i} # {} /\ \A j \in {i} : itemStatus[j] \in LiveAttempt
  BY <1>1
<1>8. \A j \in {i} : \E outcome \in ResultStatus \cup {"stale"} :
        /\ Stands(j)' = IF outcome = "completed" THEN "completed" ELSE "attention"
        /\ Learnt(j)' = Append(Learnt(j), outcome)
  BY <1>4, <1>5
<1>9. QED BY <1>6, <1>7, <1>8, LetGoStep

LEMMA RecoveryLetsGo ==
  ASSUME GroupInv, GroupInv', NEW lead \in 0 .. MaxLead, RecoverStale(lead)
  PROVE  Ledger!LetGo
<1> DEFINE stale == StaleLeases(lead)
           gone == {i \in Items : \E l \in stale : lease[l].item = i}
<1>1. /\ attempts' = [i \in Items |->
           [n \in 1 .. Len(attempts[i]) |-> RecoveredAttempt(i, n, stale)]]
      /\ itemStatus' = [i \in Items |-> RecoveredItem(i, stale)]
      /\ stale # {} /\ stale \subseteq Active
  BY DEF RecoverStale, StaleLeases
<1> HIDE DEF stale
<1>2. \A l \in stale : lease[l].item \in Items /\ itemStatus[lease[l].item] \in LiveAttempt
  BY <1>1, HolderRows
<1>3. gone \in SUBSET Items /\ gone # {} /\ \A i \in gone : itemStatus[i] \in LiveAttempt
  BY <1>1, <1>2
<1>4. ASSUME NEW i \in Items \ gone
      PROVE  Stands(i)' = Stands(i) /\ Learnt(i)' = Learnt(i)
  <2>1. \A l \in stale : lease[l].item # i
    OBVIOUS
  <2>2. itemStatus'[i] = itemStatus[i]
    BY <1>1, <2>1 DEF RecoveredItem
  <2>3. \A n \in 1 .. Len(attempts[i]) : RecoveredAttempt(i, n, stale) = attempts[i][n]
    BY <2>1 DEF RecoveredAttempt, AttemptOf
  <2>4. attempts[i] \in Seq(AttemptStatus)
    BY NewestRows
  <2>5. attempts'[i] = attempts[i]
    <3>1. attempts'[i] = [n \in 1 .. Len(attempts[i]) |-> attempts[i][n]]
      <4>1. attempts'[i] = [n \in 1 .. Len(attempts[i]) |-> RecoveredAttempt(i, n, stale)]
        BY <1>1
      <4>2. QED BY <2>3, <4>1, Zenon
    <3>2. attempts[i] = [n \in 1 .. Len(attempts[i]) |-> attempts[i][n]]
      BY <2>4
    <3>3. QED BY <3>1, <3>2, Zenon
  <2>6. QED BY <2>2, <2>5 DEF Stands, Learnt
<1>5. ASSUME NEW i \in gone
      PROVE  \/ Stands(i)' = "open" /\ Learnt(i)' = Learnt(i)
             \/ Stands(i)' = "attention" /\ Learnt(i)' = Append(Learnt(i), "stale")
  <2>1. PICK l \in stale : lease[l].item = i
    OBVIOUS
  <2>2. /\ i \in Items /\ RowsAgree(i) /\ itemStatus[i] \in LiveAttempt
        /\ latest[i] \in 1 .. Len(attempts[i])
        /\ attempts[i] \in Seq(AttemptStatus)
        /\ attempts[i][latest[i]] = itemStatus[i]
        /\ AttemptOf(l) = <<i, latest[i]>>
        /\ AttemptStatusOf(l) \in LiveAttempt
    BY <1>1, <2>1, HolderRows, NewestRows DEF GroupInv, AttemptOf, AttemptStatusOf
  <2>3. \A m \in stale : lease[m].item = i => m = l
    BY <1>1, <2>1 DEF GroupInv, OneHolder
  <2>4. itemStatus'[i] = IF Requeued(l) THEN "pending" ELSE "needs_recovery"
    BY <1>1, <2>1, <2>2, <2>3 DEF RecoveredItem, LiveAttempt
  <2>5. attempts'[i][latest[i]] = IF Requeued(l) THEN "created" ELSE "stale"
    <3>1. {m \in stale : AttemptOf(m) = <<i, latest[i]>>} = {l}
      BY <2>1, <2>2, <2>3 DEF AttemptOf
    <3>2. QED BY <1>1, <2>2, <3>1 DEF RecoveredAttempt
  <2>6. Len(attempts'[i]) = Len(attempts[i])
    BY <1>1, <2>2
  <2>7. \A n \in 1 .. Len(attempts[i]) : n # latest[i] => attempts'[i][n] = attempts[i][n]
    <3>1. ASSUME NEW n \in 1 .. Len(attempts[i]), n # latest[i]
          PROVE  attempts[i][n] \notin LiveAttempt
      BY <2>2, <3>1 DEF RowsAgree
    <3>2. QED BY <1>1, <2>2, <3>1 DEF RecoveredAttempt
  <2>8. "stale" \notin StoppableAttempt /\ "created" \in StoppableAttempt
    BY DEF StoppableAttempt, LiveAttempt
  <2>9. CASE Requeued(l)
    BY <2>2, <2>4, <2>5, <2>6, <2>7, <2>8, <2>9, HolderLetsGo DEF Stands, LedgerWork
  <2>10. CASE ~Requeued(l)
    BY <2>2, <2>4, <2>5, <2>6, <2>7, <2>8, <2>10, HolderLetsGo DEF Stands, LedgerWork
  <2>11. QED BY <2>9, <2>10
<1> HIDE DEF gone
<1>6. \A i \in gone :
        \/ Stands(i)' = "open" /\ Learnt(i)' = Learnt(i)
        \/ \E outcome \in ResultStatus \cup {"stale"} :
             /\ Stands(i)' = IF outcome = "completed" THEN "completed" ELSE "attention"
             /\ Learnt(i)' = Append(Learnt(i), outcome)
  <2>1. "stale" \in ResultStatus \cup {"stale"} /\ "stale" # "completed"
    OBVIOUS
  <2>2. QED BY <1>5, <2>1
<1>7. QED BY <1>3, <1>4, <1>6, LetGoStep

LEMMA RetryReopens ==
  ASSUME GroupInv, NEW i \in Items, Retry(i)
  PROVE  Ledger!Reopen(i)
<1>1. attempts[i] \in Seq(AttemptStatus) /\ itemStatus[i] \in AttentionItem
  BY NewestRows DEF Retry
<1>2. attempts[i] = <<>> \/ attempts[i][Len(attempts[i])] \notin StoppableAttempt
  BY <1>1, NewestRows DEF AttentionItem, LiveAttempt
<1>3. LedgerEvidence(Append(attempts[i], "created")) = LedgerEvidence(attempts[i])
  BY <1>1, <1>2, AttemptAdded DEF StoppableAttempt
<1>4. \A j \in Items : LedgerEvidence(attempts'[j]) = LedgerEvidence(attempts[j])
  BY <1>3 DEF Retry, GroupInv, TypeInv, TypeOK
<1>5. \A j \in Items : itemStatus'[j] = IF j = i THEN "pending" ELSE itemStatus[j]
  BY DEF Retry, GroupInv, TypeInv, TypeOK
<1>6. LedgerWork(itemStatus[i]) = "attention" /\ LedgerWork("pending") = "open"
  BY <1>1 DEF LedgerWork, AttentionItem
<1>7. [j \in Items |-> LedgerWork(itemStatus'[j])]
        = [[j \in Items |-> LedgerWork(itemStatus[j])] EXCEPT ![i] = "open"]
  BY <1>5, <1>6
<1>8. [j \in Items |-> LedgerEvidence(attempts'[j])] = [j \in Items |-> LedgerEvidence(attempts[j])]
  BY <1>4
<1>9. QED BY <1>6, <1>7, <1>8 DEF Ledger!Reopen

LEMMA StopAbandons ==
  ASSUME GroupInv, GroupInv', Stop
  PROVE  Ledger!Abandon
<1>1. ASSUME NEW i \in Items
      PROVE  /\ LedgerWork(itemStatus'[i]) =
                  IF LedgerWork(itemStatus[i]) = "completed" THEN "completed" ELSE "attention"
             /\ \/ LedgerEvidence(attempts'[i]) = LedgerEvidence(attempts[i])
                \/ /\ LedgerWork(itemStatus[i]) \in {"open", "held"}
                   /\ LedgerEvidence(attempts'[i]) = Append(LedgerEvidence(attempts[i]), "cancelled")
  <2> DEFINE s == attempts[i]
             t == attempts'[i]
  <2>1. s \in Seq(AttemptStatus) /\ t \in Seq(AttemptStatus) /\ RowsAgree(i) /\ latest[i] = Len(s)
        /\ itemStatus[i] \in ItemStatus
    BY NewestRows DEF GroupInv, TypeInv, TypeOK
  <2>2. /\ Len(t) = Len(s)
        /\ \A n \in 1 .. Len(s) : t[n] = IF s[n] \in StoppableAttempt THEN "cancelled" ELSE s[n]
    BY <2>1 DEF Stop
  <2>3. \A n \in 1 .. Len(s) : n # Len(s) => t[n] = s[n]
    BY <2>1, <2>2 DEF RowsAgree, StoppableAttempt
  <2>4. LedgerWork(itemStatus'[i]) =
          IF LedgerWork(itemStatus[i]) = "completed" THEN "completed" ELSE "attention"
    BY <2>1 DEF Stop, LedgerWork, ItemStatus
  <2>5. CASE s # <<>> /\ s[Len(s)] \in StoppableAttempt
    <3>1. Len(s) \in 1 .. Len(s)
      BY <2>1, <2>5, EmptySeq
    <3>2. t[Len(s)] = "cancelled" /\ "cancelled" \notin StoppableAttempt
      BY <2>2, <2>5, <3>1 DEF StoppableAttempt, LiveAttempt
    <3>3. LedgerWork(itemStatus[i]) \in {"open", "held"}
      BY <2>5, NewestRows DEF LedgerWork, LiveAttempt
    <3> HIDE DEF s, t
    <3>4. LedgerEvidence(t) = Append(LedgerEvidence(s), "cancelled")
      BY <2>1, <2>2, <2>3, <2>5, <3>2, LastRewritten
    <3>5. QED BY <2>4, <3>3, <3>4 DEF s, t
  <2>6. CASE ~(s # <<>> /\ s[Len(s)] \in StoppableAttempt)
    <3>1. \A n \in 1 .. Len(s) : t[n] = s[n]
      BY <2>1, <2>2, <2>3, <2>6, EmptySeq
    <3> HIDE DEF s, t
    <3>2. t = s
      BY <2>1, <2>2, <3>1, SeqEqual
    <3>3. QED BY <2>4, <3>2 DEF s, t
  <2>7. QED BY <2>5, <2>6
<1>2. [i \in Items |-> LedgerWork(itemStatus'[i])]
        = [i \in Items |-> IF [j \in Items |-> LedgerWork(itemStatus[j])][i] = "completed"
                           THEN "completed" ELSE "attention"]
  BY <1>1
<1>3. QED BY <1>1, <1>2 DEF Ledger!Abandon

LEMMA StepLedger ==
  GroupInv /\ GroupInv' /\ ConcurrencyRespected' /\ [Next]_vars => [Ledger!Next]_(Ledger!vars)
<1>1. SUFFICES ASSUME GroupInv, GroupInv', ConcurrencyRespected', [Next]_vars
               PROVE  Ledger!Next \/ UNCHANGED Ledger!vars
  OBVIOUS
<1>2. CASE \E capacity \in 1 .. MaxConcurrency : Grant(capacity)
  BY <1>1, <1>2, GrantTakes DEF Ledger!Next
<1>3. CASE \E l \in Leases : Heartbeat(l)
  BY <1>1, <1>3, HeartbeatStutters
<1>4. CASE \E l \in Leases, result \in ResultStatus : RecordResult(l, result)
  BY <1>1, <1>4, ResultLetsGo DEF Ledger!Next
<1>5. CASE \E lead \in 0 .. MaxLead : RecoverStale(lead)
  BY <1>1, <1>5, RecoveryLetsGo DEF Ledger!Next
<1>6. CASE \E i \in Items : Retry(i)
  BY <1>1, <1>6, RetryReopens DEF Ledger!Next
<1>7. CASE Stop
  BY <1>1, <1>7, StopAbandons DEF Ledger!Next
<1>8. CASE UNCHANGED <<itemStatus, attempts>>
  BY <1>8, SameLedger DEF Stands, Learnt
<1>9. QED
  BY <1>1, <1>2, <1>3, <1>4, <1>5, <1>6, <1>7, <1>8
     DEF Next, vars, PreflightChecks, RecordPreflight, Pause, MakeAttemptDir, Tick

LEMMA InitLedger == Init => Ledger!Init
BY DEF Init, Ledger!Init, LedgerWork, LedgerEvidence

\* The store implements the ledger: every transaction on the rows of a group is
\* one step of the ledger, or none, for every set of items, of leases and every
\* concurrency limit.
THEOREM LedgerImplemented == Spec => ImplementsLedger
<1>1. Spec => [](GroupInv /\ ConcurrencyRespected)
  BY GroupAlways, ConcurrencyAlways, PTL
<1>2. QED BY <1>1, InitLedger, StepLedger, PTL DEF Spec, ImplementsLedger, Ledger!Spec
=============================================================================
