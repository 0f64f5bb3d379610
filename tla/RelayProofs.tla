------------------------------ MODULE RelayProofs ------------------------------
(***************************************************************************)
(* Proofs about one relay channel and the Desktop's queue, for any number  *)
(* of actions, messages, publishes, labels and faults: the queue loses and *)
(* repeats nothing (QueueSound), a message is forwarded once               *)
(* (ForwardedOnce), and a channel waits only for what can come             *)
(* (WaitingIsAnswerable).                                                  *)
(*                                                                         *)
(* None of them is inductive.  That a message is not forwarded again is    *)
(* due to the cursor of the mapping, the copy of it that a poll works      *)
(* with, and the place in the list it read (ForwardInv); that an answer    *)
(* can come, to the binding that a request carries through the queue while *)
(* only a close can take it from the channel (WaitInv).                    *)
(***************************************************************************)
EXTENDS Relay, SequenceTheorems, FiniteSetTheorems, TLAPS

Kinds == {"none", "prompt", "create", "readback", "note", "recover"}

Mapping == [binding : Nat, label : Nat, status : Status, seen : Nat, named : BOOLEAN]

Entry == [by : {"user", "relay", "codex"}, kind : UserKinds \cup {"reply"}]

Places == {"idle", "list", "bot", "rename", "renamed", "dispatch", "delete", "unmap",
           "desktop", "bind", "accept", "reply", "refuse", "seen"}

PollState ==
  [at : Places, snap : Mapping, todo : Seq(Nat), map : Mapping, act : Nat, label : Nat,
   reply : {"none", "plain", "note", "refusal"}, post : Nat, later : BOOLEAN]

ActionState == [msg : Nat, kind : Kinds, binding : Nat, delivered : BOOLEAN]

\* The variables' values.
TypeInv ==
  /\ log \in Seq(Entry) /\ open \in BOOLEAN /\ batched \in BOOLEAN
  /\ mapping \in Mapping /\ fresh \in Nat
  /\ poll \in PollState
  /\ action \in [Actions -> ActionState]
  /\ publish \in [Actions -> [at : {"none", "checked", "posted", "done"}, post : Nat]]
  /\ closer \in {"idle", "checked", "deleted", "done"}
  /\ excused \in SUBSET Nat

\* Actions are numbered as they are asked for, and end in that order.
QueueInv ==
  /\ asked \in Seq(Actions) /\ ended \in Seq(Actions)
  /\ snapshot \in Seq(Actions) /\ pending \in Seq(Actions)
  /\ \A n \in 1 .. Len(asked) : asked[n] = n
  /\ QueueSound

\* Cursors stay within the log, and a channel without a mapping is closed.
ChannelInv ==
  /\ mapping.binding < fresh
  /\ mapping.seen <= Len(log)
  /\ \A a \in Actions : publish[a].at = "posted" => publish[a].post <= Len(log)
  /\ ~Mapped => ~open
  /\ closer = "deleted" => ~open
  /\ At("unmap") => ~open

InList == poll.at \notin {"idle", "list"}

\* What the poll is at, where it is in its list, and the action it asked for.
PollInv ==
  /\ poll.snap.seen <= Len(log) /\ poll.post <= Len(log)
  /\ InList => poll.todo # <<>>
  /\ \A j \in 1 .. Len(poll.todo) : poll.todo[j] \in 1 .. Len(log)
  /\ \A i, j \in 1 .. Len(poll.todo) : i < j => poll.todo[i] < poll.todo[j]
  /\ InList /\ ~At("bot") => log[Message].by = "user"
  /\ At("bot") => poll.map = poll.snap
  /\ poll.at \in {"bot", "dispatch"} => poll.reply = "none"
  /\ poll.at \in {"idle", "list", "bot", "dispatch", "delete", "unmap"} => poll.act = 0
  /\ poll.at \in {"rename", "renamed"} /\ poll.reply = "none" => poll.act = 0
  /\ poll.at \in {"desktop", "bind", "accept"} => poll.act # 0
  /\ poll.act # 0 => poll.act \in Actions /\ poll.act <= Len(asked) /\ action[poll.act].msg = Message
  /\ poll.at \in {"refuse", "seen"} => poll.post >= Message
  /\ At("list") => ~poll.later

Forwarded(a) == action[a].kind \in {"prompt", "create"}

\* What was forwarded lies behind the cursors, unless the poll is at it or it is excused.
ForwardInv ==
  /\ \A a \in Actions : a > Len(asked) => action[a] = NoAction
  /\ \A a \in Actions : a <= Len(asked) => action[a].kind # "none"
  /\ \A a \in Actions : Forwarded(a) => action[a].msg \in Users
  /\ \A a \in Actions : Forwarded(a) /\ action[a].msg \notin excused =>
       /\ open => action[a].msg <= mapping.seen \/ poll.act = a
       /\ At("list") /\ open => action[a].msg <= poll.snap.seen
       /\ InList => action[a].msg < Message \/ poll.act = a
       /\ open /\ poll.act = a /\ poll.reply = "plain" => action[a].msg <= mapping.seen
  /\ \A a, b \in Actions : Forwarded(a) /\ Forwarded(b) /\ action[a].msg = action[b].msg
       /\ action[a].msg \notin excused => a = b

\* Nobody but the poll gives the channel another binding, but a close takes it.
Unchanged(binding) == mapping.binding \in {0, binding}

WaitInv ==
  /\ \A a \in Actions : action[a].delivered => a <= Len(ended)
  /\ At("list") => Unchanged(poll.snap.binding)
  /\ ~poll.later /\ (poll.at \in {"bot", "dispatch"} \/ (poll.at \in {"rename", "renamed"} /\ poll.reply = "none"))
       => Unchanged(poll.map.binding)
  /\ ~batched /\ poll.act # 0 => ~poll.later
  /\ ~batched /\ poll.at \in {"desktop", "bind", "accept"} /\ action[poll.act].kind \notin {"readback", "recover"}
       => Unchanged(action[poll.act].binding)
  /\ At("bind") => action[poll.act].kind # "recover"
  /\ At("accept") => action[poll.act].kind \notin {"readback", "recover"}
  /\ At("accept") \/ (At("bind") /\ action[poll.act].kind # "readback") => action[poll.act].delivered
  /\ WaitingIsAnswerable

RelayInv == TypeInv /\ QueueInv /\ ChannelInv /\ PollInv /\ ForwardInv /\ WaitInv

-----------------------------------------------------------------------------
(* The queue.                                                                *)

LEMMA FirstMoves ==
  ASSUME NEW S, NEW e \in Seq(S), NEW s \in Seq(S), s # <<>>
  PROVE  /\ Append(e, Head(s)) \o Tail(s) = e \o s
         /\ Append(e, Head(s)) \in Seq(S) /\ Tail(s) \in Seq(S) /\ Head(s) \in S
<1>1. Head(s) \in S /\ Tail(s) \in Seq(S) /\ Append(e, Head(s)) \in Seq(S)
  BY HeadTailProperties, AppendProperties
<1>2. Append(e, Head(s)) = e \o <<Head(s)>> /\ <<Head(s)>> \in Seq(S)
  BY <1>1, AppendIsConcat
<1>3. <<Head(s)>> \o Tail(s) = s
  <2>1. 1 \in 1 .. Len(s) /\ Len(s) \in 1 .. Len(s) /\ Len(s) \in Nat
    BY EmptySeq, LenProperties
  <2>2. SubSeq(s, 1, Len(s)) = <<s[1]>> \o SubSeq(s, 1 + 1, Len(s))
    BY <2>1, SubSeqRecursiveFirst
  <2>3. SubSeq(s, 1, Len(s)) = s /\ Tail(s) = SubSeq(s, 2, Len(s)) /\ Head(s) = s[1]
    BY SubSeqFull, TailIsSubSeq
  <2>4. QED BY <2>2, <2>3
<1>4. (e \o <<Head(s)>>) \o Tail(s) = e \o (<<Head(s)>> \o Tail(s))
  BY <1>1, <1>2, ConcatAssociative
<1>5. QED BY <1>1, <1>2, <1>3, <1>4

LEMMA LastAdded ==
  ASSUME NEW S, NEW s \in Seq(S), NEW p \in Seq(S), NEW a \in S
  PROVE  s \o Append(p, a) = Append(s \o p, a)
<1>1. Append(p, a) = p \o <<a>> /\ <<a>> \in Seq(S) /\ s \o p \in Seq(S)
  BY AppendIsConcat, ConcatProperties
<1>2. Append(s \o p, a) = (s \o p) \o <<a>>
  BY <1>1, AppendIsConcat
<1>3. (s \o p) \o <<a>> = s \o (p \o <<a>>)
  BY <1>1, ConcatAssociative
<1>4. QED BY <1>1, <1>2, <1>3

LEMMA QueueStays == QueueInv /\ UNCHANGED queueVars => QueueInv'
BY DEF QueueInv, queueVars, QueueSound

\* Whatever the gate makes of what waits, none of it is lost.
LEMMA GateOpens ==
  ASSUME NEW waiting \in Seq(Actions), NEW done \in Seq(Actions),
         EnsureGate(waiting) \/ (waiting # <<>> /\ Release(waiting))
  PROVE  /\ snapshot' \in Seq(Actions) /\ pending' \in Seq(Actions)
         /\ done \o snapshot' \o pending' = done \o waiting
         /\ gate' \in GateStatus
         /\ gate' = "idle" => pending' = <<>> /\ snapshot' = <<>>
         /\ gate' \in {"countdown", "held"} => pending' # <<>> /\ snapshot' = <<>>
         /\ gate' = "executing" <=> snapshot' # <<>>
<1>1. <<>> \in Seq(Actions) /\ done \o <<>> = done /\ done \o waiting \in Seq(Actions)
  BY EmptySeq, ConcatEmptySeq, ConcatProperties
<1>2. (done \o waiting) \o <<>> = done \o waiting
  BY <1>1, ConcatEmptySeq
<1>3. CASE waiting # <<>> /\ Release(waiting)
  BY <1>1, <1>2, <1>3 DEF Release, GateStatus
<1>4. CASE gate' = "countdown" /\ pending' = waiting /\ snapshot' = <<>> /\ waiting # <<>>
  BY <1>1, <1>4 DEF GateStatus
<1>5. CASE gate' = "idle" /\ pending' = waiting /\ snapshot' = <<>> /\ waiting = <<>>
  BY <1>1, <1>5 DEF GateStatus
<1>6. QED BY <1>3, <1>4, <1>5 DEF EnsureGate

LEMMA QueueSteps == QueueInv /\ (CountdownEnds \/ AllowNow \/ Wait) => QueueInv'
<1> SUFFICES ASSUME QueueInv, CountdownEnds \/ AllowNow \/ Wait PROVE QueueInv'
  OBVIOUS
<1>1. asked' = asked /\ ended' = ended
  BY DEF CountdownEnds, AllowNow, Wait
<1>2. CASE Wait
  BY <1>2 DEF Wait, QueueInv, QueueSound, GateStatus
<1>3. CASE CountdownEnds \/ AllowNow
  <2>1. pending # <<>> /\ snapshot = <<>> /\ Release(pending)
    BY <1>3 DEF CountdownEnds, AllowNow, QueueInv, QueueSound
  <2>2. ended \o snapshot = ended
    BY <2>1, ConcatEmptySeq DEF QueueInv
  <2>3. QED BY <1>1, <2>1, <2>2, GateOpens DEF QueueInv, QueueSound
<1>4. QED BY <1>2, <1>3

\* A new action takes the next number.
LEMMA EnqueueStep ==
  ASSUME QueueInv, NEW a \in Actions, a = Len(asked) + 1, Enqueue(a)
  PROVE  QueueInv' /\ Len(asked') = Len(asked) + 1 /\ ended' = ended /\ Len(asked) \in Nat
<1>1. /\ asked' = Append(asked, a) /\ ended' = ended /\ asked' \in Seq(Actions)
      /\ Len(asked') = Len(asked) + 1 /\ Len(asked) \in Nat
      /\ asked'[Len(asked) + 1] = a
      /\ \A n \in 1 .. Len(asked) : asked'[n] = asked[n]
  BY AppendProperties, LenProperties DEF QueueInv, Enqueue
<1>2. \A n \in 1 .. Len(asked') : asked'[n] = n
  BY <1>1 DEF QueueInv
<1>3. Append(pending, a) \in Seq(Actions) /\ ended \o snapshot \in Seq(Actions)
  BY AppendProperties, ConcatProperties DEF QueueInv
<1>4. (ended \o snapshot) \o Append(pending, a) = asked'
  <2>1. PICK front \in Seq(Actions) : front = ended \o snapshot
    BY <1>3
  <2>2. front \o Append(pending, a) = Append(front \o pending, a)
    BY LastAdded DEF QueueInv
  <2>3. front \o pending = asked
    BY <2>1 DEF QueueInv, QueueSound
  <2>4. QED BY <1>1, <2>1, <2>2, <2>3
<1>5. CASE gate = "idle"
  <2>1. EnsureGate(Append(pending, a)) /\ snapshot = <<>> /\ ended \o snapshot = ended
    BY <1>5, ConcatEmptySeq DEF Enqueue, QueueInv, QueueSound
  <2>2. PICK waiting \in Seq(Actions) : waiting = Append(pending, a)
    BY <1>3
  <2>3. EnsureGate(waiting) /\ ended \o waiting = asked' /\ ended \in Seq(Actions)
    BY <1>4, <2>1, <2>2 DEF QueueInv
  <2>4. /\ snapshot' \in Seq(Actions) /\ pending' \in Seq(Actions)
        /\ ended \o snapshot' \o pending' = asked'
        /\ gate' \in GateStatus
        /\ gate' = "idle" => pending' = <<>> /\ snapshot' = <<>>
        /\ gate' \in {"countdown", "held"} => pending' # <<>> /\ snapshot' = <<>>
        /\ gate' = "executing" <=> snapshot' # <<>>
    BY <2>3, GateOpens
  <2>5. QueueInv'
    BY <1>1, <1>2, <2>3, <2>4 DEF QueueInv, QueueSound, GateStatus
  <2>6. QED BY <1>1, <2>5
<1>6. CASE gate # "idle"
  <2>1. pending' = Append(pending, a) /\ UNCHANGED <<gate, snapshot>>
    BY <1>6 DEF Enqueue
  <2>2. pending' # <<>>
    BY <2>1, AppendProperties DEF QueueInv
  <2>3. QED BY <1>1, <1>2, <1>3, <1>4, <1>6, <2>1, <2>2 DEF QueueInv, QueueSound
<1>7. QED
  <2>1. QueueInv'
    BY <1>5, <1>6
  <2>2. QED BY <1>1, <2>1

\* The actions end one by one, in the order of their numbers.
LEMMA EndStep ==
  ASSUME QueueInv, NEW a \in Actions, End(a)
  PROVE  /\ QueueInv' /\ asked' = asked
         /\ a = Len(ended) + 1 /\ Len(ended') = Len(ended) + 1 /\ a <= Len(asked)
         /\ Len(ended) \in Nat
<1>1. /\ snapshot # <<>> /\ Head(snapshot) = a /\ asked' = asked
      /\ ended' = Append(ended, a) /\ ended' \in Seq(Actions)
      /\ Len(ended') = Len(ended) + 1 /\ Len(ended) \in Nat
      /\ ended' \o Tail(snapshot) = ended \o snapshot /\ Tail(snapshot) \in Seq(Actions)
  BY AppendProperties, LenProperties, FirstMoves DEF QueueInv, End
<1>2. a = Len(ended) + 1 /\ a <= Len(asked)
  <2> DEFINE front == ended \o snapshot
  <2>1. /\ front \in Seq(Actions) /\ Len(front) = Len(ended) + Len(snapshot)
        /\ Len(snapshot) \in Nat \ {0} /\ Len(pending) \in Nat
        /\ front[Len(ended) + 1] = snapshot[1]
    BY <1>1, ConcatProperties, EmptySeq, LenProperties DEF QueueInv
  <2> HIDE DEF front
  <2>2. /\ front \o pending = asked /\ Len(asked) = Len(front) + Len(pending)
        /\ asked[Len(ended) + 1] = front[Len(ended) + 1]
    <3>1. front \o pending = asked
      BY DEF front, QueueInv, QueueSound
    <3>2. /\ Len(front \o pending) = Len(front) + Len(pending)
          /\ \A i \in 1 .. Len(front) + Len(pending) :
               (front \o pending)[i] = IF i <= Len(front) THEN front[i] ELSE pending[i - Len(front)]
      BY <2>1, ConcatProperties DEF QueueInv
    <3>3. QED BY <1>1, <2>1, <3>1, <3>2
  <2>3. Head(snapshot) = snapshot[1] /\ Len(ended) + 1 \in 1 .. Len(asked)
    BY <1>1, <2>1, <2>2
  <2>4. QED BY <1>1, <2>1, <2>2, <2>3 DEF QueueInv
<1>3. QueueInv'
  <2>1. CASE Tail(snapshot) = <<>>
    <3>1. EnsureGate(pending) /\ ended' = ended \o snapshot
      BY <1>1, <2>1, ConcatEmptySeq DEF End
    <3>2. QED BY <1>1, <3>1, GateOpens DEF QueueInv, QueueSound
  <2>2. CASE Tail(snapshot) # <<>>
    <3>1. snapshot' = Tail(snapshot) /\ UNCHANGED <<gate, pending>> /\ gate = "executing"
      BY <1>1, <2>2 DEF End, QueueInv, QueueSound
    <3>2. QED BY <1>1, <2>2, <3>1 DEF QueueInv, QueueSound
  <2>3. QED BY <2>1, <2>2
<1>4. QED BY <1>1, <1>2, <1>3

-----------------------------------------------------------------------------
(* The log and the list.                                                     *)

LEMMA Grows ==
  ASSUME TypeInv, NEW e \in Entry, log' = Append(log, e)
  PROVE  /\ log' \in Seq(Entry) /\ Len(log) \in Nat /\ Len(log') = Len(log) + 1
         /\ \A k \in 1 .. Len(log) : log'[k] = log[k]
         /\ Users \subseteq Users' /\ Users \in SUBSET Nat
<1>1. /\ log' \in Seq(Entry) /\ Len(log) \in Nat /\ Len(log') = Len(log) + 1
      /\ \A k \in 1 .. Len(log) : log'[k] = log[k]
  BY AppendProperties, LenProperties DEF TypeInv
<1>2. QED BY <1>1 DEF Users

\* The message at hand is one of the log, and the first of the list.
LEMMA AtHand ==
  ASSUME TypeInv, PollInv, InList
  PROVE  /\ Message \in 1 .. Len(log) /\ Len(log) \in Nat /\ Len(poll.todo) \in Nat \ {0}
         /\ Message = poll.todo[1] /\ poll.todo \in Seq(Nat) /\ poll.todo # <<>>
<1>1. poll.todo \in Seq(Nat) /\ poll.todo # <<>>
  BY DEF TypeInv, PollState, PollInv
<1>2. Len(log) \in Nat /\ Len(poll.todo) \in Nat /\ Len(poll.todo) # 0
  BY <1>1, EmptySeq, LenProperties DEF TypeInv
<1>3. Head(poll.todo) = poll.todo[1]
  BY <1>1
<1>4. poll.todo[1] \in 1 .. Len(log)
  BY <1>2 DEF PollInv
<1>5. QED BY <1>1, <1>2, <1>3, <1>4 DEF Message

-----------------------------------------------------------------------------
(* The users, Codex and the operator.                                        *)

\* Whoever writes: the log grows, and no poll is disturbed by it.
LEMMA LogStep ==
  ASSUME RelayInv,
         log' = log \/ \E e \in Entry : log' = Append(log, e),
         UNCHANGED <<queueVars, open, mapping, fresh, poll, action, closer, excused, batched>>,
         publish' \in [Actions -> [at : {"none", "checked", "posted", "done"}, post : Nat]],
         \A a \in Actions : publish'[a].at = "posted" => publish'[a].post <= Len(log')
  PROVE  RelayInv'
<1>1. /\ log' \in Seq(Entry) /\ Len(log) \in Nat /\ Len(log') \in Nat /\ Len(log') >= Len(log)
      /\ \A k \in 1 .. Len(log) : log'[k] = log[k]
      /\ Users \subseteq Users'
  <2>1. CASE log' = log
    BY <2>1, LenProperties DEF RelayInv, TypeInv, Users
  <2>2. CASE \E e \in Entry : log' = Append(log, e)
    BY <2>2, Grows DEF RelayInv
  <2>3. QED BY <2>1, <2>2
<1>2. QueueInv' /\ UNCHANGED <<asked, ended>>
  BY QueueStays DEF RelayInv, queueVars
<1>3. TypeInv'
  BY <1>1 DEF RelayInv, TypeInv
<1>4. ChannelInv'
  <2>1. mapping.seen \in Nat
    BY DEF RelayInv, TypeInv, Mapping
  <2>2. QED BY <1>1, <2>1 DEF RelayInv, ChannelInv, Mapped, At
<1>5. PollInv'
  <2>1. poll.snap.seen \in Nat /\ poll.post \in Nat /\ Message' = Message
    BY DEF RelayInv, TypeInv, PollState, Mapping, Message
  <2>2. InList => Message \in 1 .. Len(log)
    BY AtHand DEF RelayInv
  <2>3. QED BY <1>1, <1>2, <2>1, <2>2 DEF RelayInv, PollInv, InList, At
<1>6. ForwardInv'
  BY <1>1, <1>2 DEF RelayInv, ForwardInv, Forwarded, InList, At, Message
<1>7. WaitInv'
  BY <1>2 DEF RelayInv, WaitInv, Unchanged, At, WaitingIsAnswerable, Waiting, Mapped
<1>8. QED BY <1>2, <1>3, <1>4, <1>5, <1>6, <1>7 DEF RelayInv

LEMMA SaySteps == \A kind \in UserKinds : RelayInv /\ Say(kind) => RelayInv'
<1> SUFFICES ASSUME NEW kind \in UserKinds, RelayInv, Say(kind) PROVE RelayInv'
  OBVIOUS
<1>1. [by |-> "user", kind |-> kind] \in Entry
  BY DEF Entry
<1>2. Len(log) \in Nat /\ Len(log') = Len(log) + 1 /\ log' = Append(log, [by |-> "user", kind |-> kind])
  BY <1>1, Grows DEF RelayInv, Say
<1>3. \A a \in Actions : publish'[a].at = "posted" => publish'[a].post <= Len(log')
  BY <1>2 DEF RelayInv, ChannelInv, TypeInv, Say
<1>4. QED BY <1>1, <1>2, <1>3, LogStep DEF Say, RelayInv, TypeInv

LEMMA PublishSteps ==
  \A a \in Actions : RelayInv /\ (CheckPublish(a) \/ PostPublished(a)) => RelayInv'
<1> SUFFICES ASSUME NEW a \in Actions, RelayInv, CheckPublish(a) \/ PostPublished(a) PROVE RelayInv'
  OBVIOUS
<1>1. /\ publish \in [Actions -> [at : {"none", "checked", "posted", "done"}, post : Nat]]
      /\ \A b \in Actions : publish[b].at = "posted" => publish[b].post <= Len(log)
      /\ Len(log) \in Nat
  BY LenProperties DEF RelayInv, TypeInv, ChannelInv
<1>2. CASE CheckPublish(a)
  <2>1. PICK place \in {"checked", "done"} : publish' = [publish EXCEPT ![a].at = place]
    BY <1>2 DEF CheckPublish
  <2>2. publish' \in [Actions -> [at : {"none", "checked", "posted", "done"}, post : Nat]]
    BY <1>1, <2>1
  <2>3. log' = log /\ \A b \in Actions : publish'[b].at = "posted" => publish'[b].post <= Len(log')
    BY <1>1, <1>2, <2>1 DEF CheckPublish
  <2>4. QED BY <1>2, <2>2, <2>3, LogStep DEF CheckPublish
<1>3. CASE PostPublished(a)
  <2>1. CASE open
    <3>1. PICK e \in Entry : log' = Append(log, e)
      BY <1>3, <2>1 DEF PostPublished, Entry
    <3>2. publish' = [publish EXCEPT ![a] = [at |-> "posted", post |-> Len(log) + 1]]
      BY <1>3, <2>1 DEF PostPublished
    <3>3. Len(log') = Len(log) + 1
      BY <3>1, Grows DEF RelayInv
    <3>4. publish' \in [Actions -> [at : {"none", "checked", "posted", "done"}, post : Nat]]
      BY <1>1, <3>2
    <3>5. \A b \in Actions : publish'[b].at = "posted" => publish'[b].post <= Len(log')
      BY <1>1, <3>2, <3>3
    <3>6. QED BY <1>3, <3>1, <3>4, <3>5, LogStep DEF PostPublished
  <2>2. CASE ~open
    <3>1. publish' = [publish EXCEPT ![a].at = "done"] /\ log' = log
      BY <1>3, <2>2 DEF PostPublished
    <3>2. publish' \in [Actions -> [at : {"none", "checked", "posted", "done"}, post : Nat]]
      BY <1>1, <3>1
    <3>3. \A b \in Actions : publish'[b].at = "posted" => publish'[b].post <= Len(log')
      BY <1>1, <3>1
    <3>4. QED BY <1>3, <3>1, <3>2, <3>3, LogStep DEF PostPublished
  <2>3. QED BY <2>1, <2>2
<1>4. QED BY <1>2, <1>3

\* A record that comes late moves the cursor back, and excuses what it passes.
LEMMA MarkPublishedSteps == \A a \in Actions : RelayInv /\ MarkPublished(a) => RelayInv'
<1> SUFFICES ASSUME NEW a \in Actions, RelayInv, MarkPublished(a) PROVE RelayInv'
  OBVIOUS
<1>1. /\ publish' = [publish EXCEPT ![a] = [at |-> "done", post |-> 0]]
      /\ UNCHANGED <<queueVars, log, open, fresh, poll, action, closer, faults, batched>>
      /\ publish[a].at = "posted"
  BY DEF MarkPublished
<1>2. CASE ~StillBound(a)
  <2>1. UNCHANGED <<mapping, excused>>
    BY <1>2 DEF MarkPublished
  <2>2. /\ publish' \in [Actions -> [at : {"none", "checked", "posted", "done"}, post : Nat]]
        /\ \A b \in Actions : publish'[b].at = "posted" => publish'[b].post <= Len(log')
    BY <1>1 DEF RelayInv, TypeInv, ChannelInv
  <2>3. QED BY <1>1, <2>1, <2>2, LogStep
<1>3. CASE StillBound(a)
  <2>1. /\ mapping' = [mapping EXCEPT !.status = "ready", !.seen = publish[a].post]
        /\ excused' = excused \cup {k \in Users : publish[a].post < k /\ k <= mapping.seen}
    BY <1>3 DEF MarkPublished
  <2>2. mapping \in Mapping /\ publish[a].post \in Nat /\ publish[a].post <= Len(log)
    BY <1>1 DEF RelayInv, TypeInv, ChannelInv
  <2>3. /\ mapping' \in Mapping /\ mapping'.binding = mapping.binding
        /\ mapping'.status = "ready" /\ mapping'.seen = publish[a].post
    BY <2>1, <2>2 DEF Mapping, Status
  <2>4. QueueInv' /\ UNCHANGED <<asked, ended>>
    BY <1>1, QueueStays DEF RelayInv, queueVars
  <2>5. Users \in SUBSET Nat
    BY LenProperties DEF Users, RelayInv, TypeInv
  <2>6. TypeInv'
    BY <1>1, <2>1, <2>3, <2>5 DEF RelayInv, TypeInv
  <2>7. ChannelInv'
    BY <1>1, <2>2, <2>3 DEF RelayInv, ChannelInv, TypeInv, Mapped, At
  <2>8. PollInv'
    BY <1>1, <2>4 DEF RelayInv, PollInv, InList, At, Message
  <2>9. ForwardInv'
    <3>1. \A b \in Actions : Forwarded(b) /\ action[b].msg \notin excused' =>
            /\ action[b].msg \notin excused /\ action[b].msg \in Nat
            /\ action[b].msg <= mapping.seen => action[b].msg <= mapping'.seen
      <4> SUFFICES ASSUME NEW b \in Actions, Forwarded(b), action[b].msg \notin excused'
                   PROVE  /\ action[b].msg \notin excused /\ action[b].msg \in Nat
                          /\ action[b].msg <= mapping.seen => action[b].msg <= mapping'.seen
        OBVIOUS
      <4>1. action[b].msg \in Users /\ action[b].msg \in Nat
        BY <2>5 DEF RelayInv, ForwardInv
      <4>2. QED BY <2>1, <2>2, <2>3, <4>1
    <3>2. QED BY <1>1, <2>1, <2>4, <3>1 DEF RelayInv, ForwardInv, Forwarded, InList, At, Message, Users
  <2>10. WaitInv'
    BY <1>1, <2>3, <2>4 DEF RelayInv, WaitInv, Unchanged, At, WaitingIsAnswerable, Waiting, Mapped
  <2>11. QED BY <2>4, <2>6, <2>7, <2>8, <2>9, <2>10 DEF RelayInv
<1>4. QED BY <1>2, <1>3

LEMMA NoMappingTyped == NoMapping \in Mapping
BY DEF NoMapping, Mapping, Status

\* The operator's close takes the channel before its mapping.
LEMMA CloseSteps ==
  RelayInv /\ ((\E force \in BOOLEAN : CloseChecks(force)) \/ CloseDeletes \/ CloseUnmaps) => RelayInv'
<1> SUFFICES ASSUME RelayInv, (\E force \in BOOLEAN : CloseChecks(force)) \/ CloseDeletes \/ CloseUnmaps
             PROVE  RelayInv'
  OBVIOUS
<1>1. /\ UNCHANGED <<queueVars, log, fresh, poll, action, publish, faults, excused, batched>>
      /\ \/ UNCHANGED <<mapping, open>> /\ closer' = "checked"
         \/ mapping' = mapping /\ open' = FALSE /\ closer' = "deleted"
         \/ mapping' = NoMapping /\ open' = open /\ ~open /\ closer' = "done"
  BY DEF CloseChecks, CloseDeletes, CloseUnmaps, RelayInv, ChannelInv
<1>2. QueueInv' /\ UNCHANGED <<asked, ended>>
  BY <1>1, QueueStays DEF RelayInv, queueVars
<1>3. mapping \in Mapping /\ fresh \in Nat /\ fresh > 0
  BY DEF RelayInv, TypeInv, ChannelInv, Mapping
<1>4. TypeInv'
  BY <1>1, <1>3, NoMappingTyped DEF RelayInv, TypeInv
<1>5. ChannelInv'
  BY <1>1, <1>3 DEF RelayInv, ChannelInv, TypeInv, Mapped, At, NoMapping
<1>6. PollInv'
  BY <1>1, <1>2 DEF RelayInv, PollInv, InList, At, Message
<1>7. ForwardInv'
  BY <1>1, <1>2 DEF RelayInv, ForwardInv, Forwarded, InList, At, Message, Users
<1>8. WaitInv'
  BY <1>1, <1>2 DEF RelayInv, WaitInv, Unchanged, At, WaitingIsAnswerable, Waiting, Mapped, NoMapping
<1>9. QED BY <1>2, <1>4, <1>5, <1>6, <1>7, <1>8 DEF RelayInv

LEMMA GateSteps == RelayInv /\ QueueStep => RelayInv'
<1> SUFFICES ASSUME RelayInv, QueueStep PROVE RelayInv'
  OBVIOUS
<1>1. QueueInv' /\ UNCHANGED <<asked, ended, relayVars>>
  BY QueueSteps DEF RelayInv, QueueStep, CountdownEnds, AllowNow, Wait
<1>2. TypeInv' /\ ChannelInv'
  BY <1>1 DEF RelayInv, relayVars, TypeInv, ChannelInv, Mapped, At
<1>3. PollInv' /\ ForwardInv'
  BY <1>1 DEF RelayInv, relayVars, PollInv, InList, At, Message, ForwardInv, Forwarded, Users
<1>4. WaitInv'
  BY <1>1 DEF RelayInv, relayVars, WaitInv, Unchanged, At, WaitingIsAnswerable, Waiting, Mapped
<1>5. QED BY <1>1, <1>2, <1>3, <1>4 DEF RelayInv

-----------------------------------------------------------------------------
(* A poll starts, reads its list, and goes from one message to the next.     *)

LEMMA NoPollFields ==
  /\ NoPoll \in PollState
  /\ NoPoll.at = "idle" /\ NoPoll.snap = NoMapping /\ NoPoll.map = NoMapping /\ NoPoll.todo = <<>>
  /\ NoPoll.act = 0 /\ NoPoll.label = 0 /\ NoPoll.reply = "none" /\ NoPoll.post = 0 /\ NoPoll.later = FALSE
  /\ NoMapping.seen = 0 /\ NoMapping.binding = 0
<1>1. <<>> \in Seq(Nat) /\ NoMapping \in Mapping
  BY EmptySeq, NoMappingTyped
<1>2. QED BY <1>1 DEF NoPoll, PollState, Places, NoMapping

\* What was asked for and not accepted is excused when a poll dies.
LEMMA EndPoll ==
  ASSUME RelayInv, poll' = NoPoll, excused' \in SUBSET Nat, excused \subseteq excused',
         UNCHANGED <<queueVars, log, open, mapping, fresh, action, batched>>,
         publish' \in [Actions -> [at : {"none", "checked", "posted", "done"}, post : Nat]],
         \A a \in Actions : publish'[a].at = "posted" => publish'[a].post <= Len(log),
         closer' \in {"idle", "checked", "deleted", "done"}, closer' = "deleted" => ~open,
         poll.act # 0 /\ poll.reply # "plain" => Message \in excused'
  PROVE  RelayInv'
<1>1. QueueInv' /\ UNCHANGED <<asked, ended>>
  BY QueueStays DEF RelayInv, queueVars
<1>2. /\ poll' \in PollState
      /\ poll'.at = "idle" /\ poll'.todo = <<>> /\ poll'.act = 0 /\ poll'.post = 0
      /\ poll'.later = FALSE /\ poll'.snap.seen = 0 /\ poll'.reply = "none"
  BY NoPollFields
<1>3. TypeInv'
  BY <1>2 DEF RelayInv, TypeInv
<1>4. ChannelInv'
  BY <1>2 DEF RelayInv, ChannelInv, Mapped, At
<1>5. PollInv'
  <2>1. Len(log') \in Nat /\ Len(poll'.todo) = 0
    BY <1>2, <1>3, LenProperties, EmptySeq DEF TypeInv
  <2>2. QED BY <1>1, <1>2, <2>1 DEF PollInv, InList, At
<1>6. ForwardInv'
  <2>1. ASSUME NEW a \in Actions, Forwarded(a), action[a].msg \notin excused', open
        PROVE  action[a].msg <= mapping.seen
    <3>1. action[a].msg \notin excused /\ a # 0
      BY <2>1, QueueAssumption
    <3>2. CASE poll.act # a
      BY <2>1, <3>1, <3>2 DEF RelayInv, ForwardInv
    <3>3. CASE poll.act = a
      <4>1. action[a].msg = Message
        BY <3>1, <3>3 DEF RelayInv, PollInv
      <4>2. poll.reply = "plain"
        BY <2>1, <3>1, <3>3, <4>1
      <4>3. QED BY <2>1, <3>1, <3>3, <4>2 DEF RelayInv, ForwardInv
    <3>4. QED BY <3>2, <3>3
  <2>2. QED BY <1>1, <1>2, <2>1, QueueAssumption DEF RelayInv, ForwardInv, Forwarded, InList, At, Message, Users
<1>7. WaitInv'
  BY <1>1, <1>2 DEF RelayInv, WaitInv, Unchanged, At, WaitingIsAnswerable, Waiting, Mapped
<1>8. QED BY <1>1, <1>3, <1>4, <1>5, <1>6, <1>7 DEF RelayInv

LEMMA FailureSteps == RelayInv /\ (PollFails \/ Restart) => RelayInv'
<1> SUFFICES ASSUME RelayInv, PollFails \/ Restart PROVE RelayInv'
  OBVIOUS
<1>1. poll.act # 0 => ~At("idle") /\ Message \in Nat
  <2>1. poll.act # 0 => InList /\ ~At("idle")
    BY DEF RelayInv, PollInv, InList, At
  <2>2. QED BY <2>1, AtHand DEF RelayInv
<1>2. HalfForwarded \in SUBSET Nat /\ excused \subseteq HalfForwarded /\ excused \in SUBSET Nat
  BY <1>1 DEF HalfForwarded, RelayInv, TypeInv
<1>3. poll.act # 0 /\ poll.reply # "plain" => Message \in HalfForwarded
  BY DEF HalfForwarded
<1>4. /\ publish \in [Actions -> [at : {"none", "checked", "posted", "done"}, post : Nat]]
      /\ \A a \in Actions : publish[a].at = "posted" => publish[a].post <= Len(log)
      /\ closer \in {"idle", "checked", "deleted", "done"} /\ (closer = "deleted" => ~open)
  BY DEF RelayInv, TypeInv, ChannelInv
<1>5. CASE PollFails
  <2>1. /\ poll' = NoPoll /\ excused' = HalfForwarded
        /\ UNCHANGED <<queueVars, log, open, mapping, fresh, action, publish, closer, batched>>
    BY <1>5 DEF PollFails
  <2>2. QED BY <1>2, <1>3, <1>4, <2>1, EndPoll
<1>6. CASE Restart
  <2>1. /\ poll' = NoPoll /\ excused' = IF At("idle") THEN excused ELSE HalfForwarded
        /\ UNCHANGED <<queueVars, log, open, mapping, fresh, action, batched>>
        /\ closer' \in {"idle", "done"}
        /\ publish' = [a \in Actions |->
             IF publish[a].at \in {"checked", "posted"} THEN [at |-> "done", post |-> 0] ELSE publish[a]]
    BY <1>6 DEF Restart
  <2>2. /\ publish' \in [Actions -> [at : {"none", "checked", "posted", "done"}, post : Nat]]
        /\ \A a \in Actions : publish'[a].at = "posted" => publish'[a].post <= Len(log)
    BY <1>4, <2>1
  <2>3. excused' \in SUBSET Nat /\ excused \subseteq excused' /\ (poll.act # 0 /\ poll.reply # "plain" => Message \in excused')
    BY <1>1, <1>2, <1>3, <2>1
  <2>4. QED BY <2>1, <2>2, <2>3, EndPoll
<1>7. QED BY <1>5, <1>6

LEMMA BeginMakes ==
  ASSUME TypeInv, NEW todo \in Seq(Nat), NEW later \in BOOLEAN, Begin(todo, later)
  PROVE  /\ poll' \in PollState
         /\ \/ poll' = NoPoll
            \/ /\ poll'.at \in {"bot", "rename", "dispatch"} /\ poll'.todo = todo /\ todo # <<>>
               /\ poll'.at # "bot" => log[Head(todo)].by = "user"
               /\ poll'.snap = poll.snap /\ poll'.map = poll.snap /\ poll'.later = later
               /\ poll'.act = 0 /\ poll'.reply = "none" /\ poll'.post = 0
<1>1. CASE todo = <<>>
  BY <1>1, NoPollFields DEF Begin
<1>2. CASE todo # <<>>
  <2>1. PICK place \in {"bot", "rename", "dispatch"} :
          /\ place # "bot" => log[Head(todo)].by = "user"
          /\ poll' = [NoPoll EXCEPT !.snap = poll.snap, !.map = poll.snap, !.todo = todo, !.later = later,
                        !.at = place]
    <3>1. CASE log[Head(todo)].by # "user"
      BY <1>2, <3>1 DEF Begin
    <3>2. CASE log[Head(todo)].by = "user" /\ poll.snap.label # 0 /\ ~poll.snap.named
      BY <1>2, <3>2 DEF Begin
    <3>3. CASE log[Head(todo)].by = "user" /\ ~(poll.snap.label # 0 /\ ~poll.snap.named)
      BY <1>2, <3>3 DEF Begin
    <3>4. QED BY <3>1, <3>2, <3>3
  <2>2. poll.snap \in Mapping
    BY DEF TypeInv, PollState
  <2>3. /\ poll' \in PollState /\ poll'.at = place /\ poll'.todo = todo /\ poll'.snap = poll.snap
        /\ poll'.map = poll.snap /\ poll'.later = later /\ poll'.act = 0 /\ poll'.reply = "none"
        /\ poll'.post = 0
    BY <2>1, <2>2, NoPollFields DEF NoPoll, PollState, Places
  <2>4. QED BY <1>2, <2>1, <2>3
<1>3. QED BY <1>1, <1>2

\* All that was forwarded is behind the cursor and the message the poll begins with.
LEMMA BeginStep ==
  ASSUME RelayInv, NEW todo \in Seq(Nat), NEW later \in BOOLEAN, Begin(todo, later),
         UNCHANGED <<queueVars, log, open, fresh, action, publish, closer, excused, batched>>,
         \A j \in 1 .. Len(todo) : todo[j] \in 1 .. Len(log),
         \A i, j \in 1 .. Len(todo) : i < j => todo[i] < todo[j],
         mapping' \in Mapping, mapping'.seen <= Len(log),
         mapping'.status \in {mapping.status, "ready"},
         mapping'.binding = mapping.binding \/ (mapping'.binding = 0 /\ ~open),
         \A a \in Actions : Forwarded(a) /\ action[a].msg \notin excused =>
           /\ open => action[a].msg <= mapping'.seen
           /\ todo # <<>> => action[a].msg < Head(todo),
         todo # <<>> /\ ~later => mapping'.binding \in {0, poll.snap.binding}
  PROVE  RelayInv'
<1>1. QueueInv' /\ UNCHANGED <<asked, ended>>
  BY QueueStays DEF RelayInv, queueVars
<1>2. /\ poll' \in PollState /\ poll'.post = 0 /\ poll'.act = 0 /\ poll'.reply = "none"
      /\ poll'.snap.seen <= Len(log) /\ Len(log) \in Nat
      /\ \/ poll'.at = "idle" /\ poll'.todo = <<>> /\ Len(poll'.todo) = 0
         \/ /\ poll'.at \in {"bot", "rename", "dispatch"} /\ poll'.todo = todo /\ todo # <<>>
            /\ poll'.at # "bot" => log[Head(todo)].by = "user"
            /\ poll'.snap = poll.snap /\ poll'.map = poll.snap /\ poll'.later = later
  <2>1. Len(log) \in Nat /\ poll.snap.seen <= Len(log)
    BY LenProperties DEF RelayInv, TypeInv, PollInv
  <2>2. QED BY <2>1, BeginMakes, NoPollFields, EmptySeq DEF RelayInv
<1>3. TypeInv'
  BY <1>2 DEF RelayInv, TypeInv
<1>4. ChannelInv'
  BY <1>2 DEF RelayInv, ChannelInv, TypeInv, Mapping, Mapped, At
<1>5. PollInv'
  BY <1>1, <1>2 DEF PollInv, InList, At, Message
<1>6. ForwardInv'
  BY <1>1, <1>2, QueueAssumption DEF RelayInv, ForwardInv, Forwarded, InList, At, Message, Users
<1>7. WaitInv'
  <2>1. WaitingIsAnswerable'
    BY <1>1 DEF RelayInv, WaitInv, ChannelInv, WaitingIsAnswerable, Waiting, Mapped
  <2>2. QED BY <1>1, <1>2, <2>1 DEF RelayInv, WaitInv, Unchanged, At
<1>8. QED BY <1>1, <1>3, <1>4, <1>5, <1>6, <1>7 DEF RelayInv

\* A poll starts with the mapping of the moment, its list still to come.
LEMMA StartPollStep == RelayInv /\ StartPoll => RelayInv'
<1> SUFFICES ASSUME RelayInv, StartPoll PROVE RelayInv'
  OBVIOUS
<1>1. /\ UNCHANGED <<queueVars, log, open, mapping, fresh, action, publish, closer, faults, excused, batched>>
      /\ poll' = [NoPoll EXCEPT !.at = "list", !.snap = mapping] /\ At("idle")
  BY DEF StartPoll
<1>2. /\ poll' \in PollState /\ poll'.at = "list" /\ poll'.snap = mapping /\ poll'.todo = <<>>
      /\ poll'.act = 0 /\ poll'.reply = "none" /\ poll'.post = 0 /\ poll'.later = FALSE
  BY <1>1, NoPollFields DEF RelayInv, TypeInv, NoPoll, PollState, Places
<1>3. QueueInv' /\ UNCHANGED <<asked, ended>>
  BY <1>1, QueueStays DEF RelayInv, queueVars
<1>4. TypeInv' /\ ChannelInv'
  BY <1>1, <1>2 DEF RelayInv, TypeInv, ChannelInv, Mapped, At
<1>5. PollInv'
  <2>1. Len(log') \in Nat /\ Len(poll'.todo) = 0 /\ mapping.seen <= Len(log)
    BY <1>2, <1>4, LenProperties, EmptySeq DEF TypeInv, RelayInv, ChannelInv
  <2>2. QED BY <1>1, <1>2, <2>1 DEF PollInv, InList, At
<1>6. ForwardInv'
  <2>1. poll.act = 0
    BY <1>1 DEF RelayInv, PollInv, At
  <2>2. QED BY <1>1, <1>2, <1>3, <2>1, QueueAssumption
            DEF RelayInv, ForwardInv, Forwarded, InList, At, Message, Users
<1>7. WaitInv'
  BY <1>1, <1>2, <1>3 DEF RelayInv, WaitInv, Unchanged, At, WaitingIsAnswerable, Waiting, Mapped
<1>8. QED BY <1>3, <1>4, <1>5, <1>6, <1>7 DEF RelayInv

\* The list holds what came after the cursor of the snapshot.
LEMMA ListStep == RelayInv /\ List => RelayInv'
<1> SUFFICES ASSUME RelayInv, List PROVE RelayInv'
  OBVIOUS
<1>1. PICK seen \in Nat : seen = poll.snap.seen
  BY DEF RelayInv, TypeInv, PollState, Mapping
<1>2. PICK count : count = Len(log) - seen
  OBVIOUS
<1>3. Len(log) \in Nat /\ seen <= Len(log) /\ count \in Nat /\ seen + count = Len(log)
  BY <1>1, <1>2, LenProperties DEF RelayInv, TypeInv, PollInv
<1>4. PICK todo : todo = [k \in 1 .. count |-> seen + k]
  OBVIOUS
<1>5. todo \in [1 .. count -> Nat]
  BY <1>3, <1>4
<1>6. todo \in Seq(Nat)
  BY <1>3, <1>5, SeqDef
<1>7. Len(todo) = count
  <2>1. DOMAIN todo = 1 .. count /\ DOMAIN todo = 1 .. Len(todo) /\ Len(todo) \in Nat
    BY <1>5, <1>6, LenProperties
  <2>2. QED BY <1>3, <2>1
<1>8. /\ \A j \in 1 .. Len(todo) : todo[j] \in 1 .. Len(log)
      /\ \A i, j \in 1 .. Len(todo) : i < j => todo[i] < todo[j]
  BY <1>3, <1>4, <1>7
<1>9. todo # <<>> => Head(todo) = seen + 1
  <2>1. todo # <<>> => 1 \in 1 .. count /\ Head(todo) = todo[1]
    BY <1>3, <1>6, <1>7, EmptySeq
  <2>2. QED BY <1>3, <1>4, <2>1
<1>10. /\ At("list") /\ open /\ Begin(todo, FALSE)
       /\ UNCHANGED <<queueVars, log, open, mapping, fresh, action, publish, closer, faults, excused, batched>>
  BY <1>1, <1>2, <1>4 DEF List
<1>11. ASSUME NEW a \in Actions, Forwarded(a), action[a].msg \notin excused
       PROVE  action[a].msg <= mapping.seen /\ (todo # <<>> => action[a].msg < Head(todo))
  <2>1. poll.act # a /\ action[a].msg \in Nat
    BY <1>10, QueueAssumption DEF RelayInv, PollInv, At, TypeInv, ActionState
  <2>2. action[a].msg <= mapping.seen /\ action[a].msg <= seen
    BY <1>1, <1>10, <1>11, <2>1 DEF RelayInv, ForwardInv
  <2>3. QED BY <1>9, <2>1, <2>2
<1>12. mapping \in Mapping /\ mapping.seen <= Len(log) /\ mapping.binding \in {0, poll.snap.binding}
  BY <1>10 DEF RelayInv, TypeInv, ChannelInv, WaitInv, Unchanged
<1>13. QED BY <1>6, <1>8, <1>10, <1>11, <1>12, BeginStep

\* The rest of the list lies behind the message at hand.
LEMMA RestOfList ==
  ASSUME TypeInv, PollInv, InList, NEW rest, rest = Tail(poll.todo)
  PROVE  /\ rest \in Seq(Nat)
         /\ \A j \in 1 .. Len(rest) : rest[j] \in 1 .. Len(log)
         /\ \A i, j \in 1 .. Len(rest) : i < j => rest[i] < rest[j]
         /\ rest # <<>> => Head(rest) > Message /\ Head(rest) \in Nat
<1>1. /\ rest \in Seq(Nat) /\ Len(rest) = Len(poll.todo) - 1 /\ Len(poll.todo) \in Nat \ {0}
      /\ \A i \in 1 .. Len(rest) : rest[i] = poll.todo[i + 1]
      /\ Message = poll.todo[1]
  BY AtHand, HeadTailProperties
<1>2. /\ \A j \in 1 .. Len(rest) : rest[j] \in 1 .. Len(log)
      /\ \A i, j \in 1 .. Len(rest) : i < j => rest[i] < rest[j]
  <2>1. Len(rest) \in Nat /\ \A i \in 1 .. Len(rest) : i + 1 \in 1 .. Len(poll.todo) /\ i \in Nat
    BY <1>1
  <2>2. ASSUME NEW i \in 1 .. Len(rest) PROVE rest[i] \in 1 .. Len(log)
    <3>1. rest[i] = poll.todo[i + 1] /\ i + 1 \in 1 .. Len(poll.todo)
      BY <1>1, <2>1
    <3>2. QED BY <3>1 DEF PollInv
  <2>3. ASSUME NEW i \in 1 .. Len(rest), NEW j \in 1 .. Len(rest), i < j PROVE rest[i] < rest[j]
    <3>1. /\ rest[i] = poll.todo[i + 1] /\ i + 1 \in 1 .. Len(poll.todo)
          /\ rest[j] = poll.todo[j + 1] /\ j + 1 \in 1 .. Len(poll.todo) /\ i + 1 < j + 1
      BY <1>1, <2>1, <2>3
    <3>2. QED BY <3>1 DEF PollInv
  <2>4. QED BY <2>2, <2>3
<1>3. ASSUME rest # <<>> PROVE Head(rest) > Message /\ Head(rest) \in Nat
  <2>1. Len(rest) \in Nat \ {0} /\ Head(rest) = rest[1] /\ Head(rest) \in Nat
    <3>0. rest \in Seq(Nat) /\ rest # <<>>
      BY <1>1, <1>3
    <3>1. Len(rest) \in Nat \ {0}
      BY <3>0, EmptySeq
    <3>2. Head(rest) \in Nat
      BY <1>1, <1>3, HeadTailProperties
    <3>3. Head(rest) = rest[1]
      BY <3>0
    <3>4. QED BY <3>1, <3>2, <3>3
  <2>2. 1 \in 1 .. Len(poll.todo) /\ 2 \in 1 .. Len(poll.todo) /\ rest[1] = poll.todo[2]
    <3>1. Len(rest) \in Nat /\ Len(rest) >= 1
      <4>1. PICK n \in Nat \ {0} : n = Len(rest)
        BY <2>1, Zenon
      <4>2. n \in Nat /\ n >= 1
        OBVIOUS
      <4>3. QED BY <4>1, <4>2, Zenon
    <3>2. 1 \in 1 .. Len(rest)
      BY <3>1
    <3>3. QED BY <1>1, <3>1, <3>2
  <2>3. poll.todo[1] < poll.todo[2]
    BY <2>2 DEF PollInv
  <2>4. QED BY <1>1, <2>1, <2>2, <2>3, AtHand
<1>4. QED BY <1>1, <1>2, <1>3

\* Going on to the next message, with the cursor behind this one while the
\* channel is open.
LEMMA NextStep ==
  ASSUME RelayInv, InList, NextMessage,
         UNCHANGED <<queueVars, log, open, fresh, action, publish, closer, excused, batched>>,
         mapping' \in Mapping, mapping'.seen <= Len(log), open => mapping'.seen >= Message,
         mapping'.status \in {mapping.status, "ready"},
         mapping'.binding = mapping.binding \/ (mapping'.binding = 0 /\ ~open),
         At("bot") \/ log[Message].by = "user"
  PROVE  RelayInv'
<1>1. PICK rest : rest = Tail(poll.todo)
  OBVIOUS
<1>2. PICK later : later = (poll.later \/ log[Message].by = "user")
  OBVIOUS
<1>3. /\ rest \in Seq(Nat)
      /\ \A j \in 1 .. Len(rest) : rest[j] \in 1 .. Len(log)
      /\ \A i, j \in 1 .. Len(rest) : i < j => rest[i] < rest[j]
      /\ rest # <<>> => Head(rest) > Message /\ Head(rest) \in Nat
  BY <1>1, RestOfList DEF RelayInv
<1>4. Begin(rest, later) /\ later \in BOOLEAN
  BY <1>1, <1>2 DEF NextMessage, RelayInv, TypeInv, PollState
<1>5. ASSUME NEW a \in Actions, Forwarded(a), action[a].msg \notin excused
      PROVE  (open => action[a].msg <= mapping'.seen) /\ (rest # <<>> => action[a].msg < Head(rest))
  <2>1. action[a].msg <= Message /\ action[a].msg \in Nat /\ Message \in Nat /\ mapping'.seen \in Nat
    <3>1. action[a].msg \in Nat /\ Message \in Nat /\ mapping'.seen \in Nat /\ a # 0
      BY AtHand, QueueAssumption DEF RelayInv, TypeInv, ActionState, Mapping
    <3>2. action[a].msg < Message \/ poll.act = a
      BY <1>5 DEF RelayInv, ForwardInv
    <3>3. poll.act = a => action[a].msg = Message
      BY <3>1 DEF RelayInv, PollInv
    <3>4. QED BY <3>1, <3>2, <3>3
  <2>2. QED BY <1>3, <2>1
<1>6. ~later => mapping'.binding \in {0, poll.snap.binding}
  <2>1. ~later => At("bot") /\ ~poll.later
    BY <1>2
  <2>2. ~later => poll.map = poll.snap /\ mapping.binding \in {0, poll.map.binding}
    BY <2>1 DEF RelayInv, PollInv, WaitInv, Unchanged, At
  <2>3. QED BY <2>2
<1>7. QED BY <1>3, <1>4, <1>5, <1>6, BeginStep

LEMMA NextSteps == RelayInv /\ (PassBotMessage \/ Unmap \/ MarkReplySeen) => RelayInv'
<1> SUFFICES ASSUME RelayInv, PassBotMessage \/ Unmap \/ MarkReplySeen PROVE RelayInv'
  OBVIOUS
<1>1. /\ NextMessage /\ InList
      /\ UNCHANGED <<queueVars, log, open, fresh, action, publish, closer, faults, excused, batched>>
  BY DEF PassBotMessage, Unmap, MarkReplySeen, InList, At
<1>2. /\ mapping \in Mapping /\ Message \in 1 .. Len(log) /\ Len(log) \in Nat
      /\ poll.post \in Nat /\ poll.post <= Len(log)
  BY <1>1, AtHand DEF RelayInv, TypeInv, PollState, PollInv
<1>3. At("bot") \/ log[Message].by = "user"
  BY <1>1 DEF RelayInv, PollInv
<1>4. CASE PassBotMessage
  <2>1. /\ mapping' \in Mapping /\ mapping'.seen = Message /\ mapping'.status = mapping.status
        /\ mapping'.binding = mapping.binding
    BY <1>2, <1>4 DEF PassBotMessage, Mapping
  <2>2. QED BY <1>1, <1>2, <1>3, <2>1, NextStep
<1>5. CASE Unmap
  <2>1. mapping' = NoMapping /\ ~open
    BY <1>5 DEF Unmap, RelayInv, ChannelInv
  <2>2. mapping' \in Mapping /\ mapping'.seen = 0 /\ mapping'.status = "ready" /\ mapping'.binding = 0
    BY <2>1, NoMappingTyped DEF NoMapping
  <2>3. QED BY <1>1, <1>2, <1>3, <2>1, <2>2, NextStep
<1>6. CASE MarkReplySeen
  <2>1. /\ mapping' \in Mapping /\ mapping'.seen = poll.post /\ mapping'.status = mapping.status
        /\ mapping'.binding = mapping.binding /\ At("seen")
    BY <1>2, <1>6 DEF MarkReplySeen, Mapping
  <2>2. poll.post >= Message
    BY <2>1 DEF RelayInv, PollInv, At
  <2>3. QED BY <1>1, <1>2, <1>3, <2>1, <2>2, NextStep
<1>7. QED BY <1>4, <1>5, <1>6

-----------------------------------------------------------------------------
(* What is done about one message.                                           *)

\* The poll stays with its message and its request, the log may grow, and the
\* cursor falls behind neither where it was nor the message.
LEMMA SameMessage ==
  ASSUME RelayInv, InList, InList', ~(At("bot"))', ~At("bot"),
         UNCHANGED <<queueVars, action, publish, closer, excused, batched>>,
         poll' \in PollState, poll'.todo = poll.todo, poll'.snap = poll.snap, poll'.later = poll.later,
         poll'.act = poll.act,
         log' \in Seq(Entry), Len(log') >= Len(log), \A k \in 1 .. Len(log) : log'[k] = log[k],
         mapping' \in Mapping, fresh' \in Nat, mapping'.binding < fresh', mapping'.seen <= Len(log'),
         open' \in BOOLEAN, open' => open,
         open' => mapping'.seen >= mapping.seen \/ mapping'.seen >= Message,
         mapping'.binding = 0 \/ poll'.at = "unmap" => ~open',
         poll'.at = "dispatch" => poll'.reply = "none",
         poll'.at \in {"dispatch", "delete", "unmap"} => poll.act = 0,
         poll'.at \in {"rename", "renamed"} /\ poll'.reply = "none" => poll.act = 0,
         poll'.at \in {"desktop", "bind", "accept"} => poll.act # 0,
         poll'.at \in {"refuse", "seen"} => poll'.post >= Message,
         poll'.post <= Len(log'),
         open' /\ poll.act # 0 /\ Forwarded(poll.act) /\ poll'.reply = "plain" /\ poll.reply # "plain"
           => mapping'.seen >= Message,
         WaitInv'
  PROVE  RelayInv'
<1>1. QueueInv' /\ UNCHANGED <<asked, ended>>
  BY QueueStays DEF RelayInv, queueVars
<1>2. /\ Message' = Message /\ Message \in 1 .. Len(log) /\ Len(log) \in Nat /\ Len(log') \in Nat
      /\ poll.todo # <<>> /\ Users \subseteq Users'
  BY AtHand, LenProperties DEF RelayInv, Message, TypeInv, Users
<1>3. TypeInv'
  BY DEF RelayInv, TypeInv
<1>4. ChannelInv'
  BY <1>2 DEF RelayInv, ChannelInv, Mapped, At, TypeInv
<1>5. PollInv'
  <2>1. log'[Message].by = "user"
    BY <1>2 DEF RelayInv, PollInv
  <2>2. poll.snap.seen <= Len(log')
    <3>1. poll.snap.seen \in Nat /\ poll.snap.seen <= Len(log)
      BY DEF RelayInv, PollInv, TypeInv, PollState, Mapping
    <3>2. QED BY <1>2, <3>1
  <2>3. \A j \in 1 .. Len(poll'.todo) : poll'.todo[j] \in 1 .. Len(log')
    BY <1>2 DEF RelayInv, PollInv
  <2>4. \A i, j \in 1 .. Len(poll'.todo) : i < j => poll'.todo[i] < poll'.todo[j]
    BY DEF RelayInv, PollInv
  <2>5. poll'.act # 0 => poll'.act \in Actions /\ poll'.act <= Len(asked') /\ action'[poll'.act].msg = Message'
    BY <1>1, <1>2 DEF RelayInv, PollInv
  <2>6. poll'.at \notin {"idle", "list", "bot"}
    BY DEF InList, At
  <2>7. QED BY <1>2, <2>1, <2>2, <2>3, <2>4, <2>5, <2>6 DEF PollInv, InList, At
<1>6. ForwardInv'
  <2>1. ASSUME NEW a \in Actions, Forwarded(a), action[a].msg \notin excused
        PROVE  /\ open' => action[a].msg <= mapping'.seen \/ poll.act = a
               /\ action[a].msg < Message \/ poll.act = a
               /\ open' /\ poll.act = a /\ poll'.reply = "plain" => action[a].msg <= mapping'.seen
    <3>1. action[a].msg \in Nat /\ mapping.seen \in Nat /\ mapping'.seen \in Nat /\ Message \in Nat /\ a # 0
      BY <1>2, QueueAssumption DEF RelayInv, TypeInv, ActionState, Mapping
    <3>2. action[a].msg < Message \/ poll.act = a
      BY <2>1 DEF RelayInv, ForwardInv
    <3>3. poll.act = a => action[a].msg = Message
      BY <3>1 DEF RelayInv, PollInv
    <3>4. /\ open => action[a].msg <= mapping.seen \/ poll.act = a
          /\ open /\ poll.act = a /\ poll.reply = "plain" => action[a].msg <= mapping.seen
      BY <2>1 DEF RelayInv, ForwardInv
    <3>5. QED BY <2>1, <3>1, <3>2, <3>3, <3>4
  <2>2. QED BY <1>1, <1>2, <2>1 DEF RelayInv, ForwardInv, Forwarded, InList, At
<1>7. QED BY <1>1, <1>3, <1>4, <1>5, <1>6 DEF RelayInv

LEMMA PollFields ==
  ASSUME TypeInv, NEW place \in Places, NEW reply \in {"none", "plain", "note", "refusal"},
         NEW map \in Mapping, NEW post \in Nat, NEW label \in Nat,
         poll' = [poll EXCEPT !.at = place, !.reply = reply, !.map = map, !.post = post, !.label = label]
  PROVE  /\ poll' \in PollState /\ poll'.at = place /\ poll'.reply = reply /\ poll'.map = map
         /\ poll'.post = post /\ poll'.label = label
         /\ poll'.todo = poll.todo /\ poll'.snap = poll.snap /\ poll'.later = poll.later /\ poll'.act = poll.act
BY DEF TypeInv, PollState

\* A change of place only, with nothing else of the relay changed.
LEMMA MoveSteps ==
  RelayInv /\ (RenameChannel \/ HandleArchive \/ DeleteChannel \/ \E kind \in {"plain", "note", "refusal"} : At("dispatch") /\ Answers(kind))
    => RelayInv'
<1> SUFFICES ASSUME RelayInv, \/ RenameChannel \/ HandleArchive \/ DeleteChannel
                              \/ \E kind \in {"plain", "note", "refusal"} : At("dispatch") /\ Answers(kind)
             PROVE  RelayInv'
  OBVIOUS
<1>1. /\ UNCHANGED <<queueVars, log, mapping, fresh, action, publish, closer, excused, batched>>
      /\ poll \in PollState /\ poll.at \in {"rename", "dispatch", "delete"}
      /\ open' = open \/ (open' = FALSE /\ poll.at = "delete")
  BY DEF RenameChannel, HandleArchive, DeleteChannel, Answers, Dispatched, At, RelayInv, TypeInv
<1>2. PICK place \in {"renamed", "dispatch", "reply", "delete", "unmap"}, reply \in {"none", "plain", "note", "refusal"} :
        /\ poll' = [poll EXCEPT !.at = place, !.reply = reply]
        /\ \/ /\ poll.at = "rename" /\ place \in {"renamed", "dispatch", "reply"} /\ reply = poll.reply
              /\ place = "dispatch" => reply = "none"
           \/ poll.at = "dispatch" /\ place = "reply"
           \/ poll.at = "dispatch" /\ place = "delete" /\ reply = poll.reply
           \/ poll.at = "delete" /\ place = "unmap" /\ reply = poll.reply /\ open' = FALSE
  <2>1. poll.reply \in {"none", "plain", "note", "refusal"}
    BY <1>1 DEF PollState
  <2>2. \A place : [poll EXCEPT !.at = place] = [poll EXCEPT !.at = place, !.reply = poll.reply]
    BY <1>1 DEF PollState
  <2>3. CASE RenameChannel
    BY <1>1, <2>1, <2>2, <2>3 DEF RenameChannel, GoTo, AfterRename, At
  <2>4. CASE HandleArchive
    BY <1>1, <2>1, <2>2, <2>4 DEF HandleArchive, GoTo, Reply, At, Dispatched
  <2>5. CASE DeleteChannel
    BY <1>1, <2>1, <2>2, <2>5 DEF DeleteChannel, GoTo, At
  <2>6. CASE \E kind \in {"plain", "note", "refusal"} : At("dispatch") /\ Answers(kind)
    BY <1>1, <2>6 DEF Answers, Reply, At
  <2>7. QED BY <2>3, <2>4, <2>5, <2>6
<1>3. /\ poll' \in PollState /\ poll'.at = place /\ poll'.reply = reply /\ poll'.map = poll.map
      /\ poll'.post = poll.post /\ poll'.todo = poll.todo /\ poll'.snap = poll.snap
      /\ poll'.later = poll.later /\ poll'.act = poll.act
  BY <1>1, <1>2 DEF PollState, Places
<1>4. /\ poll.at = "dispatch" \/ poll.at = "delete" \/ (poll.at = "rename" /\ poll.reply = "none") => poll.act = 0
      /\ poll.at = "dispatch" => poll.reply = "none"
  BY DEF RelayInv, PollInv
<1>5. /\ log' \in Seq(Entry) /\ Len(log') \in Nat /\ mapping' \in Mapping /\ fresh' \in Nat
      /\ mapping'.binding < fresh' /\ mapping'.seen <= Len(log') /\ mapping'.seen \in Nat
      /\ open' \in BOOLEAN /\ (open' => open) /\ (mapping.binding = 0 => ~open) /\ poll'.post <= Len(log')
  <2>1. Len(log) \in Nat /\ mapping.seen \in Nat
    BY LenProperties DEF RelayInv, TypeInv, Mapping
  <2>2. open \in BOOLEAN /\ log \in Seq(Entry) /\ fresh \in Nat /\ mapping \in Mapping
    BY DEF RelayInv, TypeInv
  <2>5. open' \in BOOLEAN /\ (open' => open)
    <3>1. CASE open' = open
      BY <2>2, <3>1
    <3>2. CASE open' = FALSE
      BY <3>2
    <3>3. QED BY <1>1, <3>1, <3>2
  <2>3. /\ mapping.binding < fresh /\ mapping.seen <= Len(log) /\ (mapping.binding = 0 => ~open)
        /\ poll.post <= Len(log)
    BY DEF RelayInv, ChannelInv, PollInv, Mapped
  <2>4. QED BY <1>1, <1>3, <2>1, <2>2, <2>3, <2>5
<1>6. QueueInv' /\ UNCHANGED <<asked, ended>>
  BY <1>1, QueueStays DEF RelayInv, queueVars
<1>7. WaitInv'
  BY <1>1, <1>2, <1>3, <1>4, <1>6 DEF RelayInv, WaitInv, Unchanged, At, WaitingIsAnswerable, Waiting, Mapped
<1>8. /\ InList /\ InList' /\ ~(At("bot"))' /\ ~At("bot")
      /\ poll'.at = "dispatch" => poll'.reply = "none"
      /\ poll'.at \in {"dispatch", "delete", "unmap"} => poll.act = 0
      /\ poll'.at \in {"rename", "renamed"} /\ poll'.reply = "none" => poll.act = 0
      /\ poll'.at \notin {"desktop", "bind", "accept", "refuse", "seen"}
      /\ poll.act # 0 => poll'.reply = poll.reply
      /\ poll'.at = "unmap" => ~open'
  BY <1>1, <1>2, <1>3, <1>4 DEF InList, At
<1>9. QED BY <1>1, <1>3, <1>5, <1>7, <1>8, SameMessage

LEMMA Basics ==
  ASSUME RelayInv
  PROVE  /\ log \in Seq(Entry) /\ Len(log) \in Nat /\ mapping \in Mapping /\ fresh \in Nat
         /\ mapping.seen \in Nat /\ mapping.binding \in Nat /\ mapping.binding < fresh
         /\ mapping.seen <= Len(log) /\ open \in BOOLEAN /\ (mapping.binding = 0 => ~open)
         /\ poll \in PollState /\ poll.post <= Len(log)
<1>1. /\ log \in Seq(Entry) /\ Len(log) \in Nat /\ mapping \in Mapping /\ fresh \in Nat
      /\ mapping.seen \in Nat /\ mapping.binding \in Nat
  BY LenProperties DEF RelayInv, TypeInv, Mapping
<1>2. open \in BOOLEAN /\ poll \in PollState
  BY DEF RelayInv, TypeInv
<1>3. mapping.binding < fresh /\ mapping.seen <= Len(log) /\ (mapping.binding = 0 => ~open)
  BY DEF RelayInv, ChannelInv, Mapped
<1>4. poll.post <= Len(log)
  BY DEF RelayInv, PollInv
<1>5. QED BY <1>1, <1>2, <1>3, <1>4

LEMMA CreatedFields ==
  ASSUME fresh \in Nat, NEW status \in Status
  PROVE  /\ Created(status) \in Mapping /\ Created(status).binding = fresh
         /\ Created(status).seen = 0 /\ Created(status).status = status
BY DEF Created, Mapping

LEMMA EnsureChannelStep == RelayInv /\ EnsureChannel => RelayInv'
<1> SUFFICES ASSUME RelayInv, EnsureChannel PROVE RelayInv'
  OBVIOUS
<1>1. /\ UNCHANGED <<queueVars, log, open, action, publish, closer, excused, batched>>
      /\ poll.at = "renamed" /\ poll' = [poll EXCEPT !.at = AfterRename, !.map = mapping']
      /\ mapping' = IF Mapped THEN [mapping EXCEPT !.named = TRUE] ELSE Created("needs_manual_binding")
      /\ fresh' = IF Mapped THEN fresh ELSE fresh + 1
  BY DEF EnsureChannel, At
<1>2. /\ mapping' \in Mapping /\ mapping'.binding # 0 /\ mapping'.binding < fresh' /\ fresh' \in Nat
      /\ mapping'.seen <= Len(log) /\ (open => mapping'.seen = mapping.seen)
      /\ \/ mapping'.binding = mapping.binding /\ mapping'.status = mapping.status
         \/ mapping'.status = "needs_manual_binding"
  <2>1. CASE Mapped
    BY <1>1, <2>1, Basics DEF Mapping, Mapped
  <2>2. CASE ~Mapped
    <3>1. ~open /\ fresh # 0 /\ "needs_manual_binding" \in Status
      BY <2>2, Basics DEF Mapped, Status
    <3>2. QED BY <1>1, <2>2, <3>1, Basics, CreatedFields
  <2>3. QED BY <2>1, <2>2
<1>3. PICK place \in Places :
        /\ place = AfterRename
        /\ \/ place = "dispatch" /\ poll.reply = "none" /\ poll.act = 0
           \/ place = "reply" /\ poll.reply # "none"
  BY <1>1 DEF AfterRename, Places, RelayInv, PollInv
<1>4. /\ poll' \in PollState /\ poll'.at = place /\ poll'.reply = poll.reply /\ poll'.map = mapping'
      /\ poll'.post = poll.post /\ poll'.todo = poll.todo /\ poll'.snap = poll.snap
      /\ poll'.later = poll.later /\ poll'.act = poll.act
  BY <1>1, <1>2, <1>3, Basics DEF PollState
<1>5. QueueInv' /\ UNCHANGED <<asked, ended>>
  BY <1>1, QueueStays DEF RelayInv, queueVars
<1>6. WaitInv'
  <2>1. WaitingIsAnswerable'
    BY <1>1, <1>2 DEF RelayInv, WaitInv, WaitingIsAnswerable, Waiting, Mapped
  <2>2. QED BY <1>1, <1>3, <1>4, <1>5, <2>1 DEF RelayInv, WaitInv, Unchanged, At
<1>7. InList /\ InList' /\ ~(At("bot"))' /\ ~At("bot")
  BY <1>1, <1>3, <1>4 DEF InList, At
<1>8. QED BY <1>1, <1>2, <1>3, <1>4, <1>6, <1>7, Basics, SameMessage

LEMMA TimeoutStep == RelayInv /\ RequestTimesOut => RelayInv'
<1> SUFFICES ASSUME RelayInv, RequestTimesOut PROVE RelayInv'
  OBVIOUS
<1>1. /\ UNCHANGED <<queueVars, log, open, mapping, fresh, action, publish, closer, excused, batched>>
      /\ poll.at = "desktop" /\ Answered("refused", poll.map.label)
  BY DEF RequestTimesOut, At, OnTimeout
<1>2. PICK reply \in {"plain", "note", "refusal"} :
        /\ poll' = [poll EXCEPT !.at = "reply", !.reply = reply]
        /\ reply = "plain" => action[poll.act].kind = "recover"
  BY <1>1 DEF Answered, Reply
<1>3. /\ poll' \in PollState /\ poll'.at = "reply" /\ poll'.reply = reply /\ poll'.map = poll.map
      /\ poll'.post = poll.post /\ poll'.todo = poll.todo /\ poll'.snap = poll.snap
      /\ poll'.later = poll.later /\ poll'.act = poll.act
  BY <1>2, Basics DEF PollState, Places
<1>4. QueueInv' /\ UNCHANGED <<asked, ended>>
  BY <1>1, QueueStays DEF RelayInv, queueVars
<1>5. WaitInv'
  BY <1>1, <1>3, <1>4 DEF RelayInv, WaitInv, Unchanged, At, WaitingIsAnswerable, Waiting, Mapped
<1>6. InList /\ InList' /\ ~(At("bot"))' /\ ~At("bot")
  BY <1>1, <1>3 DEF InList, At
<1>7. poll'.reply = "plain" => ~Forwarded(poll.act)
  BY <1>2, <1>3 DEF Forwarded
<1>8. QED BY <1>1, <1>3, <1>5, <1>6, <1>7, Basics, SameMessage

LEMMA BindChannelStep == RelayInv /\ BindChannel => RelayInv'
<1> SUFFICES ASSUME RelayInv, BindChannel PROVE RelayInv'
  OBVIOUS
<1>0. PICK kind : kind = action[poll.act].kind
  OBVIOUS
<1>1. PICK moved \in BOOLEAN : kind = action[poll.act].kind /\ moved = (poll.label # mapping.label)
  BY <1>0
<1>2. /\ UNCHANGED <<queueVars, log, open, action, publish, closer, excused, batched>>
      /\ poll.at = "bind" /\ Mapped
      /\ mapping' = [mapping EXCEPT !.label = poll.label, !.status = "ready",
           !.binding = IF kind = "readback" /\ moved THEN fresh ELSE mapping.binding,
           !.named = mapping.named /\ ~moved]
      /\ fresh' = IF kind = "readback" /\ moved THEN fresh + 1 ELSE fresh
  BY <1>1 DEF BindChannel, At
<1>3. PICK place \in {"reply", "rename", "accept"}, reply \in {"none", "plain", "note", "refusal"} :
        /\ poll' = [poll EXCEPT !.at = place, !.reply = reply]
        /\ \/ kind = "readback" /\ place # "accept" /\ reply = "plain"
           \/ kind = "note" /\ place = "reply" /\ reply = "note"
           \/ kind \notin {"readback", "note"} /\ place = "accept" /\ reply = poll.reply
  <2>1. poll.reply \in {"none", "plain", "note", "refusal"}
    BY Basics DEF PollState
  <2>2. CASE kind = "readback"
    <3>1. poll' = [poll EXCEPT !.reply = "plain", !.at = IF mapping'.named THEN "reply" ELSE "rename"]
      BY <1>1, <2>2 DEF BindChannel
    <3>2. QED BY <2>2, <3>1
  <2>3. CASE kind = "note"
    <3>1. poll' = [poll EXCEPT !.reply = "note", !.at = "reply"]
      BY <1>1, <2>3 DEF BindChannel
    <3>2. QED BY <2>3, <3>1
  <2>4. CASE kind \notin {"readback", "note"}
    <3>1. poll' = [poll EXCEPT !.at = "accept"]
      BY <1>1, <2>4 DEF BindChannel
    <3>2. poll' = [poll EXCEPT !.at = "accept", !.reply = poll.reply]
      BY <3>1, Basics DEF PollState
    <3>3. QED BY <2>1, <2>4, <3>2
  <2>5. QED BY <2>2, <2>3, <2>4
<1>4. /\ poll' \in PollState /\ poll'.at = place /\ poll'.reply = reply /\ poll'.map = poll.map
      /\ poll'.post = poll.post /\ poll'.todo = poll.todo /\ poll'.snap = poll.snap
      /\ poll'.later = poll.later /\ poll'.act = poll.act
  BY <1>3, Basics DEF PollState, Places
<1>5. /\ mapping' \in Mapping /\ mapping'.status = "ready" /\ mapping'.seen = mapping.seen
      /\ mapping'.binding = (IF kind = "readback" /\ moved THEN fresh ELSE mapping.binding)
  <2>1. poll.label \in Nat /\ (mapping.named /\ ~moved) \in BOOLEAN
    BY Basics DEF PollState, Mapping
  <2>2. QED BY <1>2, <2>1, Basics DEF Mapping, Status
<1>6. mapping'.binding # 0 /\ mapping'.binding < fresh' /\ fresh' \in Nat
  BY <1>2, <1>5, Basics DEF Mapped
<1>7. QueueInv' /\ UNCHANGED <<asked, ended>>
  BY <1>2, QueueStays DEF RelayInv, queueVars
<1>8. poll.act # 0 /\ kind # "recover" /\ (kind # "readback" => action[poll.act].delivered)
  BY <1>1, <1>2 DEF RelayInv, PollInv, WaitInv, At
<1>9. WaitInv'
  <2>1. WaitingIsAnswerable'
    BY <1>5 DEF WaitingIsAnswerable, Waiting
  <2>2. ~batched' /\ poll'.act # 0 => ~poll'.later
    BY <1>2, <1>4 DEF RelayInv, WaitInv
  <2>3. ~batched' /\ poll'.at = "accept" => mapping'.binding \in {0, action[poll.act].binding}
    BY <1>1, <1>2, <1>3, <1>4, <1>5, <1>8 DEF RelayInv, WaitInv, Unchanged, At
  <2>4. \A a \in Actions : action'[a].delivered => a <= Len(ended')
    BY <1>2, <1>7 DEF RelayInv, WaitInv
  <2>5. QED BY <1>1, <1>2, <1>3, <1>4, <1>8, <2>1, <2>2, <2>3, <2>4 DEF WaitInv, Unchanged, At
<1>10. InList /\ InList' /\ ~(At("bot"))' /\ ~At("bot")
  BY <1>2, <1>3, <1>4 DEF InList, At
<1>11. poll'.reply = "plain" /\ poll.reply # "plain" => ~Forwarded(poll.act)
  BY <1>1, <1>3, <1>4 DEF Forwarded
<1>12. QED BY <1>2, <1>3, <1>4, <1>5, <1>6, <1>8, <1>9, <1>10, <1>11, Basics, SameMessage

\* The cursor moves to the message, which lies behind all that was forwarded.
LEMMA AcceptStep == RelayInv /\ MarkInboundAccepted => RelayInv'
<1> SUFFICES ASSUME RelayInv, MarkInboundAccepted PROVE RelayInv'
  OBVIOUS
<1>1. /\ UNCHANGED <<queueVars, log, open, fresh, action, publish, closer, excused, batched>>
      /\ poll.at = "accept" /\ Mapped
      /\ mapping' = [mapping EXCEPT !.status = "waiting_for_codex", !.seen = Message]
  BY DEF MarkInboundAccepted, At, CursorOnAccept
<1>2. PICK place \in {"reply", "rename"} : poll' = [poll EXCEPT !.at = place, !.reply = "plain"]
  BY DEF MarkInboundAccepted
<1>3. /\ poll' \in PollState /\ poll'.at = place /\ poll'.reply = "plain" /\ poll'.map = poll.map
      /\ poll'.post = poll.post /\ poll'.todo = poll.todo /\ poll'.snap = poll.snap
      /\ poll'.later = poll.later /\ poll'.act = poll.act
  BY <1>2, Basics DEF PollState, Places
<1>4. InList /\ InList' /\ ~(At("bot"))' /\ ~At("bot")
  BY <1>1, <1>3 DEF InList, At
<1>5. Message \in 1 .. Len(log)
  BY <1>4, AtHand DEF RelayInv
<1>6. /\ mapping' \in Mapping /\ mapping'.seen = Message /\ mapping'.binding = mapping.binding
      /\ mapping'.seen <= Len(log) /\ mapping'.seen >= Message /\ mapping.binding # 0
  <2>1. Message \in Nat /\ Message <= Len(log) /\ Message >= Message /\ mapping.binding # 0
    BY <1>1, <1>5, Basics DEF Mapped
  <2>2. mapping' \in Mapping /\ mapping'.seen = Message /\ mapping'.binding = mapping.binding
    BY <1>1, <2>1, Basics DEF Mapping, Status
  <2>3. QED BY <2>1, <2>2
<1>7. QueueInv' /\ UNCHANGED <<asked, ended>>
  BY <1>1, QueueStays DEF RelayInv, queueVars
<1>8. WaitInv'
  <2>1. WaitingIsAnswerable'
    <3>1. poll.act \in Actions /\ action[poll.act].delivered /\ action[poll.act].kind # "readback"
      BY <1>1 DEF RelayInv, PollInv, WaitInv, At
    <3>2. ~batched => mapping.binding = action[poll.act].binding
      BY <1>1, <1>6 DEF RelayInv, WaitInv, Unchanged, At
    <3>3. QED BY <1>1, <1>6, <3>1, <3>2 DEF WaitingIsAnswerable
  <2>2. QED BY <1>1, <1>3, <1>7, <2>1 DEF RelayInv, WaitInv, Unchanged, At
<1>9. QED BY <1>1, <1>3, <1>4, <1>6, <1>8, Basics, SameMessage

\* What the relay says moves no cursor, and lies behind the message.
LEMMA PostReplyStep == RelayInv /\ PostReply => RelayInv'
<1> SUFFICES ASSUME RelayInv, PostReply PROVE RelayInv'
  OBVIOUS
<1>1. /\ UNCHANGED <<queueVars, open, mapping, fresh, action, publish, closer, excused, batched>>
      /\ poll.at = "reply" /\ log' = Append(log, [by |-> "relay", kind |-> "reply"])
  BY DEF PostReply, At
<1>2. /\ log' \in Seq(Entry) /\ Len(log') = Len(log) + 1 /\ Len(log) \in Nat
      /\ \A k \in 1 .. Len(log) : log'[k] = log[k]
  <2>1. [by |-> "relay", kind |-> "reply"] \in Entry
    BY DEF Entry
  <2>2. QED BY <1>1, <2>1, Grows DEF RelayInv
<1>3. Message \in 1 .. Len(log) /\ InList /\ ~At("bot")
  <2>1. InList /\ ~At("bot")
    BY <1>1 DEF InList, At
  <2>2. QED BY <2>1, AtHand DEF RelayInv
<1>4. PICK post \in Nat, place \in {"refuse", "seen"} :
        /\ poll' = [poll EXCEPT !.post = post, !.at = place]
        /\ post >= Message /\ post <= Len(log')
  <2>1. PICK post : post = IF poll.reply = "note" THEN Message ELSE Len(log) + 1
    OBVIOUS
  <2>2. post \in Nat /\ post >= Message /\ post <= Len(log')
    BY <1>2, <1>3, <2>1
  <2>3. PICK place \in {"refuse", "seen"} : place = IF poll.reply = "refusal" THEN "refuse" ELSE "seen"
    OBVIOUS
  <2>4. poll' = [poll EXCEPT !.post = post, !.at = place]
    BY <2>1, <2>3 DEF PostReply
  <2>5. QED BY <2>2, <2>4
<1>5. /\ poll' \in PollState /\ poll'.at = place /\ poll'.reply = poll.reply /\ poll'.map = poll.map
      /\ poll'.post = post /\ poll'.todo = poll.todo /\ poll'.snap = poll.snap
      /\ poll'.later = poll.later /\ poll'.act = poll.act
  BY <1>4, Basics DEF PollState, Places
<1>6. QueueInv' /\ UNCHANGED <<asked, ended>>
  BY <1>1, QueueStays DEF RelayInv, queueVars
<1>7. WaitInv'
  BY <1>1, <1>5, <1>6 DEF RelayInv, WaitInv, Unchanged, At, WaitingIsAnswerable, Waiting, Mapped
<1>8. InList' /\ ~(At("bot"))'
  BY <1>5 DEF InList, At
<1>9. mapping'.seen <= Len(log') /\ Len(log') >= Len(log) /\ mapping'.seen = mapping.seen
  BY <1>1, <1>2, Basics
<1>10. QED BY <1>1, <1>2, <1>3, <1>4, <1>5, <1>7, <1>8, <1>9, Basics, SameMessage

LEMMA RefuseStep == RelayInv /\ MarkRefused => RelayInv'
<1> SUFFICES ASSUME RelayInv, MarkRefused PROVE RelayInv'
  OBVIOUS
<1>1. /\ UNCHANGED <<queueVars, log, open, action, publish, closer, excused, batched>>
      /\ poll.at = "refuse" /\ poll' = [poll EXCEPT !.at = "seen"]
      /\ mapping' = IF Mapped THEN [mapping EXCEPT !.status = "error"] ELSE Created("error")
      /\ fresh' = IF Mapped THEN fresh ELSE fresh + 1
  BY DEF MarkRefused, At, GoTo
<1>2. /\ mapping' \in Mapping /\ mapping'.binding # 0 /\ mapping'.binding < fresh' /\ fresh' \in Nat
      /\ mapping'.seen <= Len(log) /\ (open => mapping'.seen = mapping.seen)
      /\ mapping'.status = "error"
  <2>0. "error" \in Status
    BY DEF Status
  <2>1. CASE Mapped
    BY <1>1, <2>0, <2>1, Basics DEF Mapping, Mapped
  <2>2. CASE ~Mapped
    <3>1. ~open /\ fresh # 0
      BY <2>2, Basics DEF Mapped
    <3>2. QED BY <1>1, <2>0, <2>2, <3>1, Basics, CreatedFields
  <2>3. QED BY <2>1, <2>2
<1>3. /\ poll' \in PollState /\ poll'.at = "seen" /\ poll'.reply = poll.reply /\ poll'.map = poll.map
      /\ poll'.post = poll.post /\ poll'.todo = poll.todo /\ poll'.snap = poll.snap
      /\ poll'.later = poll.later /\ poll'.act = poll.act
  BY <1>1, Basics DEF PollState, Places
<1>4. QueueInv' /\ UNCHANGED <<asked, ended>>
  BY <1>1, QueueStays DEF RelayInv, queueVars
<1>5. WaitInv'
  <2>1. WaitingIsAnswerable'
    BY <1>2 DEF WaitingIsAnswerable, Waiting
  <2>2. QED BY <1>1, <1>3, <1>4, <2>1 DEF RelayInv, WaitInv, Unchanged, At
<1>6. InList /\ InList' /\ ~(At("bot"))' /\ ~At("bot")
  BY <1>1, <1>3 DEF InList, At
<1>7. poll.post >= Message
  BY <1>1 DEF RelayInv, PollInv
<1>8. QED BY <1>1, <1>2, <1>3, <1>5, <1>6, <1>7, Basics, SameMessage

-----------------------------------------------------------------------------
(* A request to the desktop, and what comes of it.                           *)

\* The message at hand lies behind all that was forwarded before: it is new.
LEMMA SubmitStep ==
  ASSUME RelayInv, At("dispatch"), NEW kind \in Kinds \ {"none"}, NEW map \in Mapping, Submit(kind, map),
         kind # "recover" => map = poll.map
  PROVE  RelayInv'
<1>1. PICK a \in Actions : a = Len(asked) + 1
  BY DEF Submit
<1>2. /\ UNCHANGED <<log, open, mapping, fresh, publish, closer, excused>>
      /\ Enqueue(a)
      /\ \E new : /\ new = [NoAction EXCEPT !.msg = Message, !.kind = kind, !.binding = map.binding]
                  /\ action' = [action EXCEPT ![a] = new]
      /\ poll' = [poll EXCEPT !.at = "desktop", !.act = a]
      /\ batched' = (batched \/ poll.later)
  BY <1>1, Zenon DEF Submit
<1>3. /\ QueueInv' /\ Len(asked') = Len(asked) + 1 /\ ended' = ended /\ Len(asked) \in Nat
      /\ a \in Nat /\ a # 0
  BY <1>1, <1>2, EnqueueStep, QueueAssumption DEF RelayInv
<1>4. /\ Message \in 1 .. Len(log) /\ Len(log) \in Nat /\ Message \in Nat /\ poll.todo # <<>>
      /\ log[Message].by = "user" /\ poll.act = 0 /\ poll.reply = "none"
  <2>1. InList /\ ~At("bot")
    BY DEF InList, At
  <2>2. poll.act = 0 /\ poll.reply = "none" /\ log[Message].by = "user"
    BY <2>1 DEF RelayInv, PollInv, At
  <2>3. QED BY <2>1, <2>2, AtHand DEF RelayInv
<1>5. /\ poll' \in PollState /\ poll'.at = "desktop" /\ poll'.act = a /\ poll'.reply = "none"
      /\ poll'.map = poll.map /\ poll'.post = poll.post /\ poll'.todo = poll.todo
      /\ poll'.snap = poll.snap /\ poll'.later = poll.later /\ Message' = Message
  BY <1>2, <1>3, <1>4, Basics DEF PollState, Places, Message
<1>6. /\ action \in [Actions -> ActionState] /\ action' \in [Actions -> ActionState]
      /\ action'[a].msg = Message /\ action'[a].kind = kind /\ action'[a].binding = map.binding
      /\ action'[a].delivered = FALSE
      /\ \A b \in Actions : b # a => action'[b] = action[b]
      /\ action[a] = NoAction
  <2>1. action \in [Actions -> ActionState] /\ map.binding \in Nat
    BY DEF RelayInv, TypeInv, Mapping
  <2>0. PICK new : /\ new = [NoAction EXCEPT !.msg = Message, !.kind = kind, !.binding = map.binding]
                   /\ action' = [action EXCEPT ![a] = new]
    BY <1>2
  <2>2. /\ new \in ActionState /\ new.msg = Message /\ new.kind = kind /\ new.binding = map.binding
        /\ new.delivered = FALSE
    BY <1>4, <2>0, <2>1 DEF ActionState, NoAction
  <2>3. a > Len(asked)
    BY <1>1, <1>3
  <2>4. action[a] = NoAction
    BY <2>3 DEF RelayInv, ForwardInv
  <2>5. QED BY <2>0, <2>1, <2>2, <2>4
<1>7. TypeInv'
  <2>1. batched' \in BOOLEAN
    BY <1>2 DEF RelayInv, TypeInv, PollState
  <2>2. QED BY <1>2, <1>5, <1>6, <2>1 DEF RelayInv, TypeInv
<1>8. ChannelInv'
  BY <1>2, <1>5 DEF RelayInv, ChannelInv, Mapped, At
<1>9. PollInv'
  <2>1. a <= Len(asked')
    BY <1>1, <1>3
  <2>2. /\ poll.snap.seen <= Len(log) /\ poll.post <= Len(log)
        /\ \A j \in 1 .. Len(poll.todo) : poll.todo[j] \in 1 .. Len(log)
        /\ \A i, j \in 1 .. Len(poll.todo) : i < j => poll.todo[i] < poll.todo[j]
    BY DEF RelayInv, PollInv
  <2>3. /\ poll'.snap.seen <= Len(log') /\ poll'.post <= Len(log')
        /\ \A j \in 1 .. Len(poll'.todo) : poll'.todo[j] \in 1 .. Len(log')
        /\ \A i, j \in 1 .. Len(poll'.todo) : i < j => poll'.todo[i] < poll'.todo[j]
    BY <1>2, <1>5, <2>2
  <2>4. log'[Message'].by = "user"
    BY <1>2, <1>4, <1>5
  <2>5. poll'.act # 0 /\ poll'.act \in Actions /\ poll'.act <= Len(asked') /\ action'[poll'.act].msg = Message'
    BY <1>3, <1>5, <1>6, <2>1
  <2>6. QED BY <1>4, <1>5, <2>3, <2>4, <2>5 DEF PollInv, InList, At
<1>10. ForwardInv'
  <2>1. ASSUME NEW b \in Actions, b # a, Forwarded(b), action[b].msg \notin excused
        PROVE  action[b].msg < Message /\ (open => action[b].msg <= mapping.seen)
    <3>1. poll.act # b /\ InList
      BY <1>4, QueueAssumption DEF At, InList
    <3>2. QED BY <2>1, <3>1 DEF RelayInv, ForwardInv
  <2>2. \A b \in Actions : b > Len(asked') => action'[b] = NoAction
    BY <1>1, <1>3, <1>6, QueueAssumption DEF RelayInv, ForwardInv
  <2>3. \A b \in Actions : b <= Len(asked') => action'[b].kind # "none"
    <3>1. \A b \in Actions : b \in Nat /\ (b # a /\ b <= Len(asked') => b <= Len(asked))
      BY <1>1, <1>3, QueueAssumption
    <3>2. QED BY <1>6, <3>1 DEF RelayInv, ForwardInv
  <2>4. Message \in Users' /\ Users' = Users
    BY <1>2, <1>4 DEF Users
  <2>5. \A b \in Actions : Forwarded(b)' => action'[b].msg \in Users'
    BY <1>6, <2>4 DEF RelayInv, ForwardInv, Forwarded
  <2>6. \A b, c \in Actions : Forwarded(b)' /\ Forwarded(c)' /\ action'[b].msg = action'[c].msg
          /\ action'[b].msg \notin excused' => b = c
    <3>1. \A b \in Actions : b # a /\ Forwarded(b)' => Forwarded(b) /\ action'[b] = action[b]
      BY <1>6 DEF Forwarded
    <3>2. \A b \in Actions : b # a /\ Forwarded(b)' /\ action'[b].msg \notin excused' => action'[b].msg # Message
      <4> SUFFICES ASSUME NEW b \in Actions, b # a, Forwarded(b)', action'[b].msg \notin excused'
                   PROVE  action'[b].msg # Message
        OBVIOUS
      <4>1. action[b].msg < Message /\ action'[b] = action[b]
        BY <1>2, <2>1, <3>1
      <4>2. QED BY <1>4, <4>1
    <3>3. QED BY <1>2, <1>6, <3>1, <3>2 DEF RelayInv, ForwardInv
  <2>7. ASSUME NEW b \in Actions, Forwarded(b)', action'[b].msg \notin excused'
        PROVE  /\ open' => action'[b].msg <= mapping'.seen \/ poll'.act = b
               /\ action'[b].msg < Message' \/ poll'.act = b
    <3>1. CASE b = a
      BY <1>5, <3>1
    <3>2. CASE b # a
      <4>1. Forwarded(b) /\ action'[b] = action[b] /\ action[b].msg \notin excused
        BY <1>2, <1>6, <2>7, <3>2 DEF Forwarded
      <4>2. QED BY <1>2, <1>5, <2>1, <3>2, <4>1
    <3>3. QED BY <3>1, <3>2
  <2>8. poll'.reply # "plain" /\ ~(At("list"))'
    BY <1>5 DEF At
  <2>9. QED BY <2>2, <2>3, <2>5, <2>6, <2>7, <2>8 DEF ForwardInv
<1>11. WaitInv'
  <2>1. \A b \in Actions : action'[b].delivered => b <= Len(ended')
    BY <1>3, <1>6 DEF RelayInv, WaitInv
  <2>2. ~batched' => ~batched /\ ~poll'.later
    BY <1>2, <1>5
  <2>3. ~batched' /\ kind \notin {"readback", "recover"} => mapping'.binding \in {0, map.binding}
    BY <1>2, <1>5, <2>2 DEF RelayInv, WaitInv, Unchanged, At
  <2>4. WaitingIsAnswerable'
    <3>1. SUFFICES ASSUME ~batched, Mapped, Waiting(mapping)
                   PROVE  \E b \in Actions : action'[b].delivered /\ action'[b].kind # "readback"
                             /\ action'[b].binding = mapping'.binding
      BY <1>2, <2>2 DEF WaitingIsAnswerable, Mapped, Waiting
    <3>2. PICK b \in Actions : action[b].delivered /\ action[b].kind # "readback"
                               /\ action[b].binding = mapping.binding
      BY <3>1 DEF RelayInv, WaitInv, WaitingIsAnswerable
    <3>3. b # a
      BY <1>6, <3>2 DEF NoAction
    <3>4. QED BY <1>2, <1>6, <3>2, <3>3
  <2>5. QED BY <1>5, <1>6, <2>1, <2>2, <2>3, <2>4 DEF WaitInv, Unchanged, At
<1>12. QED BY <1>3, <1>7, <1>8, <1>9, <1>10, <1>11 DEF RelayInv

LEMMA HandleSteps ==
  RelayInv /\ (HandlePrompt \/ HandleBindCurrent \/ HandleRefreshBinding \/ HandleRecover) => RelayInv'
<1> SUFFICES ASSUME RelayInv, HandlePrompt \/ HandleBindCurrent \/ HandleRefreshBinding \/ HandleRecover
             PROVE  RelayInv'
  OBVIOUS
<1>1. /\ At("dispatch")
      /\ \/ \E kind \in {"prompt", "create", "readback", "note"} : Submit(kind, poll.map)
         \/ Submit("recover", mapping)
         \/ \E kind \in {"plain", "note", "refusal"} : Answers(kind)
  BY DEF HandlePrompt, HandleBindCurrent, HandleRefreshBinding, HandleRecover, Dispatched
<1>2. poll.map \in Mapping /\ mapping \in Mapping
  BY Basics DEF PollState
<1>3. CASE \E kind \in {"prompt", "create", "readback", "note"} : Submit(kind, poll.map)
  BY <1>1, <1>2, <1>3, SubmitStep DEF Kinds
<1>4. CASE Submit("recover", mapping)
  BY <1>1, <1>2, <1>4, SubmitStep DEF Kinds
<1>5. CASE \E kind \in {"plain", "note", "refusal"} : Answers(kind)
  BY <1>1, <1>5, MoveSteps
<1>6. QED BY <1>1, <1>3, <1>4, <1>5

LEMMA AnswerFields ==
  ASSUME NEW kind \in {"prompt", "create", "readback", "note", "recover"},
         NEW answer \in AnswersTo(kind, Labels)
  PROVE  /\ answer.took \in BOOLEAN /\ answer.label \in Nat
         /\ kind # "readback" /\ answer.result = "applied" => answer.took
<1>1. \A label \in {0} \cup Labels : label \in Nat
  BY LabelsAssumption
<1>2. ASSUME answer = Refused
      PROVE  answer.took = FALSE /\ answer.label = 0 /\ answer.result = "refused"
  BY <1>2 DEF Refused, Answer
<1>3. ASSUME NEW label \in {0} \cup Labels, NEW confirmed, NEW took \in BOOLEAN,
             answer = Answer("applied", label, confirmed, took)
      PROVE  answer.took = took /\ answer.label = label
  BY <1>3 DEF Answer
<1>4. CASE kind = "create"
  <2>1. answer \in CreateAnswers(Labels)
    BY <1>4 DEF AnswersTo
  <2>2. answer = Refused \/ \E label \in {0} \cup Labels : answer = Answer("applied", label, FALSE, TRUE)
    BY <2>1 DEF CreateAnswers
  <2>3. QED BY <1>1, <1>2, <1>3, <2>2
<1>5. CASE kind = "readback"
  <2>1. answer \in ReadbackAnswers(Labels)
    BY <1>5 DEF AnswersTo
  <2>2. answer = Refused \/ \E label \in {0} \cup Labels : answer = Answer("applied", label, FALSE, FALSE)
    BY <2>1 DEF ReadbackAnswers
  <2>3. QED BY <1>1, <1>2, <1>3, <1>5, <2>2
<1>6. CASE kind \notin {"create", "readback"}
  <2>1. answer \in PromptAnswers
    BY <1>6 DEF AnswersTo
  <2>2. answer = Refused \/ answer = Answer("applied", 0, TRUE, TRUE)
    BY <2>1 DEF PromptAnswers
  <2>3. QED BY <1>1, <1>2, <1>3, <2>2
<1>7. QED BY <1>4, <1>5, <1>6

LEMMA ResponseFields ==
  ASSUME NEW kind \in {"prompt", "create", "readback", "note", "recover"},
         NEW response \in ResponsesTo[kind]
  PROVE  /\ response.answer.took \in BOOLEAN /\ response.answer.label \in Nat
         /\ kind \in {"prompt", "create", "note"} /\ Submitted(kind, response) => response.answer.took
         /\ kind = "readback" /\ Submitted(kind, response) => response.answer.label # 0
<1>1. response \in Responses(kind, Labels)
  BY DEF ResponsesTo
<1>2. \A label \in {0} \cup Labels : label \in Nat
  BY LabelsAssumption
<1>3. CASE \E took \in BOOLEAN : response = Failure(took)
  BY <1>3 DEF Failure, Response, Answer, Submitted
<1>4. CASE \E answer \in AnswersTo(kind, Labels) : response = Response(TRUE, answer)
  <2>1. PICK answer \in AnswersTo(kind, Labels) : response = Response(TRUE, answer)
    BY <1>4
  <2>2. response.answer = answer
    BY <2>1 DEF Response
  <2>3. QED BY <2>1, <2>2, AnswerFields DEF Submitted
<1>5. CASE \E answer \in Cut(AnswersTo(kind, Labels)) : response = Response(TRUE, answer)
  <2>1. PICK answer \in Cut(AnswersTo(kind, Labels)) : response = Response(TRUE, answer)
    BY <1>5
  <2>2. PICK took \in BOOLEAN : answer = Answer("error", 0, FALSE, took)
    <3>1. \A answered \in AnswersTo(kind, Labels) : answered.took \in BOOLEAN
      BY AnswerFields
    <3>2. QED BY <2>1, <3>1 DEF Cut
  <2>3. answer.took \in BOOLEAN /\ answer.label = 0 /\ answer.result = "error"
    BY <2>2 DEF Answer
  <2>4. response.answer = answer
    BY <2>1 DEF Response
  <2>5. QED BY <2>3, <2>4 DEF Submitted
<1>6. QED BY <1>1, <1>3, <1>4, <1>5 DEF Responses, Endings, LockedOut, ListFails, ReconcileFails

\* An action ends: what became of it is recorded, and the poll that waits for it
\* goes on.
LEMMA RunActionStep == \A a \in Actions : RelayInv /\ RunAction(a) => RelayInv'
<1> SUFFICES ASSUME NEW a \in Actions, RelayInv, RunAction(a) PROVE RelayInv'
  OBVIOUS
<1>1. PICK kind : kind = action[a].kind
  OBVIOUS
<1>2. /\ QueueInv' /\ asked' = asked /\ a = Len(ended) + 1 /\ Len(ended') = Len(ended) + 1
      /\ a <= Len(asked) /\ Len(ended) \in Nat /\ a # 0
  BY EndStep, QueueAssumption DEF RunAction, RelayInv
<1>3. kind \in {"prompt", "create", "readback", "note", "recover"}
  BY <1>1, <1>2 DEF RelayInv, TypeInv, ActionState, Kinds, ForwardInv
<1>4. UNCHANGED <<log, open, mapping, fresh, publish, closer, faults, excused, batched>>
  BY DEF RunAction
<1>5. PICK response \in ResponsesTo[kind] :
        /\ action' = [action EXCEPT ![a].delivered = response.answer.took]
        /\ \/ poll' = poll /\ (~At("desktop") \/ poll.act # a)
           \/ At("desktop") /\ poll.act = a /\ ~Submitted(kind, response) /\ Answered("refused", 0)
           \/ /\ At("desktop") /\ poll.act = a /\ Submitted(kind, response)
              /\ \E label \in LabelsAfter(kind, response, poll.map.label, Labels) : Answered("accepted", label)
  BY <1>1 DEF RunAction
<1>6. PICK took \in BOOLEAN :
        /\ took = response.answer.took
        /\ kind \in {"prompt", "create", "note"} /\ Submitted(kind, response) => took
  BY <1>3, ResponseFields
<1>7. /\ action' \in [Actions -> ActionState]
      /\ \A b \in Actions : /\ action'[b].msg = action[b].msg /\ action'[b].kind = action[b].kind
                            /\ action'[b].binding = action[b].binding
                            /\ action'[b].delivered = IF b = a THEN took ELSE action[b].delivered
                            /\ b # a => action'[b] = action[b]
  <2>1. action \in [Actions -> ActionState]
    BY DEF RelayInv, TypeInv
  <2>2. action' = [action EXCEPT ![a] = [action[a] EXCEPT !.delivered = took]]
    BY <1>5, <1>6
  <2>3. action[a] \in ActionState
    BY <2>1
  <2>4. PICK new : new = [action[a] EXCEPT !.delivered = took]
    OBVIOUS
  <2>5. /\ new \in ActionState /\ new.msg = action[a].msg /\ new.kind = action[a].kind
        /\ new.binding = action[a].binding /\ new.delivered = took
    BY <2>3, <2>4 DEF ActionState
  <2>6. QED BY <2>1, <2>2, <2>4, <2>5
\* What the poll makes of it.
<1>8. /\ poll' \in PollState /\ poll'.todo = poll.todo /\ poll'.snap = poll.snap
      /\ poll'.later = poll.later /\ poll'.act = poll.act /\ poll'.map = poll.map /\ poll'.post = poll.post
      /\ \/ poll'.at = poll.at /\ poll'.reply = poll.reply /\ (~At("desktop") \/ poll.act # a)
         \/ /\ At("desktop") /\ poll.act = a /\ poll'.at = "reply"
            /\ poll'.reply = "plain" => kind = "recover"
         \/ /\ At("desktop") /\ poll.act = a /\ poll'.at \in {"bind", "accept"} /\ poll'.reply = poll.reply
            /\ kind # "recover" /\ (poll'.at = "accept" => kind # "readback")
            /\ kind # "readback" => took
  <2>1. CASE poll' = poll /\ (~At("desktop") \/ poll.act # a)
    BY <2>1, Basics
  <2>2. CASE /\ At("desktop") /\ poll.act = a
             /\ \E reply \in {"plain", "note", "refusal"} :
                  poll' = [poll EXCEPT !.at = "reply", !.reply = reply] /\ (reply = "plain" => kind = "recover")
    <3>1. PICK reply \in {"plain", "note", "refusal"} :
            poll' = [poll EXCEPT !.at = "reply", !.reply = reply] /\ (reply = "plain" => kind = "recover")
      BY <2>2
    <3>2. /\ poll' \in PollState /\ poll'.todo = poll.todo /\ poll'.snap = poll.snap
          /\ poll'.later = poll.later /\ poll'.act = poll.act /\ poll'.map = poll.map
          /\ poll'.post = poll.post /\ poll'.at = "reply" /\ poll'.reply = reply
      BY <3>1, Basics DEF PollState, Places
    <3>3. QED BY <2>2, <3>1, <3>2
  <2>3. CASE /\ At("desktop") /\ poll.act = a /\ Submitted(kind, response) /\ kind # "recover"
             /\ \E label \in LabelsAfter(kind, response, poll.map.label, Labels) :
                  poll' = [poll EXCEPT !.label = label, !.at = IF label # 0 THEN "bind" ELSE "accept"]
    <3>1. PICK label \in LabelsAfter(kind, response, poll.map.label, Labels) :
            poll' = [poll EXCEPT !.label = label, !.at = IF label # 0 THEN "bind" ELSE "accept"]
      BY <2>3
    <3>2. label \in Nat
      <4>1. response.answer.label \in Nat /\ poll.map.label \in Nat /\ \A l \in {0} \cup Labels : l \in Nat
        BY <1>3, ResponseFields, LabelsAssumption, Basics DEF PollState, Mapping
      <4>2. QED BY <4>1 DEF LabelsAfter
    <3>3. kind = "readback" => label # 0
      BY <2>3, ResponseFields DEF LabelsAfter
    <3>4. PICK place \in {"bind", "accept"} :
            place = (IF label # 0 THEN "bind" ELSE "accept") /\ poll' = [poll EXCEPT !.label = label, !.at = place]
      BY <3>1
    <3>5. /\ poll' \in PollState /\ poll'.todo = poll.todo /\ poll'.snap = poll.snap
          /\ poll'.later = poll.later /\ poll'.act = poll.act /\ poll'.map = poll.map
          /\ poll'.post = poll.post /\ poll'.at = place /\ poll'.reply = poll.reply
      BY <3>2, <3>4, Basics DEF PollState, Places
    <3>6. kind # "readback" => took
      BY <1>3, <1>6, <2>3
    <3>7. QED BY <2>3, <3>3, <3>4, <3>5, <3>6
  <2>4. QED BY <1>1, <1>5, <2>1, <2>2, <2>3 DEF Answered, Reply
<1>9. TypeInv'
  BY <1>4, <1>7, <1>8 DEF RelayInv, TypeInv
<1>10. ChannelInv'
  BY <1>4, <1>8 DEF RelayInv, ChannelInv, Mapped, At
<1>11. Message' = Message
  BY <1>8 DEF Message
<1>12. PollInv'
  <2>1. /\ poll'.snap.seen <= Len(log') /\ poll'.post <= Len(log')
        /\ \A j \in 1 .. Len(poll'.todo) : poll'.todo[j] \in 1 .. Len(log')
        /\ \A i, j \in 1 .. Len(poll'.todo) : i < j => poll'.todo[i] < poll'.todo[j]
    BY <1>4, <1>8 DEF RelayInv, PollInv
  <2>2. poll'.act # 0 => poll'.act \in Actions /\ poll'.act <= Len(asked') /\ action'[poll'.act].msg = Message'
    BY <1>2, <1>7, <1>8, <1>11 DEF RelayInv, PollInv
  <2>3. CASE poll'.at = poll.at /\ poll'.reply = poll.reply
    BY <1>4, <1>8, <1>11, <2>1, <2>2, <2>3 DEF RelayInv, PollInv, InList, At
  <2>4. CASE At("desktop") /\ poll.act = a /\ poll'.at \in {"reply", "bind", "accept"}
    <3>1. poll.todo # <<>> /\ log[Message].by = "user"
      BY <2>4 DEF RelayInv, PollInv, InList, At
    <3>2. QED BY <1>2, <1>4, <1>8, <1>11, <2>1, <2>2, <2>4, <3>1 DEF PollInv, InList, At
  <2>5. QED BY <1>8, <2>3, <2>4
<1>13. ForwardInv'
  <2>1. \A b \in Actions : (Forwarded(b)' <=> Forwarded(b)) /\ action'[b].msg = action[b].msg
    BY <1>7 DEF Forwarded
  <2>2. \A b \in Actions : b > Len(asked') => action'[b] = NoAction
    BY <1>2, <1>7, QueueAssumption DEF RelayInv, ForwardInv
  <2>3. \A b \in Actions : b <= Len(asked') => action'[b].kind # "none"
    BY <1>2, <1>7 DEF RelayInv, ForwardInv
  <2>4. Users' = Users
    BY <1>4 DEF Users
  <2>5. ASSUME NEW b \in Actions, Forwarded(b), action[b].msg \notin excused
        PROVE  /\ open => action[b].msg <= mapping.seen \/ poll'.act = b
               /\ poll'.at = "list" /\ open => action[b].msg <= poll'.snap.seen
               /\ InList' => action[b].msg < Message \/ poll'.act = b
               /\ open /\ poll'.act = b /\ poll'.reply = "plain" => action[b].msg <= mapping.seen
    <3>1. CASE poll'.at = poll.at /\ poll'.reply = poll.reply
      BY <1>8, <2>5, <3>1 DEF RelayInv, ForwardInv, At, InList
    <3>2. CASE /\ At("desktop") /\ poll.act = a /\ poll'.at \in {"reply", "bind", "accept"}
               /\ poll'.reply = "plain" => poll.reply = "plain" \/ kind = "recover"
      <4>1. kind = "recover" => b # a
        BY <1>1, <2>5 DEF Forwarded
      <4>2. InList /\ poll'.at # "list"
        BY <3>2 DEF InList, At
      <4>3. QED BY <1>8, <2>5, <3>2, <4>1, <4>2 DEF RelayInv, ForwardInv
    <3>3. QED BY <1>8, <3>1, <3>2
  <2>6. QED BY <1>4, <1>11, <2>1, <2>2, <2>3, <2>4, <2>5 DEF RelayInv, ForwardInv, At
<1>14. WaitInv'
  <2>1. \A b \in Actions : action'[b].delivered => b <= Len(ended')
    BY <1>2, <1>7, QueueAssumption DEF RelayInv, WaitInv
  <2>2. ~action[a].delivered
    BY <1>2 DEF RelayInv, WaitInv
  <2>3. WaitingIsAnswerable'
    <3>1. SUFFICES ASSUME ~batched, Mapped, Waiting(mapping)
                   PROVE  \E b \in Actions : action'[b].delivered /\ action'[b].kind # "readback"
                             /\ action'[b].binding = mapping'.binding
      BY <1>4 DEF WaitingIsAnswerable, Mapped, Waiting
    <3>2. PICK b \in Actions : action[b].delivered /\ action[b].kind # "readback"
                               /\ action[b].binding = mapping.binding
      BY <3>1 DEF RelayInv, WaitInv, WaitingIsAnswerable
    <3>3. b # a
      BY <2>2, <3>2
    <3>4. QED BY <1>4, <1>7, <3>2, <3>3
  <2>4. poll.act # 0 => poll.act \in Actions /\ action'[poll.act].kind = action[poll.act].kind
          /\ action'[poll.act].binding = action[poll.act].binding
          /\ (action[poll.act].delivered => action'[poll.act].delivered)
    BY <1>7, <2>2 DEF RelayInv, PollInv
  <2>5. poll.at \in {"desktop", "bind", "accept"} => poll.act # 0
    BY DEF RelayInv, PollInv
  <2>6. CASE poll'.at = poll.at /\ poll'.reply = poll.reply
    BY <1>4, <1>8, <2>1, <2>3, <2>4, <2>5, <2>6 DEF RelayInv, WaitInv, Unchanged, At
  <2>7. CASE At("desktop") /\ poll.act = a /\ poll'.at = "reply"
    BY <1>4, <1>8, <2>1, <2>3, <2>7 DEF RelayInv, WaitInv, Unchanged, At
  <2>8. CASE /\ At("desktop") /\ poll.act = a /\ poll'.at \in {"bind", "accept"}
             /\ kind # "recover" /\ (poll'.at = "accept" => kind # "readback")
             /\ kind # "readback" => took
    <3>1. /\ action'[poll'.act].kind = kind /\ action'[poll'.act].binding = action[a].binding
          /\ action'[poll'.act].delivered = took
      BY <1>1, <1>7, <1>8, <2>8
    <3>2. ~batched /\ kind # "readback" => mapping.binding \in {0, action[a].binding}
      BY <1>1, <2>8 DEF RelayInv, WaitInv, Unchanged, At
    <3>3. ~batched' /\ poll'.act # 0 => ~poll'.later
      BY <1>4, <1>8 DEF RelayInv, WaitInv
    <3>4. QED BY <1>4, <2>1, <2>3, <2>8, <3>1, <3>2, <3>3 DEF WaitInv, Unchanged, At
  <2>9. QED BY <1>8, <2>6, <2>7, <2>8
<1>15. QED BY <1>2, <1>9, <1>10, <1>12, <1>13, <1>14 DEF RelayInv

-----------------------------------------------------------------------------
(* The invariant and what follows from it.                                   *)

LEMMA InitRelay == Init => RelayInv
<1> SUFFICES ASSUME Init PROVE RelayInv
  OBVIOUS
<1>1. PICK label \in {0} \cup Labels :
        mapping = [binding |-> 1, label |-> label, seen |-> 0, named |-> TRUE,
                   status |-> IF label = 0 THEN "needs_manual_binding" ELSE "ready"]
  BY DEF Init
<1>2. /\ mapping \in Mapping /\ mapping.binding = 1 /\ mapping.seen = 0
      /\ mapping.status # "waiting_for_codex"
  <2>1. label \in Nat /\ (IF label = 0 THEN "needs_manual_binding" ELSE "ready") \in Status \ {"waiting_for_codex"}
    BY LabelsAssumption DEF Status
  <2>2. QED BY <1>1, <2>1 DEF Mapping
<1>3. /\ QueueInit /\ log = <<>> /\ open = TRUE /\ fresh = 2 /\ poll = NoPoll
      /\ action = [a \in Actions |-> NoAction]
      /\ publish = [a \in Actions |-> [at |-> "none", post |-> 0]]
      /\ closer = "idle" /\ excused = {} /\ batched = FALSE
  BY DEF Init
<1>4. <<>> \in Seq(Actions) /\ <<>> \in Seq(Entry) /\ <<>> \in Seq(Nat) /\ Len(<<>>) = 0
  BY EmptySeq
<1>5. QueueInv
  <2>1. asked = <<>> /\ ended = <<>> /\ snapshot = <<>> /\ pending = <<>> /\ gate = "idle"
    BY <1>3 DEF QueueInit
  <2>2. <<>> \o <<>> \o <<>> = <<>>
    BY <1>4, ConcatEmptySeq
  <2>3. \A n \in 1 .. Len(asked) : asked[n] = n
    BY <1>4, <2>1
  <2>4. QED BY <1>4, <2>1, <2>2, <2>3 DEF QueueInv, QueueSound, GateStatus
<1>6. NoAction \in ActionState /\ NoAction.kind = "none" /\ NoAction.delivered = FALSE
  BY DEF NoAction, ActionState, Kinds
<1>7. \A a \in Actions : action[a] = NoAction /\ publish[a].at = "none"
  BY <1>3
<1>8. Len(asked) = 0 /\ Len(log) = 0 /\ \A a \in Actions : a > Len(asked)
  BY <1>3, <1>4, QueueAssumption DEF QueueInit
<1>9. TypeInv
  BY <1>2, <1>3, <1>4, <1>6, NoPollFields DEF TypeInv
<1>10. ChannelInv
  BY <1>2, <1>3, <1>7, <1>8, NoPollFields DEF ChannelInv, Mapped, At
<1>11. PollInv
  BY <1>3, <1>4, <1>8, NoPollFields DEF PollInv, InList, At
<1>12. ForwardInv
  BY <1>3, <1>6, <1>7, <1>8, QueueAssumption DEF ForwardInv, Forwarded
<1>13. WaitInv
  BY <1>2, <1>3, <1>6, <1>7, NoPollFields DEF WaitInv, WaitingIsAnswerable, Waiting, At
<1>14. QED BY <1>5, <1>9, <1>10, <1>11, <1>12, <1>13 DEF RelayInv

LEMMA StutterRelay == RelayInv /\ UNCHANGED vars => RelayInv'
<1> SUFFICES ASSUME RelayInv, UNCHANGED vars PROVE RelayInv'
  OBVIOUS
<1>1. UNCHANGED queueVars /\ UNCHANGED relayVars
  BY DEF vars
<1>2. log' = log /\ UNCHANGED <<queueVars, open, mapping, fresh, poll, action, closer, excused, batched, publish>>
  BY <1>1 DEF relayVars
<1>3. /\ publish' \in [Actions -> [at : {"none", "checked", "posted", "done"}, post : Nat]]
      /\ \A a \in Actions : publish'[a].at = "posted" => publish'[a].post <= Len(log')
  BY <1>2 DEF RelayInv, TypeInv, ChannelInv
<1>4. QED BY <1>2, <1>3, LogStep

LEMMA StepRelay == RelayInv /\ [Next]_vars => RelayInv'
<1> SUFFICES ASSUME RelayInv, [Next]_vars PROVE RelayInv'
  OBVIOUS
<1>1. CASE Poll
  <2>1. CASE StartPoll
    BY <2>1, StartPollStep
  <2>2. CASE List
    BY <2>2, ListStep
  <2>3. CASE PassBotMessage \/ Unmap \/ MarkReplySeen
    BY <2>3, NextSteps
  <2>4. CASE RenameChannel \/ HandleArchive \/ DeleteChannel
    BY <2>4, MoveSteps
  <2>5. CASE EnsureChannel
    BY <2>5, EnsureChannelStep
  <2>6. CASE HandlePrompt \/ HandleBindCurrent \/ HandleRefreshBinding \/ HandleRecover
    BY <2>6, HandleSteps
  <2>7. CASE RequestTimesOut
    BY <2>7, TimeoutStep
  <2>8. CASE BindChannel
    BY <2>8, BindChannelStep
  <2>9. CASE MarkInboundAccepted
    BY <2>9, AcceptStep
  <2>10. CASE PostReply
    BY <2>10, PostReplyStep
  <2>11. CASE MarkRefused
    BY <2>11, RefuseStep
  <2>12. CASE PollFails
    BY <2>12, FailureSteps
  <2>13. QED
    BY <1>1, <2>1, <2>2, <2>3, <2>4, <2>5, <2>6, <2>7, <2>8, <2>9, <2>10, <2>11, <2>12 DEF Poll
<1>2. CASE Restart
  BY <1>2, FailureSteps
<1>3. CASE \E kind \in UserKinds : Say(kind)
  BY <1>3, SaySteps
<1>4. CASE \E a \in Actions : RunAction(a) \/ CheckPublish(a) \/ PostPublished(a) \/ MarkPublished(a)
  BY <1>4, RunActionStep, PublishSteps, MarkPublishedSteps
<1>5. CASE (\E force \in BOOLEAN : CloseChecks(force)) \/ CloseDeletes \/ CloseUnmaps
  BY <1>5, CloseSteps
<1>6. CASE QueueStep
  BY <1>6, GateSteps
<1>7. CASE UNCHANGED vars
  BY <1>7, StutterRelay
<1>8. QED BY <1>1, <1>2, <1>3, <1>4, <1>5, <1>6, <1>7 DEF Next

LEMMA RelayAlways == Spec => []RelayInv
BY InitRelay, StepRelay, PTL DEF Spec

\* In every run the Desktop's queue executes each action once, in the order of
\* the requests, and none waits before a gate that nobody opens
\* (desktop-action-queue.ts), whatever the relay asks for.
THEOREM QueueSoundAlways == Spec => []QueueSound
<1>1. RelayInv => QueueSound
  BY DEF RelayInv, QueueInv
<1>2. QED BY <1>1, RelayAlways, PTL

LEMMA OneAction ==
  ASSUME RelayInv, NEW k \in Users \ excused
  PROVE  Cardinality(ForwardedTo(k)) <= 1
<1>1. \A a, b \in ForwardedTo(k) : a = b
  BY DEF ForwardedTo, Forwarded, RelayInv, ForwardInv
<1>2. CASE ForwardedTo(k) = {}
  BY <1>2, FS_EmptySet
<1>3. CASE ForwardedTo(k) # {}
  <2>1. PICK a : a \in ForwardedTo(k)
    BY <1>3
  <2>2. ForwardedTo(k) = {a}
    BY <1>1, <2>1
  <2>3. Cardinality({a}) = 1
    BY FS_Singleton
  <2>4. Cardinality(ForwardedTo(k)) = 1
    BY <2>2, <2>3, Zenon
  <2>5. QED BY <2>4
<1>4. QED BY <1>2, <1>3

\* In every run a message that no dying poll left half forwarded and no late
\* record passed is forwarded to Codex at most once (handleMappedChannelMessage
\* and the cursor that markInboundAccepted and the replies move).
THEOREM ForwardedOnceAlways == Spec => []ForwardedOnce
<1>1. RelayInv => TypeOK
  BY DEF RelayInv, TypeInv, ChannelInv, TypeOK, Mapping
<1>2. RelayInv => ForwardedOnce
  BY <1>1, OneAction DEF ForwardedOnce
<1>3. QED BY <1>2, RelayAlways, PTL

\* In every run a channel that waits for Codex has a delivered prompt with its
\* present binding, as long as no later message of a list was forwarded.
THEOREM WaitingIsAnswerableAlways == Spec => []WaitingIsAnswerable
<1>1. RelayInv => WaitingIsAnswerable
  BY DEF RelayInv, WaitInv
<1>2. QED BY <1>1, RelayAlways, PTL
===============================================================================
