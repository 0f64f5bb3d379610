------------------- MODULE RelayStateAndCommandsProofs -------------------
(***************************************************************************)
(* Proofs about the relay's state store (RelayState) and about the command *)
(* side of its service (RelayCommands).                                    *)
(*                                                                         *)
(* The state file survives: for every set of mutations, the primary is the *)
(* newest installed state and the previous file at most one behind         *)
(* (FilesRecoverable), and the store implements the durable register, step *)
(* by step.  Only the operation at the head of the chain touches the files *)
(* (QueueInv), so that what it loaded is still the newest state when it    *)
(* renames (CommitInv); and a missing primary is a fresh install only if   *)
(* nothing was ever installed, because the previous file is kept as long   *)
(* as the primary is damaged (DiskInv).                                    *)
(*                                                                         *)
(* The commands, for any scripts, pollers, operators, channels and threads:*)
(* the second part of this module, which says there what is inductive.     *)
(***************************************************************************)
EXTENDS RelayState, RelayCommands, FiniteSetTheorems, SequenceTheorems, WellFoundedInduction, TLAPS

-----------------------------------------------------------------------------
(* The state store.                                                          *)

In(o, seq) == \E k \in 1 .. Len(seq) : seq[k] = o

Distinct(seq) == \A j, k \in 1 .. Len(seq) : seq[j] = seq[k] => j = k

Log == Seq(Ops)

Content == {Absent, Torn} \cup {State(s) : s \in Log}

Busy == {"queued"} \cup Committing

\* The variables' values.
TypeInv ==
  /\ process \in {"down", "starting", "up"}
  /\ queue \in Seq(Requests)
  /\ pc \in [Requests -> {"new"} \cup Busy \cup Answered]
  /\ target \in [Requests -> Files]
  /\ loaded \in [Requests -> Content]
  /\ staged \in [Requests -> Content]
  /\ file \in [Files -> Content]
  /\ installed \in [last : Log, before : Log]
  /\ damages \in SUBSET Files

\* An operation is in the chain, once, from its request to its answer, and only
\* the first one is being committed; initialize is alone in the chain.
QueueInv ==
  /\ Distinct(queue)
  /\ \A o \in Requests : pc[o] \in Busy <=> In(o, queue)
  /\ \A o \in Requests : pc[o] \in Committing => Running(o)
  /\ process = "down" => queue = <<>>
  /\ process = "starting" => queue = <<Boot>>
  /\ process = "up" => ~In(Boot, queue)

\* One file at a time is damaged, and the other one is a state then.  The
\* installed states are on disk.
DiskInv ==
  /\ \E f \in Files : damages \subseteq {f}
  /\ \A f \in damages : file[f].is # "state"
  /\ "primary" \in damages => file["previous"].is = "state"
  /\ file["previous"].is = "state" => file["previous"].log \in {installed.last, installed.before}
  /\ installed.last # <<>> /\ "primary" \notin damages => file["primary"] = State(installed.last)
  /\ installed.last = <<>> /\ file["primary"].is = "state" => file["primary"].log = <<>>

Installed(o) == pc[o] = "confirm" /\ target[o] = "primary"

\* What an operation under way loaded is the newest state, until it installs its own.
CommitInv ==
  \A o \in Requests : pc[o] \in Committing =>
    /\ o = Boot => target[o] = "primary" /\ loaded[o] = Absent /\ installed.last = <<>>
    /\ target[o] = "previous" => loaded[o].is = "state"
    /\ ~Installed(o) => loaded[o].log = installed.last
    /\ Installed(o) /\ o # Boot => installed.last = Candidate(o)
    /\ target[o] = "primary" /\ ~Installed(o) /\ file["previous"].is = "state"
         => file["previous"].log = installed.last
    /\ pc[o] = "rename" => staged[o] = Intended(o)

\* A mutation that was installed was answered, or is about to be.
EffectInv ==
  \A o \in Ops : In(o, installed.last) => pc[o] \in Answered \/ Installed(o)

StateInv == TypeInv /\ QueueInv /\ DiskInv /\ CommitInv /\ EffectInv

-----------------------------------------------------------------------------
(* Sequences and records.                                                    *)

LEMMA TailHas ==
  ASSUME NEW S, NEW seq \in Seq(S), seq # <<>>, Distinct(seq)
  PROVE  /\ Tail(seq) \in Seq(S) /\ Head(seq) \in S
         /\ Distinct(Tail(seq))
         /\ In(Head(seq), seq)
         /\ \A o : In(o, Tail(seq)) <=> In(o, seq) /\ o # Head(seq)
<1>1. /\ Len(seq) \in Nat \ {0} /\ Head(seq) = seq[1] /\ Tail(seq) \in Seq(S)
      /\ Len(Tail(seq)) = Len(seq) - 1
      /\ \A i \in 1 .. Len(seq) - 1 : Tail(seq)[i] = seq[i + 1]
  BY HeadTailProperties, EmptySeq, LenProperties
<1>2. Head(seq) \in S /\ In(Head(seq), seq)
  BY <1>1, ElementOfSeq DEF In
<1>3. Distinct(Tail(seq))
  BY <1>1 DEF Distinct
<1>4. ASSUME NEW o, In(o, Tail(seq)) PROVE In(o, seq) /\ o # Head(seq)
  BY <1>1, <1>4 DEF In, Distinct
<1>5. ASSUME NEW o, In(o, seq), o # Head(seq) PROVE In(o, Tail(seq))
  <2>1. PICK k \in 1 .. Len(seq) : seq[k] = o
    BY <1>5 DEF In
  <2>2. k # 1 /\ k - 1 \in 1 .. Len(seq) - 1 /\ Tail(seq)[k - 1] = o
    BY <1>1, <1>5, <2>1
  <2>3. QED BY <1>1, <2>2 DEF In
<1>6. QED BY <1>1, <1>2, <1>3, <1>4, <1>5

LEMMA AppendHas ==
  ASSUME NEW S, NEW seq \in Seq(S), NEW e \in S
  PROVE  /\ Append(seq, e) \in Seq(S) /\ Append(seq, e) # <<>>
         /\ \A o : In(o, Append(seq, e)) <=> In(o, seq) \/ o = e
         /\ Distinct(seq) /\ ~In(e, seq) => Distinct(Append(seq, e))
         /\ seq # <<>> => Head(Append(seq, e)) = Head(seq)
         /\ seq = <<>> => Head(Append(seq, e)) = e
<1>1. /\ Append(seq, e) \in Seq(S) /\ Append(seq, e) # <<>>
      /\ Len(Append(seq, e)) = Len(seq) + 1 /\ Len(seq) \in Nat
      /\ \A i \in 1 .. Len(seq) : Append(seq, e)[i] = seq[i]
      /\ Append(seq, e)[Len(seq) + 1] = e
  BY AppendProperties, LenProperties
<1>2. \A o : In(o, Append(seq, e)) <=> In(o, seq) \/ o = e
  BY <1>1 DEF In
<1>3. Distinct(seq) /\ ~In(e, seq) => Distinct(Append(seq, e))
  BY <1>1 DEF In, Distinct
<1>4. seq # <<>> => Head(Append(seq, e)) = Head(seq)
  BY <1>1, HeadTailProperties, EmptySeq
<1>5. seq = <<>> => Head(Append(seq, e)) = e
  BY <1>1, HeadTailProperties, EmptySeq
<1>6. QED BY <1>1, <1>2, <1>3, <1>4, <1>5

LEMMA OneHas ==
  ASSUME NEW e
  PROVE  /\ Distinct(<<e>>) /\ Head(<<e>>) = e /\ <<e>> # <<>> /\ Tail(<<e>>) = <<>>
         /\ \A o : In(o, <<e>>) <=> o = e
         /\ \A o : ~In(o, <<>>)
         /\ Distinct(<<>>)
BY DEF In, Distinct

LEMMA ContentParts ==
  /\ Absent \in Content /\ Torn \in Content /\ <<>> \in Log
  /\ Absent.is = "absent" /\ Torn.is = "torn" /\ Absent.log = <<>> /\ Torn.log = <<>>
  /\ \A s \in Log : State(s) \in Content /\ State(s).is = "state" /\ State(s).log = s
  /\ \A c \in Content : /\ c.is \in {"absent", "torn", "state"} /\ c.log \in Log
                        /\ c.is = "state" => c = State(c.log)
                        /\ c.is = "absent" => c = Absent
<1>1. <<>> \in Log
  BY EmptySeq DEF Log
<1>2. \A s \in Log : State(s) \in Content /\ State(s).is = "state" /\ State(s).log = s
  BY DEF Content, State
<1>3. ASSUME NEW c \in Content
      PROVE  /\ c.is \in {"absent", "torn", "state"} /\ c.log \in Log
             /\ c.is = "state" => c = State(c.log)
             /\ c.is = "absent" => c = Absent
  <2>1. CASE c \in {Absent, Torn}
    BY <1>1, <2>1 DEF Absent, Torn
  <2>2. CASE \E s \in Log : c = State(s)
    BY <1>2, <2>2
  <2>3. QED BY <2>1, <2>2 DEF Content
<1>4. QED BY <1>1, <1>2, <1>3 DEF Content, Absent, Torn

-----------------------------------------------------------------------------
(* The chain.                                                                *)

LEMMA RequestsAre == Ops \subseteq Requests /\ Boot \in Requests /\ Boot \notin Ops
                     /\ \A o \in Requests : o # Boot => o \in Ops
BY OpsAssumption DEF Requests

\* Who is running, and where the process is then.
LEMMA AtHead ==
  ASSUME TypeInv, QueueInv, NEW o \in Requests, Running(o)
  PROVE  /\ queue # <<>> /\ Head(queue) = o /\ In(o, queue) /\ process # "down"
         /\ process = "starting" <=> o = Boot
         /\ \A p \in Requests \ {o} : pc[p] \notin Committing
<1>1. queue # <<>> /\ Head(queue) = o /\ In(o, queue)
  BY TailHas DEF TypeInv, QueueInv, Running
<1>2. process # "down"
  BY <1>1 DEF QueueInv
<1>3. process = "starting" => o = Boot
  BY <1>1, OneHas DEF QueueInv
<1>4. o = Boot => process = "starting"
  BY <1>1, <1>2 DEF QueueInv, TypeInv
<1>5. \A p \in Requests \ {o} : pc[p] \notin Committing
  BY DEF QueueInv, Running
<1>6. QED BY <1>1, <1>2, <1>3, <1>4, <1>5

\* An operation is answered and leaves the chain.
LEMMA SettleKeeps ==
  ASSUME StateInv, NEW o \in Requests, Running(o), pc[o] \in Busy,
         NEW said \in {"ok", "unchanged", "failed"}, Settle(o, said),
         UNCHANGED <<file, installed, damages>>,
         target' \in [Requests -> Files], loaded' \in [Requests -> Content]
  PROVE  StateInv'
<1>1. /\ TypeInv /\ QueueInv /\ DiskInv /\ EffectInv
      /\ pc' = [pc EXCEPT ![o] = said] /\ queue' = Tail(queue)
      /\ staged' = [staged EXCEPT ![o] = Absent]
      /\ process' = IF o # Boot THEN process ELSE IF said = "failed" THEN "down" ELSE "up"
  BY DEF StateInv, Settle
<1>2. /\ queue # <<>> /\ Head(queue) = o /\ In(o, queue) /\ process # "down"
      /\ process = "starting" <=> o = Boot
      /\ \A p \in Requests \ {o} : pc[p] \notin Committing
  BY <1>1, AtHead
<1>3. /\ queue' \in Seq(Requests) /\ Distinct(queue)'
      /\ \A p : In(p, queue)' <=> In(p, queue) /\ p # o
  BY <1>1, <1>2, TailHas DEF TypeInv, QueueInv
<1>4. /\ pc'[o] = said /\ said \in Answered /\ said \notin Busy /\ said \notin Committing
      /\ \A p \in Requests \ {o} : pc'[p] = pc[p]
  BY <1>1 DEF TypeInv, Answered, Busy, Committing
<1>5. TypeInv'
  BY <1>1, <1>3, <1>4, ContentParts DEF TypeInv
<1>6. o = Boot => queue' = <<>>
  BY <1>1, <1>2, OneHas DEF QueueInv
<1>7. QueueInv'
  <2>1. \A p \in Requests : pc'[p] \in Busy <=> In(p, queue)'
    BY <1>1, <1>3, <1>4 DEF QueueInv
  <2>2. \A p \in Requests : pc'[p] \notin Committing
    BY <1>2, <1>4
  <2>3. /\ process' = "down" => queue' = <<>>
        /\ process' # "starting"
        /\ process' = "up" => ~In(Boot, queue)'
    BY <1>1, <1>2, <1>3, <1>6 DEF QueueInv, TypeInv
  <2>4. QED BY <1>3, <2>1, <2>2, <2>3 DEF QueueInv
<1>8. DiskInv'
  BY <1>1 DEF DiskInv
<1>9. CommitInv'
  BY <1>2, <1>4 DEF CommitInv
<1>10. EffectInv'
  <2>1. ASSUME NEW p \in Ops, In(p, installed.last)'
        PROVE  pc'[p] \in Answered
    <3>1. pc[p] \in Answered \/ pc[p] \in Committing
      BY <1>1, <2>1 DEF EffectInv, Installed, Committing
    <3>2. QED BY <1>2, <1>4, <3>1, RequestsAre
  <2>2. QED BY <2>1 DEF EffectInv
<1>11. QED BY <1>5, <1>7, <1>8, <1>9, <1>10 DEF StateInv

\* An operation goes on with its commit.
LEMMA GoesOn ==
  ASSUME StateInv, NEW o \in Requests, Running(o), pc[o] \in Busy,
         NEW next \in Committing, pc' = [pc EXCEPT ![o] = next],
         UNCHANGED <<process, queue>>
  PROVE  /\ QueueInv'
         /\ pc' \in [Requests -> {"new"} \cup Busy \cup Answered] /\ pc'[o] = next
         /\ \A p \in Requests \ {o} : pc'[p] = pc[p] /\ pc'[p] \notin Committing
<1>1. TypeInv /\ QueueInv
  BY DEF StateInv
<1>2. \A p \in Requests \ {o} : pc[p] \notin Committing
  BY <1>1, AtHead
<1>3. /\ pc' \in [Requests -> {"new"} \cup Busy \cup Answered] /\ pc'[o] = next /\ next \in Busy
      /\ \A p \in Requests \ {o} : pc'[p] = pc[p]
  BY <1>1 DEF TypeInv, Busy
<1>4. QueueInv'
  BY <1>1, <1>2, <1>3 DEF QueueInv, Running
<1>5. QED BY <1>2, <1>3, <1>4
-----------------------------------------------------------------------------
(* The steps of an operation.                                                *)

LEMMA ThrowStep ==
  ASSUME StateInv, NEW o \in Requests, Throw(o)
  PROVE  StateInv'
BY SettleKeeps DEF Throw, Busy, StateInv, TypeInv

\* What is read is the newest installed state, or nothing was ever installed.
LEMMA LoadStep ==
  ASSUME StateInv, NEW o \in Requests, Load(o)
  PROVE  StateInv'
<1>1. /\ Running(o) /\ pc[o] = "queued" /\ pc[o] \in Busy /\ Readable
      /\ loaded' = [loaded EXCEPT ![o] = file["primary"]]
      /\ UNCHANGED <<file, installed, damages>>
      /\ TypeInv /\ QueueInv /\ DiskInv /\ EffectInv /\ "primary" \in Files /\ "previous" \in Files
  BY DEF Load, Busy, StateInv, Files
<1>2. file["primary"] \in Content /\ loaded' \in [Requests -> Content] /\ loaded'[o] = file["primary"]
  BY <1>1 DEF TypeInv
<1>3. CASE file["primary"] # Absent /\ Settle(o, "unchanged") /\ UNCHANGED target
  <2>1. target' \in [Requests -> Files]
    BY <1>1, <1>3 DEF TypeInv
  <2>2. QED BY <1>1, <1>2, <1>3, <2>1, SettleKeeps
<1>4. CASE /\ o = Boot => file["primary"] = Absent
           /\ target' = [target EXCEPT ![o] = IF file["primary"] = Absent THEN "primary" ELSE "previous"]
           /\ pc' = [pc EXCEPT ![o] = "stage"]
           /\ UNCHANGED <<process, queue, staged>>
  <2>1. "stage" \in Committing
    BY DEF Committing
  <2>2. /\ QueueInv'
        /\ pc' \in [Requests -> {"new"} \cup Busy \cup Answered] /\ pc'[o] = "stage"
        /\ \A p \in Requests \ {o} : pc'[p] = pc[p] /\ pc'[p] \notin Committing
    BY <1>1, <1>4, <2>1, GoesOn
  <2>3. /\ target' \in [Requests -> Files]
        /\ target'[o] = IF file["primary"] = Absent THEN "primary" ELSE "previous"
    BY <1>1, <1>4 DEF TypeInv, Files
  <2>4. TypeInv'
    BY <1>1, <1>2, <1>4, <2>2, <2>3 DEF TypeInv
  <2>5. DiskInv'
    BY <1>1 DEF DiskInv
  <2>6. file["primary"].is = "state" \/ FreshInstall
    BY <1>1 DEF Readable
  <2>7. file["primary"] # Absent => file["primary"].is = "state"
    BY <2>6 DEF FreshInstall
  <2>8. file["primary"] = Absent => /\ file["previous"].is # "state" /\ installed.last = <<>>
    <3>1. ASSUME file["primary"] = Absent PROVE file["previous"] = Absent
      BY <2>6, <3>1, ContentParts DEF FreshInstall
    <3>2. ASSUME file["primary"] = Absent PROVE installed.last = <<>>
      BY <1>1, <1>2, <3>1, <3>2, ContentParts DEF DiskInv, TypeInv
    <3>3. QED BY <3>1, <3>2, ContentParts
  <2>9. file["primary"].log = installed.last
    BY <1>1, <1>2, <2>7, <2>8, ContentParts DEF DiskInv, TypeInv
  <2>10. CommitInv'
    BY <1>1, <1>2, <1>4, <2>2, <2>3, <2>7, <2>8, <2>9 DEF CommitInv, Installed
  <2>11. EffectInv'
    <3>1. ASSUME NEW p \in Ops, In(p, installed.last)
          PROVE  pc'[p] \in Answered
      BY <1>1, <2>2, <3>1, RequestsAre DEF EffectInv, Installed, Committing, Answered
    <3>2. QED BY <1>1, <3>1 DEF EffectInv
  <2>12. QED BY <2>2, <2>4, <2>5, <2>10, <2>11 DEF StateInv
<1>5. QED BY <1>3, <1>4 DEF Load

\* The steps before the rename leave the disk and the chain as they are.
LEMMA BeforeRename ==
  ASSUME StateInv, NEW o \in Requests, Running(o), pc[o] \in {"stage", "verify"},
         NEW next \in {"verify", "rename"}, pc' = [pc EXCEPT ![o] = next],
         UNCHANGED <<process, queue, target, loaded, file, installed, damages>>,
         staged' \in [Requests -> Content], next = "rename" => staged'[o] = Intended(o)
  PROVE  StateInv'
<1>1. TypeInv /\ QueueInv /\ DiskInv /\ CommitInv /\ EffectInv /\ pc[o] \in Busy
      /\ next \in Committing /\ pc[o] \in Committing
  BY DEF StateInv, Busy, Committing
<1>2. /\ QueueInv'
      /\ pc' \in [Requests -> {"new"} \cup Busy \cup Answered] /\ pc'[o] = next
      /\ \A p \in Requests \ {o} : pc'[p] = pc[p] /\ pc'[p] \notin Committing
  BY <1>1, GoesOn
<1>3. TypeInv' /\ DiskInv'
  BY <1>1, <1>2 DEF TypeInv, DiskInv
<1>4. CommitInv'
  <2>1. Intended(o)' = Intended(o) /\ Candidate(o)' = Candidate(o)
    BY DEF Intended, Candidate
  <2>2. QED BY <1>1, <1>2, <2>1 DEF CommitInv, Installed
<1>5. EffectInv'
  BY <1>1, <1>2, RequestsAre DEF EffectInv, Installed, Answered
<1>6. QED BY <1>2, <1>3, <1>4, <1>5 DEF StateInv

LEMMA IntendedTyped ==
  ASSUME StateInv, NEW o \in Requests, pc[o] \in Committing
  PROVE  /\ Candidate(o) \in Log /\ Intended(o) \in Content /\ Intended(o).is = "state"
         /\ o # Boot => Candidate(o) = Append(loaded[o].log, o)
         /\ o = Boot => Candidate(o) = <<>>
<1>1. loaded[o] \in Content /\ loaded[o].log \in Log /\ TypeInv /\ CommitInv
  BY ContentParts DEF StateInv, TypeInv
<1>2. Candidate(o) \in Log
  BY <1>1, AppendProperties, RequestsAre DEF Candidate, Log
<1>3. target[o] = "previous" => loaded[o].is = "state"
  BY <1>1 DEF CommitInv
<1>4. Intended(o) \in Content /\ Intended(o).is = "state"
  BY <1>1, <1>2, <1>3, ContentParts DEF Intended
<1>5. o = Boot => Candidate(o) = <<>>
  BY <1>1, ContentParts DEF CommitInv, Candidate
<1>6. QED BY <1>2, <1>4, <1>5 DEF Candidate

LEMMA StageStep ==
  ASSUME StateInv, NEW o \in Requests, Stage(o)
  PROVE  StateInv'
<1>1. Running(o) /\ pc[o] = "stage" /\ pc[o] \in Committing /\ "verify" \in {"verify", "rename"}
      /\ pc' = [pc EXCEPT ![o] = "verify"]
      /\ UNCHANGED <<process, queue, target, loaded, file, installed, damages>>
  BY DEF Stage, Committing
<1>2. PICK kept \in {Intended(o), Torn} : staged' = [staged EXCEPT ![o] = kept]
  BY DEF Stage
<1>3. staged' \in [Requests -> Content]
  BY <1>1, <1>2, IntendedTyped, ContentParts DEF StateInv, TypeInv
<1>4. QED BY <1>1, <1>3, BeforeRename

LEMMA VerifyStep ==
  ASSUME StateInv, NEW o \in Requests, VerifyStaged(o)
  PROVE  StateInv'
BY BeforeRename DEF VerifyStaged, StagedAsIntended, StateInv, TypeInv

\* The previous file receives the newest state; then the primary its successor.
LEMMA RenameStep ==
  ASSUME StateInv, NEW o \in Requests, Rename(o)
  PROVE  StateInv'
<1>1. /\ Running(o) /\ pc[o] = "rename" /\ pc[o] \in Committing /\ pc[o] \in Busy
      /\ "confirm" \in Committing
      /\ file' = [file EXCEPT ![target[o]] = staged[o]]
      /\ staged' = [staged EXCEPT ![o] = Absent]
      /\ installed' = IF target[o] = "primary" /\ o # Boot
                      THEN [last |-> Candidate(o), before |-> installed.last]
                      ELSE installed
      /\ damages' = damages \ {target[o]}
      /\ pc' = [pc EXCEPT ![o] = "confirm"]
      /\ UNCHANGED <<process, queue, target, loaded>>
  BY DEF Rename, Committing, Busy
<1>2. TypeInv /\ QueueInv /\ DiskInv /\ CommitInv /\ EffectInv
  BY DEF StateInv
<1>3. /\ QueueInv'
      /\ pc' \in [Requests -> {"new"} \cup Busy \cup Answered] /\ pc'[o] = "confirm"
      /\ \A p \in Requests \ {o} : pc'[p] = pc[p] /\ pc'[p] \notin Committing
  BY <1>1, GoesOn
<1>4. /\ staged[o] = Intended(o) /\ Intended(o) \in Content /\ Intended(o).is = "state"
      /\ Candidate(o) \in Log /\ loaded[o].log = installed.last
      /\ o # Boot => Candidate(o) = Append(loaded[o].log, o)
      /\ o = Boot => Candidate(o) = <<>>
  BY <1>1, <1>2, IntendedTyped DEF CommitInv, Installed
<1>5. /\ target[o] \in Files /\ file' \in [Files -> Content] /\ file'[target[o]] = Intended(o)
      /\ \A f \in Files \ {target[o]} : file'[f] = file[f]
  BY <1>1, <1>2, <1>4 DEF TypeInv
<1>6. installed' \in [last : Log, before : Log] /\ installed \in [last : Log, before : Log]
  BY <1>1, <1>2, <1>4 DEF TypeInv
<1>7. TypeInv'
  BY <1>1, <1>2, <1>3, <1>5, <1>6, ContentParts DEF TypeInv
<1>8. Intended(o)' = Intended(o) /\ Candidate(o)' = Candidate(o)
  BY <1>1 DEF Intended, Candidate
<1>9. CASE target[o] = "previous"
  <2>1. /\ installed' = installed /\ file'["primary"] = file["primary"]
        /\ file'["previous"] = loaded[o] /\ loaded[o].is = "state" /\ loaded[o].log = installed.last
        /\ damages' \subseteq damages /\ ("primary" \in damages' <=> "primary" \in damages)
        /\ "previous" \notin damages'
    BY <1>1, <1>4, <1>5, <1>9 DEF Intended, Files
  <2>2. DiskInv'
    BY <1>2, <2>1 DEF DiskInv, TypeInv, Files
  <2>3. CommitInv'
    BY <1>1, <1>2, <1>3, <1>9, <2>1 DEF CommitInv, Installed
  <2>4. EffectInv'
    BY <1>1, <1>2, <1>3, <1>9, <2>1, RequestsAre DEF EffectInv, Installed, Answered
  <2>5. QED BY <1>3, <1>7, <2>2, <2>3, <2>4 DEF StateInv
<1>10. CASE target[o] = "primary"
  <2>1. /\ file'["primary"] = State(Candidate(o)) /\ file'["previous"] = file["previous"]
        /\ "primary" \notin damages' /\ damages' \subseteq damages
        /\ file["previous"].is = "state" => file["previous"].log = installed.last
        /\ \A f \in damages' : f = "previous"
    BY <1>1, <1>2, <1>4, <1>5, <1>10 DEF Intended, CommitInv, Installed, Files, TypeInv
  <2>5. /\ \E f \in Files : damages' \subseteq {f}
        /\ \A f \in damages' : file'[f].is # "state"
    BY <1>2, <2>1 DEF DiskInv, Files
  <2>2. CASE o # Boot
    <3>1. /\ installed'.last = Candidate(o) /\ installed'.before = installed.last
          /\ Candidate(o) = Append(installed.last, o)
      BY <1>1, <1>4, <1>10, <2>2
    <3>2. /\ Candidate(o) # <<>> /\ installed.last \in Seq(Ops) /\ o \in Ops
          /\ \A p : In(p, Candidate(o)) => In(p, installed.last) \/ p = o
      BY <1>6, <2>2, <3>1, AppendHas, RequestsAre DEF Log
    <3>3. DiskInv'
      <4>1. file'["primary"] = State(installed'.last)
        BY <2>1, <3>1
      <4>2. file'["previous"].is = "state" => file'["previous"].log = installed'.before
        BY <2>1, <3>1
      <4>3. installed'.last # <<>>
        BY <3>1, <3>2
      <4>4. QED BY <2>1, <2>5, <4>1, <4>2, <4>3 DEF DiskInv
    <3>4. CommitInv'
      BY <1>1, <1>2, <1>3, <1>8, <1>10, <2>2, <3>1 DEF CommitInv, Installed
    <3>5. EffectInv'
      <4>1. ASSUME NEW p \in Ops, In(p, installed.last), p # o
            PROVE  pc'[p] \in Answered
        BY <1>2, <1>3, <4>1, RequestsAre DEF EffectInv, Installed, Committing
      <4>2. QED BY <1>1, <1>3, <1>10, <3>1, <3>2, <4>1 DEF EffectInv, Installed
    <3>6. QED BY <1>3, <1>7, <3>3, <3>4, <3>5 DEF StateInv
  <2>3. CASE o = Boot
    <3>1. /\ installed' = installed /\ installed.last = <<>> /\ loaded[o] = Absent
          /\ file'["primary"].log = <<>>
      BY <1>1, <1>2, <1>4, <2>1, <2>3, ContentParts DEF CommitInv
    <3>2. DiskInv'
      <4>1. installed'.last = <<>>
        BY <3>1
      <4>2. file'["previous"].is = "state" => file'["previous"].log = installed'.last
        BY <2>1, <3>1
      <4>3. QED BY <2>1, <2>5, <3>1, <4>1, <4>2 DEF DiskInv
    <3>3. CommitInv'
      BY <1>1, <1>2, <1>3, <1>8, <1>10, <2>3, <3>1 DEF CommitInv, Installed
    <3>4. EffectInv'
      BY <3>1, OneHas DEF EffectInv
    <3>5. QED BY <1>3, <1>7, <3>2, <3>3, <3>4 DEF StateInv
  <2>4. QED BY <2>2, <2>3
<1>11. QED BY <1>5, <1>9, <1>10 DEF Files

LEMMA ConfirmStep ==
  ASSUME StateInv, NEW o \in Requests, Confirm(o)
  PROVE  StateInv'
<1>1. /\ Running(o) /\ pc[o] = "confirm" /\ pc[o] \in Busy /\ pc[o] \in Committing
      /\ file[target[o]] = Intended(o) /\ "stage" \in Committing
      /\ UNCHANGED <<loaded, file, installed, damages>>
  BY DEF Confirm, Busy, Committing
<1>2. TypeInv /\ QueueInv /\ DiskInv /\ CommitInv /\ EffectInv /\ target[o] \in Files
  BY DEF StateInv, TypeInv
<1>3. CASE target[o] = "primary"
  <2>1. Settle(o, "ok") /\ UNCHANGED target
    BY <1>3 DEF Confirm, NextTarget
  <2>2. QED BY <1>1, <1>2, <2>1, SettleKeeps DEF TypeInv
<1>4. CASE target[o] = "previous"
  <2>1. /\ target' = [target EXCEPT ![o] = "primary"] /\ pc' = [pc EXCEPT ![o] = "stage"]
        /\ UNCHANGED <<process, queue, staged>>
    BY <1>4 DEF Confirm, NextTarget
  <2>2. /\ QueueInv'
        /\ pc' \in [Requests -> {"new"} \cup Busy \cup Answered] /\ pc'[o] = "stage"
        /\ \A p \in Requests \ {o} : pc'[p] = pc[p] /\ pc'[p] \notin Committing
    BY <1>1, <2>1, GoesOn
  <2>3. target' \in [Requests -> Files] /\ target'[o] = "primary"
    BY <1>2, <2>1 DEF TypeInv, Files
  <2>4. TypeInv' /\ DiskInv'
    BY <1>1, <1>2, <2>1, <2>2, <2>3 DEF TypeInv, DiskInv
  <2>5. file["previous"] = loaded[o] /\ loaded[o].log = installed.last /\ o # Boot
    BY <1>1, <1>2, <1>4 DEF Intended, CommitInv, Installed
  <2>6. CommitInv'
    BY <1>1, <2>2, <2>3, <2>5 DEF CommitInv, Installed
  <2>7. EffectInv'
    <3>1. ASSUME NEW p \in Ops, In(p, installed.last)
          PROVE  pc'[p] \in Answered
      BY <1>1, <1>2, <1>4, <2>2, <3>1, RequestsAre DEF EffectInv, Installed, Committing, Answered
    <3>2. QED BY <1>1, <3>1 DEF EffectInv
  <2>8. QED BY <2>2, <2>4, <2>6, <2>7 DEF StateInv
<1>5. QED BY <1>2, <1>3, <1>4 DEF Files

-----------------------------------------------------------------------------
(* The process, its callers, and the world.                                  *)

LEMMA BeginsStep ==
  ASSUME StateInv, Start \/ \E o \in Ops : Request(o)
  PROVE  StateInv'
<1>1. TypeInv /\ QueueInv /\ DiskInv /\ CommitInv /\ EffectInv
  BY DEF StateInv
<1>2. \A p \in Requests : pc[p] = "new" => ~In(p, queue)
  BY <1>1 DEF QueueInv, Busy, Committing
<1>3. CASE Start
  <2>1. /\ process = "down" /\ process' = "starting" /\ queue' = <<Boot>> /\ queue = <<>>
        /\ pc' = [pc EXCEPT ![Boot] = "queued"]
        /\ UNCHANGED <<target, loaded, staged, file, installed, damages>>
    BY <1>1, <1>3 DEF Start, QueueInv
  <2>2. /\ pc'[Boot] = "queued" /\ \A p \in Requests \ {Boot} : pc'[p] = pc[p]
        /\ "queued" \in Busy /\ "queued" \notin Committing
        /\ \A p \in Requests : pc[p] \notin Busy
    BY <1>1, <2>1, OneHas, RequestsAre DEF TypeInv, QueueInv, Busy, Committing
  <2>3. TypeInv'
    BY <1>1, <2>1, <2>2, RequestsAre DEF TypeInv
  <2>4. QueueInv'
    BY <2>1, <2>2, OneHas, RequestsAre DEF QueueInv, Busy
  <2>5. DiskInv' /\ CommitInv'
    BY <1>1, <2>1, <2>2 DEF DiskInv, CommitInv, Busy
  <2>6. EffectInv'
    BY <1>1, <2>1, <2>2, RequestsAre DEF EffectInv, Installed
  <2>7. QED BY <2>3, <2>4, <2>5, <2>6 DEF StateInv
<1>4. CASE \E o \in Ops : Request(o)
  <2>1. PICK o \in Ops : Request(o)
    BY <1>4
  <2>2. /\ process = "up" /\ pc[o] = "new" /\ queue' = Append(queue, o) /\ o \in Requests
        /\ pc' = [pc EXCEPT ![o] = "queued"]
        /\ UNCHANGED <<process, target, loaded, staged, file, installed, damages>>
    BY <2>1, RequestsAre DEF Request
  <2>3. /\ queue' \in Seq(Requests) /\ Distinct(queue)' /\ queue' # <<>>
        /\ \A p : In(p, queue)' <=> In(p, queue) \/ p = o
        /\ queue # <<>> => Head(queue)' = Head(queue)
    BY <1>1, <1>2, <2>2, AppendHas DEF TypeInv, QueueInv
  <2>4. /\ pc'[o] = "queued" /\ \A p \in Requests \ {o} : pc'[p] = pc[p]
        /\ "queued" \in Busy /\ "queued" \notin Committing
    BY <1>1, <2>2 DEF TypeInv, Busy, Committing
  <2>5. TypeInv'
    BY <1>1, <2>2, <2>3, <2>4 DEF TypeInv
  <2>6. QueueInv'
    BY <1>1, <2>2, <2>3, <2>4, RequestsAre DEF QueueInv, Running
  <2>7. DiskInv'
    BY <1>1, <2>2 DEF DiskInv
  <2>8. CommitInv'
    <3>1. ASSUME NEW p \in Requests, pc'[p] \in Committing PROVE p # o /\ pc'[p] = pc[p]
      BY <2>4, <3>1
    <3>2. QED BY <1>1, <2>2, <3>1 DEF CommitInv, Installed, Candidate, Intended
  <2>9. EffectInv'
    BY <1>1, <2>2, <2>4, RequestsAre DEF EffectInv, Installed, Answered
  <2>10. QED BY <2>5, <2>6, <2>7, <2>8, <2>9 DEF StateInv
<1>5. QED BY <1>3, <1>4

LEMMA CrashStep ==
  ASSUME StateInv, Crash
  PROVE  StateInv'
<1>1. /\ TypeInv /\ QueueInv /\ DiskInv /\ CommitInv /\ EffectInv
      /\ process' = "down" /\ queue' = <<>>
      /\ pc' = [o \in Requests |-> IF pc[o] \in Busy THEN "lost" ELSE pc[o]]
      /\ staged' = [o \in Requests |-> Absent]
      /\ UNCHANGED <<target, loaded, file, installed, damages>>
  BY DEF StateInv, Crash, Busy
<1>2. \A o \in Requests : /\ pc'[o] \in {"new"} \cup Answered /\ pc'[o] \notin Busy
                          /\ pc'[o] \notin Committing
                          /\ (pc[o] \in Busy \cup Answered => pc'[o] \in Answered)
  BY <1>1 DEF TypeInv, Busy, Committing, Answered
<1>3. TypeInv'
  BY <1>1, <1>2, ContentParts, EmptySeq DEF TypeInv
<1>4. QueueInv'
  BY <1>1, <1>2, OneHas DEF QueueInv
<1>5. DiskInv' /\ CommitInv'
  BY <1>1, <1>2 DEF DiskInv, CommitInv
<1>6. EffectInv'
  BY <1>1, <1>2, RequestsAre DEF EffectInv, Installed, Busy, Committing
<1>7. QED BY <1>3, <1>4, <1>5, <1>6 DEF StateInv

LEMMA DamageStep ==
  ASSUME StateInv, NEW f \in Files, Damage(f)
  PROVE  StateInv'
<1>1. /\ TypeInv /\ QueueInv /\ DiskInv /\ CommitInv /\ EffectInv
      /\ \A g \in Files \ {f} : file[g].is = "state"
      /\ damages' = {f}
      /\ UNCHANGED <<process, queue, pc, target, loaded, staged, installed>>
  BY DEF StateInv, Damage
<1>2. PICK c \in {Absent, Torn} : file' = [file EXCEPT ![f] = c]
  BY DEF Damage
<1>3. /\ c \in Content /\ c.is # "state" /\ file' \in [Files -> Content] /\ file'[f] = c
      /\ \A g \in Files \ {f} : file'[g] = file[g] /\ file'[g].is = "state"
  BY <1>1, <1>2, ContentParts DEF TypeInv
<1>4. TypeInv'
  BY <1>1, <1>3 DEF TypeInv
<1>5. QueueInv'
  BY <1>1 DEF QueueInv, Running
<1>6. DiskInv'
  BY <1>1, <1>3 DEF DiskInv, Files, TypeInv
<1>7. CommitInv'
  BY <1>1, <1>3 DEF CommitInv, Installed, Candidate, Intended, Files
<1>8. EffectInv'
  BY <1>1 DEF EffectInv, Installed
<1>9. QED BY <1>4, <1>5, <1>6, <1>7, <1>8 DEF StateInv
-----------------------------------------------------------------------------
(* The invariant.                                                            *)

LEMMA InitState == Init => StateInv
<1>1. SUFFICES ASSUME Init PROVE StateInv
  OBVIOUS
<1>2. TypeInv
  BY <1>1, ContentParts, EmptySeq, RequestsAre DEF Init, TypeInv, Files
<1>3. QueueInv
  BY <1>1, OneHas, RequestsAre DEF Init, QueueInv, Busy, Committing
<1>4. DiskInv
  BY <1>1, ContentParts DEF Init, DiskInv, Files
<1>5. CommitInv
  BY <1>1 DEF Init, CommitInv, Committing
<1>6. EffectInv
  BY <1>1, OneHas DEF Init, EffectInv
<1>7. QED BY <1>2, <1>3, <1>4, <1>5, <1>6 DEF StateInv

LEMMA StepState == StateInv /\ [Next]_vars => StateInv'
<1>1. SUFFICES ASSUME StateInv, [Next]_vars PROVE StateInv'
  OBVIOUS
<1>2. CASE Start \/ \E o \in Ops : Request(o)
  BY <1>1, <1>2, BeginsStep
<1>3. CASE Crash
  BY <1>1, <1>3, CrashStep
<1>4. CASE \E o \in Requests : Step(o)
  <2>1. PICK o \in Requests : Step(o)
    BY <1>4
  <2>2. CASE Load(o)
    BY <1>1, <2>2, LoadStep
  <2>3. CASE Stage(o)
    BY <1>1, <2>3, StageStep
  <2>4. CASE VerifyStaged(o)
    BY <1>1, <2>4, VerifyStep
  <2>5. CASE Rename(o)
    BY <1>1, <2>5, RenameStep
  <2>6. CASE Confirm(o)
    BY <1>1, <2>6, ConfirmStep
  <2>7. CASE Throw(o)
    BY <1>1, <2>7, ThrowStep
  <2>8. QED BY <2>1, <2>2, <2>3, <2>4, <2>5, <2>6, <2>7 DEF Step
<1>5. CASE \E f \in Files : Damage(f)
  BY <1>1, <1>5, DamageStep
<1>6. CASE UNCHANGED vars
  <2>1. /\ TypeInv' /\ QueueInv' /\ DiskInv'
    BY <1>1, <1>6 DEF vars, StateInv, TypeInv, QueueInv, DiskInv, Running
  <2>2. CommitInv' /\ EffectInv'
    BY <1>1, <1>6 DEF vars, StateInv, CommitInv, EffectInv, Installed, Candidate, Intended
  <2>3. QED BY <2>1, <2>2 DEF StateInv
<1>7. QED BY <1>1, <1>2, <1>3, <1>4, <1>5, <1>6 DEF Next

LEMMA StateAlways == Spec => []StateInv
BY InitState, StepState, PTL DEF Spec

\* At every moment of every commit, through crashes, failing calls and a damaged
\* file, state.json is the newest installed state unless it is the damaged one,
\* and the previous file is at most one state behind.
THEOREM FilesRecoverableAlways == Spec => []FilesRecoverable
<1>1. StateInv => FilesRecoverable
  <2>1. SUFFICES ASSUME StateInv PROVE FilesRecoverable
    OBVIOUS
  <2>2. TypeInv /\ QueueInv /\ DiskInv
    BY <2>1 DEF StateInv
  <2>3. \A f \in Files : file[f].is \in {"absent", "torn", "state"}
    BY <2>2, ContentParts DEF TypeInv
  <2>4. \A o \in Requests : pc[o] \in {"queued"} \cup Committing
                            <=> \E k \in 1 .. Len(queue) : queue[k] = o
    BY <2>2 DEF QueueInv, Busy, In
  <2>5. TypeOK
    BY <2>2, <2>3, <2>4 DEF TypeInv, TypeOK, Busy
  <2>6. QED BY <2>2, <2>5 DEF DiskInv, FilesRecoverable
<1>2. QED BY <1>1, StateAlways, PTL

-----------------------------------------------------------------------------
(* The register.                                                             *)

\* What the caller of a mutation knows.
Answer(o) == IF pc[o] \in {"queued"} \cup Committing THEN "pending" ELSE pc[o]

LEMMA SameRegister ==
  ASSUME installed'.last = installed.last, \A o \in Ops : Answer(o)' = Answer(o)
  PROVE  UNCHANGED Register!vars
<1>1. [o \in Ops |-> Answer(o)'] = [o \in Ops |-> Answer(o)]
  OBVIOUS
<1>2. QED BY <1>1 DEF Register!vars, Answer

\* An operation answers: for the caller, a reply; of initialize, nothing.
LEMMA SettleReplies ==
  ASSUME StateInv, NEW o \in Requests, pc[o] \in Busy,
         NEW said \in {"ok", "unchanged", "failed"}, Settle(o, said), UNCHANGED installed,
         o \in Ops /\ said = "ok" => In(o, installed.last),
         o \in Ops /\ said = "unchanged" => ~In(o, installed.last)
  PROVE  Register!Next \/ UNCHANGED Register!vars
<1>1. /\ pc' = [pc EXCEPT ![o] = said] /\ pc \in [Requests -> {"new"} \cup Busy \cup Answered]
      /\ said \notin {"queued"} \cup Committing /\ installed'.last = installed.last
  BY DEF Settle, StateInv, TypeInv, Committing
<1>2. \A p \in Ops : Answer(p)' = IF p = o THEN said ELSE Answer(p)
  BY <1>1, RequestsAre DEF Answer
<1>3. CASE o \in Ops
  <2>1. Answer(o) = "pending"
    BY DEF Answer, Busy
  <2>2. [p \in Ops |-> Answer(p)'] = [[p \in Ops |-> Answer(p)] EXCEPT ![o] = said]
    BY <1>2, <1>3
  <2>3. Register!Reply(o, said)
    BY <1>1, <1>3, <2>1, <2>2 DEF Register!Reply, Register!InEffect, In, Answer
  <2>4. QED BY <1>3, <2>3 DEF Register!Next
<1>4. CASE o = Boot
  BY <1>1, <1>2, <1>4, RequestsAre, SameRegister
<1>5. QED BY <1>3, <1>4, RequestsAre

LEMMA InstallTakesEffect ==
  ASSUME StateInv, NEW o \in Requests, Rename(o)
  PROVE  Register!Next \/ UNCHANGED Register!vars
<1>1. /\ pc[o] = "rename" /\ pc[o] \in Committing /\ pc' = [pc EXCEPT ![o] = "confirm"]
      /\ "confirm" \in Committing
      /\ installed' = IF target[o] = "primary" /\ o # Boot
                      THEN [last |-> Candidate(o), before |-> installed.last]
                      ELSE installed
      /\ pc \in [Requests -> {"new"} \cup Busy \cup Answered] /\ CommitInv /\ EffectInv
  BY DEF Rename, Committing, StateInv, TypeInv
<1>2. \A p \in Ops : Answer(p)' = Answer(p)
  BY <1>1, RequestsAre DEF Answer
<1>3. CASE target[o] = "primary" /\ o # Boot
  <2>1. o \in Ops /\ Answer(o) = "pending"
    BY <1>1, <1>3, RequestsAre DEF Answer
  <2>2. ~In(o, installed.last)
    BY <1>1, <2>1 DEF EffectInv, Installed, Answered
  <2>3. installed'.last = Append(installed.last, o)
    BY <1>1, <1>3 DEF Candidate, CommitInv, Installed
  <2>4. [p \in Ops |-> Answer(p)'] = [p \in Ops |-> Answer(p)]
    BY <1>2
  <2>5. Register!TakeEffect(o)
    BY <2>1, <2>2, <2>3, <2>4 DEF Register!TakeEffect, Register!InEffect, In, Answer
  <2>6. QED BY <2>1, <2>5 DEF Register!Next
<1>4. CASE ~(target[o] = "primary" /\ o # Boot)
  BY <1>1, <1>2, <1>4, SameRegister
<1>5. QED BY <1>3, <1>4

LEMMA StepRegister ==
  StateInv /\ [Next]_vars => [Register!Next]_(Register!vars)
<1>1. SUFFICES ASSUME StateInv, [Next]_vars PROVE Register!Next \/ UNCHANGED Register!vars
  OBVIOUS
<1>2. /\ TypeInv /\ QueueInv /\ EffectInv /\ CommitInv
      /\ pc \in [Requests -> {"new"} \cup Busy \cup Answered]
  BY <1>1 DEF StateInv, TypeInv
<1>3. CASE Start
  <2>1. installed' = installed /\ \A p \in Ops : pc'[p] = pc[p]
    BY <1>2, <1>3, RequestsAre DEF Start
  <2>2. QED BY <2>1, SameRegister DEF Answer
<1>4. CASE Crash
  <2>1. /\ installed' = installed
        /\ \A p \in Ops : Answer(p)' = IF Answer(p) = "pending" THEN "lost" ELSE Answer(p)
    BY <1>2, <1>4, RequestsAre DEF Crash, Answer, Committing, Busy, Answered
  <2>2. [p \in Ops |-> Answer(p)']
          = [p \in Ops |-> IF [q \in Ops |-> Answer(q)][p] = "pending" THEN "lost"
                           ELSE [q \in Ops |-> Answer(q)][p]]
    BY <2>1
  <2>3. Register!Crash
    BY <2>1, <2>2 DEF Register!Crash, Answer
  <2>4. QED BY <2>3 DEF Register!Next
<1>5. CASE \E o \in Ops : Request(o)
  <2>1. PICK o \in Ops : Request(o)
    BY <1>5
  <2>2. /\ pc[o] = "new" /\ pc' = [pc EXCEPT ![o] = "queued"] /\ installed' = installed
        /\ Answer(o) = "new"
    BY <2>1 DEF Request, Answer, Committing
  <2>3. \A p \in Ops : Answer(p)' = IF p = o THEN "pending" ELSE Answer(p)
    BY <1>2, <2>2, RequestsAre DEF Answer
  <2>4. [p \in Ops |-> Answer(p)'] = [[p \in Ops |-> Answer(p)] EXCEPT ![o] = "pending"]
    BY <2>3
  <2>5. Register!Ask(o)
    BY <2>2, <2>4 DEF Register!Ask, Answer
  <2>6. QED BY <2>5 DEF Register!Next
<1>6. CASE \E o \in Requests : Step(o)
  <2>1. PICK o \in Requests : Step(o)
    BY <1>6
  <2>2. ASSUME NEW here \in Busy, NEW there \in Committing, pc[o] = here,
               pc' = [pc EXCEPT ![o] = there], installed' = installed
        PROVE  UNCHANGED Register!vars
    <3>1. \A p \in Ops : Answer(p)' = Answer(p)
      BY <1>2, <2>2, RequestsAre DEF Answer, Busy
    <3>2. QED BY <2>2, <3>1, SameRegister
  <2>3. {"stage", "verify", "rename", "confirm"} = Committing /\ Committing \subseteq Busy
        /\ "queued" \in Busy
    BY DEF Committing, Busy
  <2>4. CASE Load(o)
    <3>1. CASE Settle(o, "unchanged")
      <4>1. o \in Ops => ~In(o, installed.last)
        BY <1>2, <2>4 DEF Load, EffectInv, Installed, Answered
      <4>2. QED BY <1>1, <2>3, <2>4, <3>1, <4>1, SettleReplies DEF Load
    <3>2. CASE pc' = [pc EXCEPT ![o] = "stage"]
      BY <2>2, <2>3, <2>4, <3>2 DEF Load
    <3>3. QED BY <2>4, <3>1, <3>2 DEF Load
  <2>5. CASE Stage(o)
    BY <2>2, <2>3, <2>5 DEF Stage
  <2>6. CASE VerifyStaged(o)
    BY <2>2, <2>3, <2>6 DEF VerifyStaged
  <2>7. CASE Rename(o)
    BY <1>1, <2>7, InstallTakesEffect
  <2>8. CASE Confirm(o)
    <3>1. CASE NextTarget(o) # "none"
      BY <2>2, <2>3, <2>8, <3>1 DEF Confirm
    <3>2. CASE NextTarget(o) = "none"
      <4>1. pc[o] = "confirm" /\ target[o] = "primary" /\ Settle(o, "ok") /\ installed' = installed
        BY <1>2, <2>8, <3>2 DEF Confirm, NextTarget, TypeInv, Files
      <4>2. o \in Ops => In(o, installed.last)
        <5>1. SUFFICES ASSUME o \in Ops PROVE In(o, installed.last)
          OBVIOUS
        <5>2. installed.last = Candidate(o) /\ Candidate(o) = Append(loaded[o].log, o)
          BY <1>2, <2>3, <4>1, <5>1, RequestsAre DEF CommitInv, Installed, Candidate
        <5>3. loaded[o].log \in Seq(Ops)
          BY <1>2, ContentParts DEF TypeInv, Log
        <5>4. QED BY <5>1, <5>2, <5>3, AppendHas
      <4>3. QED BY <1>1, <2>3, <4>1, <4>2, SettleReplies
    <3>3. QED BY <3>1, <3>2
  <2>9. CASE Throw(o)
    BY <1>1, <2>9, SettleReplies DEF Throw, Busy
  <2>10. QED BY <2>1, <2>4, <2>5, <2>6, <2>7, <2>8, <2>9 DEF Step
<1>7. CASE \E f \in Files : Damage(f)
  BY <1>7, SameRegister DEF Damage, Answer
<1>8. CASE UNCHANGED vars
  BY <1>8, SameRegister DEF vars, Answer
<1>9. QED BY <1>1, <1>3, <1>4, <1>5, <1>6, <1>7, <1>8 DEF Next

LEMMA InitRegister == Init => Register!Init
BY RequestsAre DEF Init, Register!Init, Committing

\* The store implements the durable register: every call on the files, every crash
\* and every damaged file is one step of the register, or none; what takes effect
\* extends the newest installed state, never an older or an empty one.
THEOREM RegisterImplemented == Spec => ImplementsRegister
BY StateAlways, InitRegister, StepRegister, PTL DEF Spec, ImplementsRegister, Register!Spec

-----------------------------------------------------------------------------
(* The commands.  An orphan is a channel nobody knows: NoOrphans needs that  *)
(* every channel on Discord is mapped, in the hands of a request, or left by *)
(* one that failed (Known).  OneEffectPerCommand needs that a command makes  *)
(* at most one channel for each time its handling was cut short, plus one    *)
(* (Counted), and PickupsShare that one poll at a time picks channels up     *)
(* (Picking).                                                                *)

-----------------------------------------------------------------------------
(* Types.                                                                    *)

Written == UNION {{s.people[k].kind : k \in DOMAIN s.people} : s \in Scripts}

Kinds == {"none", "start thread", "bind channel", "close"} \cup Written

CommandState ==
  [kind : Written, by : {"title", "number", "none"}, key : Nat, refused : SUBSET STRING]

Spots ==
  {"idle", "turns", "told", "threads", "resolve", "find", "create", "ensure", "note", "noted", "create run",
   "board", "set run", "clear", "active", "register", "worker", "look", "adopt", "identify", "bind worker",
   "close worker", "companions", "archive", "close", "delete", "unmap", "prompt", "bind", "rename", "renamed",
   "waiting", "acknowledge", "refusal", "refuse", "keep", "cursor", "say", "report", "mark", "done"}

TaskState ==
  [at : Spots, kind : Kinds, by : {"title", "number", "none"}, key : Nat, cmd : Nat,
   ch : {0} \cup Channels, label : {0} \cup Titles, ref : Nat, sent : BOOLEAN, todo : SUBSET Channels]

MappingState == [short : Nat, label : {0} \cup Titles]

WorkerState == [run : Nat, ch : {0} \cup Channels, label : {0} \cup Titles, open : BOOLEAN]

CommandTypes ==
  /\ script \in Scripts
  /\ commands \in Seq(CommandState) /\ Len(commands) <= Len(script.people)
  /\ \A k \in 1 .. Len(commands) : commands[k] = script.people[k]
  /\ seen \in 0 .. Len(commands)
  /\ polling \in BOOLEAN
  /\ task \in [Tasks -> TaskState]
  /\ discord \subseteq Channels
  /\ mapping \in [Channels -> MappingState]
  /\ nextShort \in Nat \ {0}
  /\ list \in Lists
  /\ runs \in Seq({"open", "archived"}) /\ activeRun \in 0 .. Len(runs)
  /\ workers \in Seq(WorkerState)
  /\ faults \in 0 .. MaxFaults
  /\ maker \in [Channels -> [cmd : Nat, kind : Kinds]]
  /\ cut \in [Numbers -> Nat]
  /\ left \subseteq Channels

-----------------------------------------------------------------------------
(* Where a task can be.                                                      *)

ClosePlaces == {"close", "delete", "unmap"}

ThreadPlaces ==
  {"prompt", "bind", "rename", "renamed", "waiting", "acknowledge", "refusal", "refuse", "keep", "cursor"}

\* The places of a command's own; an answer, the report of an error and the move of
\* the cursor come after them.
Places(kind) ==
  CASE kind = "list"           -> {"threads"}
    [] kind = "new"            -> {"create", "ensure"}
    [] kind = "pickup"         -> {"resolve", "find", "create", "ensure", "note", "bind", "noted"}
    [] kind = "refresh"        -> {"resolve", "note", "bind", "noted"}
    [] kind = "start run"      -> {"create run", "set run"}
    [] kind = "switch run"     -> {"board", "set run"}
    [] kind = "clear run"      -> {"clear"}
    [] kind = "start worker"   -> {"active", "register", "create", "ensure", "bind worker"} \cup ThreadPlaces
    [] kind = "identity"       -> {"active", "worker", "look", "adopt", "identify", "bind", "rename", "renamed",
                                   "waiting", "bind worker"}
    [] kind = "close worker"   -> {"active", "worker", "close worker"}
    [] kind = "cleanup worker" -> {"active", "worker", "close worker"} \cup ClosePlaces
    [] kind = "archive run"    -> {"active", "archive", "clear"}
    [] kind = "cleanup run"    -> {"active", "companions", "archive", "clear"} \cup ClosePlaces
    [] OTHER                   -> {}

\* A poll handles the command after the cursor, or looks at turn states.
Polls(x) ==
  \/ x = Idle
  \/ x.at \in {"turns", "told"} /\ x.kind = "none" /\ x.cmd = 0 /\ x.ch = 0
  \/ /\ x.cmd = seen + 1 /\ x.cmd <= Len(commands)
     /\ x.kind = commands[x.cmd].kind /\ x.by = commands[x.cmd].by /\ x.key = commands[x.cmd].key
     /\ x.at \in Places(x.kind) \cup {"say", "report", "mark"}

Serves(x) ==
  /\ x.cmd = 0
  /\ \/ x = Idle
     \/ x.at = "done"
     \/ x.kind = "start thread" /\ x.at \in {"create", "ensure"} \cup ThreadPlaces
     \/ x.kind = "bind channel" /\ x.at \in {"create", "ensure"}
     \/ x.kind = "close" /\ x.at \in ClosePlaces

\* One poll at a time.
SolePoll ==
  /\ \A t \in Pollers : task[t] # Idle => polling
  /\ \A t, u \in Pollers : task[t] # Idle /\ task[u] # Idle => t = u

Stages ==
  /\ \A t \in Pollers : Polls(task[t])
  /\ \A t \in Operators : Serves(task[t])
  /\ SolePoll

-----------------------------------------------------------------------------
(* What a task has in hand.                                                  *)

MakerKinds == {"new", "pickup", "start worker", "start thread", "bind channel"}

WorkerKinds == {"identity", "close worker", "cleanup worker", "cleanup run"}

ChannelPlaces ==
  {"ensure", "note", "noted", "look", "adopt", "identify", "bind worker"} \cup ThreadPlaces \cup ClosePlaces

OfWorkers == {c \in Channels : maker[c].kind = "start worker"}

\* Its channel was made by it, or belongs to a worker.
HasChannel(x) ==
  /\ x.at \in ChannelPlaces => x.ch # 0
  /\ x.ch # 0 => x.ch \in Made
  /\ x.todo \subseteq Made
  /\ x.kind \in MakerKinds /\ x.ch # 0 => maker[x.ch].kind = x.kind
  /\ x.kind \in WorkerKinds => x.todo \subseteq OfWorkers /\ (x.ch # 0 => x.ch \in OfWorkers)

RunPlaces == {"set run", "archive", "register", "companions"}

WorkerPlaces ==
  {"create", "ensure", "bind worker", "look", "adopt", "identify", "close worker"} \cup ThreadPlaces \cup ClosePlaces

\* Its registry entry exists.
HasEntry(x) ==
  /\ \/ x.at \in RunPlaces
     \/ x.kind = "cleanup run" /\ x.at \in ClosePlaces
     => x.ref \in 1 .. Len(runs)
  /\ x.kind \in {"start worker", "identity", "close worker", "cleanup worker"} /\ x.at \in WorkerPlaces
     => x.ref \in 1 .. Len(workers)

Hands ==
  /\ \A t \in Tasks : HasChannel(task[t]) /\ HasEntry(task[t])
  /\ \A c \in Channels : Mapped(c) => c \in Made /\ mapping[c].short > 0
  /\ \A c \in Channels : mapping[c].short < nextShort
  /\ \A w \in 1 .. Len(workers) :
       workers[w].run \in 1 .. Len(runs) /\ (workers[w].ch # 0 => workers[w].ch \in OfWorkers)

-----------------------------------------------------------------------------
(* Channels on Discord.                                                      *)

Known ==
  /\ discord \subseteq Made
  /\ \A c \in discord : Mapped(c) \/ c \in left \/ \E t \in Tasks : At(t, "ensure") /\ Ch(t) = c
  /\ \A t \in Tasks : At(t, "unmap") => Ch(t) \notin discord

-----------------------------------------------------------------------------
(* The channels of a command.                                                *)

MadeFor(k) == {c \in Channels : maker[c].cmd = k}

\* Where a command may still make its channel.
Ahead == {"resolve", "find", "active", "register", "create"}

Unspent(k) == k > seen /\ \A t \in Pollers : task[t] # Idle /\ task[t].cmd = k => task[t].at \in Ahead

Counted ==
  \A k \in Numbers :
    /\ Cardinality(MadeFor(k)) <= cut[k] + 1
    /\ Unspent(k) => Cardinality(MadeFor(k)) <= cut[k]

-----------------------------------------------------------------------------
(* The channels that were picked up.                                         *)

PickedUp == {c \in Channels : maker[c].kind = "pickup"}

Exact(k) == ~(commands[k].by = "title" /\ commands[k].key \notin Threads)

\* A pickup found no channel with its label, and none gets it before its own.
Picks(x) ==
  /\ x.at = "find" => x.label \in Titles
  /\ x.at \in {"create", "ensure"} => x.label \in Threads
  /\ x.at \in {"find", "create", "ensure"} /\ Exact(x.cmd) =>
       /\ x.label \in Threads
       /\ \A c \in PickedUp : Mapped(c) => mapping[c].label # x.label
  /\ x.at = "ensure" =>
       /\ maker[x.ch].cmd = x.cmd
       /\ \A c \in PickedUp : c <= x.ch

\* What is to be bound to a channel that was picked up is its label already.
Rebinds(x) ==
  x.at \in {"note", "bind"} /\ x.ch \in PickedUp /\ Mapped(x.ch) => x.label = mapping[x.ch].label

Picking ==
  /\ \A c \in Channels, d \in Made : c < d => c \in Made
  /\ \A c \in PickedUp : maker[c].cmd \in 1 .. Len(commands)
  /\ \A c \in PickedUp : Mapped(c) => mapping[c].label \in Threads
  /\ \A t \in Pollers : (Kind(t) = "pickup" => Picks(task[t])) /\ Rebinds(task[t])
  /\ \A c, d \in PickedUp : Mapped(c) /\ Mapped(d) /\ c < d /\ mapping[c].label = mapping[d].label => ~Exact(maker[d].cmd)

CommandsInv == CommandTypes /\ Stages /\ Hands /\ Known /\ Counted /\ Picking
-----------------------------------------------------------------------------
(* The initial state.                                                        *)

LEMMA IdleTyped == Idle \in TaskState
BY DEF Idle, TaskState, Spots, Kinds

LEMMA Commandless ==
  ASSUME CommandsAssumption
  PROVE  /\ Threads \subseteq Nat \ {0} /\ IsFiniteSet(Threads) /\ Cardinality(Threads) \in Nat
         /\ Cardinality(Channels) \in Nat
         /\ Numbers \subseteq Nat \ {0}
<1>1. IsFiniteSet(Threads) /\ Cardinality(Threads) \in Nat
  BY FS_Subset, FS_CardinalityType DEF CommandsAssumption
<1>2. Cardinality(Channels) \in Nat
  BY FS_CardinalityType DEF CommandsAssumption
<1>3. Numbers \subseteq Nat \ {0}
  <2>1. ASSUME NEW s \in Scripts PROVE DOMAIN s.people \subseteq Nat \ {0}
    <3>1. s.people \in Seq([kind : STRING, by : {"title", "number", "none"}, key : Nat, refused : SUBSET STRING])
      BY DEF CommandsAssumption
    <3>2. DOMAIN s.people = 1 .. Len(s.people) /\ Len(s.people) \in Nat
      BY <3>1
    <3>3. QED BY <3>2
  <2>2. QED BY <2>1 DEF Numbers
<1>4. QED BY <1>1, <1>2, <1>3 DEF CommandsAssumption

LEMMA EmptyLists == ASSUME CommandsAssumption PROVE <<>> \in Lists
<1>1. <<>> \in [1 .. 0 -> Threads] /\ 0 \in 0 .. Cardinality(Threads)
  BY Commandless
<1>2. <<>> \in SeqOf(Threads, Cardinality(Threads))
  BY <1>1 DEF SeqOf
<1>3. IsInjective(<<>>)
  BY DEF IsInjective
<1>4. QED BY <1>2, <1>3 DEF Lists

LEMMA InitCommandsInv == CommandsInit => CommandsInv
<1> SUFFICES ASSUME CommandsInit PROVE CommandsInv
  OBVIOUS
<1>1. CommandTypes
  <2>1. Len(script.people) \in Nat
    BY CommandsAssumption DEF CommandsInit, CommandsAssumption
  <2>2. <<>> \in Seq(CommandState) /\ Len(<<>>) = 0 /\ <<>> \in Seq({"open", "archived"}) /\ <<>> \in Seq(WorkerState)
    OBVIOUS
  <2>3. task \in [Tasks -> TaskState]
    BY IdleTyped DEF CommandsInit
  <2>4. mapping \in [Channels -> MappingState]
    BY DEF CommandsInit, Unmapped, MappingState
  <2>5. maker \in [Channels -> [cmd : Nat, kind : Kinds]] /\ cut \in [Numbers -> Nat]
    BY DEF CommandsInit, Kinds
  <2>6. list \in Lists
    BY EmptyLists, CommandsAssumption DEF CommandsInit
  <2>7. faults \in 0 .. MaxFaults
    BY CommandsAssumption DEF CommandsInit, CommandsAssumption
  <2>8. runs \in Seq({"open", "archived"}) /\ activeRun \in 0 .. Len(runs) /\ workers \in Seq(WorkerState)
    BY <2>2 DEF CommandsInit
  <2>9. commands \in Seq(CommandState) /\ Len(commands) = 0 /\ seen \in 0 .. Len(commands)
    BY <2>2 DEF CommandsInit
  <2>10. Len(commands) <= Len(script.people) /\ \A k \in 1 .. Len(commands) : commands[k] = script.people[k]
    BY <2>1, <2>9
  <2>11. script \in Scripts /\ discord \subseteq Channels /\ nextShort \in Nat \ {0} /\ left \subseteq Channels
    BY DEF CommandsInit
  <2>12. polling \in BOOLEAN
    BY DEF CommandsInit
  <2>13. QED BY <2>3, <2>4, <2>5, <2>6, <2>7, <2>8, <2>9, <2>10, <2>11, <2>12 DEF CommandTypes
<1>2. Made = {} /\ \A c \in Channels : ~Mapped(c)
  BY DEF CommandsInit, Made, Mapped
<1>3. \A t \in Tasks : task[t] = Idle
  BY DEF CommandsInit
<1>4. Stages
  <2>1. Idle.cmd = 0
    BY DEF Idle
  <2>2. QED BY <1>3, <2>1 DEF Stages, Polls, Serves, SolePoll, Tasks
<1>5. Hands
  <2>1. PICK x : x = Idle
    OBVIOUS
  <2>2. x.at = "idle" /\ x.kind = "none" /\ x.ch = 0 /\ x.todo = {}
    BY <2>1 DEF Idle
  <2>3. HasChannel(x) /\ HasEntry(x)
    BY <2>2 DEF HasChannel, HasEntry, ChannelPlaces, ThreadPlaces, ClosePlaces, MakerKinds, WorkerKinds, RunPlaces
  <2>4. \A c \in Channels : mapping[c].short < nextShort
    BY DEF CommandsInit, Unmapped
  <2>5. Len(workers) = 0
    BY DEF CommandsInit
  <2>6. QED BY <1>2, <1>3, <2>1, <2>3, <2>4, <2>5 DEF Hands
<1>6. Known
  BY <1>3 DEF Known, CommandsInit, At, Idle
<1>7. Counted
  <2>1. ASSUME NEW k \in Numbers PROVE MadeFor(k) = {} /\ cut[k] = 0
    <3>1. k # 0
      BY Commandless, CommandsAssumption
    <3>2. QED BY <3>1 DEF MadeFor, CommandsInit
  <2>2. Cardinality({}) = 0
    BY FS_EmptySet
  <2>3. QED BY <2>1, <2>2 DEF Counted
<1>8. Picking
  <2>1. PickedUp = {}
    BY DEF PickedUp, CommandsInit
  <2>2. Rebinds(Idle) /\ Idle.kind # "pickup"
    BY DEF Rebinds, Idle
  <2>3. \A t \in Pollers : task[t] = Idle
    BY <1>3 DEF Tasks
  <2>4. QED BY <1>2, <2>1, <2>2, <2>3 DEF Picking, Kind
<1>9. QED BY <1>1, <1>4, <1>5, <1>6, <1>7, <1>8 DEF CommandsInv

-----------------------------------------------------------------------------
(* A task carries on with what it has in hand, while the channels and their  *)
(* mappings, and the cursor, stay as they are.                               *)

\* It has the same command, and another place.
SameCommand(x, y) == y.cmd = x.cmd /\ y.kind = x.kind /\ y.by = x.by /\ y.key = x.key

MovesOn(t, x) ==
  /\ x \in TaskState /\ x # Idle /\ SameCommand(task[t], x)
  /\ t \in Pollers => Polls(x)
  /\ t \in Operators => Serves(x)
  /\ HasChannel(x)
  /\ x.at \in Ahead => task[t].at \in Ahead

CarriesOn(t, x) ==
  /\ MovesOn(t, x)
  /\ task[t].at # "ensure" /\ x.at # "unmap"
  /\ t \in Pollers => (x.kind = "pickup" => Picks(x)) /\ Rebinds(x)

SameChannels == UNCHANGED <<channel, seen, polling, discord, mapping, nextShort, maker, cut, left>>

\* What the other variables keep.
RestTyped ==
  /\ list \in Lists
  /\ runs \in Seq({"open", "archived"}) /\ activeRun \in 0 .. Len(runs)
  /\ workers \in Seq(WorkerState)
  /\ faults \in 0 .. MaxFaults
  /\ \A w \in 1 .. Len(workers) :
       workers[w].run \in 1 .. Len(runs) /\ (workers[w].ch # 0 => workers[w].ch \in OfWorkers)

Grows == Len(runs) <= Len(runs') /\ Len(workers) <= Len(workers')

LEMMA EntryStays ==
  ASSUME CommandTypes, RestTyped', Grows, NEW x \in TaskState, HasEntry(x)
  PROVE  HasEntry(x)'
<1>1. Len(runs) \in Nat /\ Len(runs') \in Nat /\ Len(workers) \in Nat /\ Len(workers') \in Nat
  BY DEF CommandTypes, RestTyped
<1>2. \A n : (n \in 1 .. Len(runs) => n \in 1 .. Len(runs')) /\ (n \in 1 .. Len(workers) => n \in 1 .. Len(workers'))
  BY <1>1 DEF Grows
<1>3. QED BY <1>2 DEF HasEntry

\* What holds of the types, the stages, the hands and the counts after a task has
\* moved on, whatever happens to the channels on Discord and the mappings.
LEMMA Advance ==
  ASSUME CommandsInv, NEW t \in Tasks, task[t] # Idle,
         NEW x, MovesOn(t, x), HasEntry(x)', task' = [task EXCEPT ![t] = x],
         UNCHANGED <<channel, seen, polling, maker, cut>>, RestTyped', Grows,
         discord' \subseteq Channels, left' \subseteq Channels,
         mapping' \in [Channels -> MappingState], nextShort' \in Nat \ {0},
         \A c \in Channels : (Mapped(c)' => c \in Made /\ mapping'[c].short > 0) /\ mapping'[c].short < nextShort'
  PROVE  /\ CommandTypes' /\ Stages' /\ Hands' /\ Counted'
         /\ Made' = Made /\ PickedUp' = PickedUp
         /\ task \in [Tasks -> TaskState] /\ task'[t] = x /\ \A u \in Tasks \ {t} : task'[u] = task[u]
<1> USE DEF MovesOn
<1>1. task \in [Tasks -> TaskState] /\ task'[t] = x /\ \A u \in Tasks \ {t} : task'[u] = task[u]
  BY DEF CommandsInv, CommandTypes
<1>2. CommandTypes'
  BY <1>1 DEF CommandsInv, CommandTypes, channel, RestTyped
<1>3. /\ \A u \in Tasks : task'[u] # Idle => task[u] # Idle
      /\ Made' = Made /\ OfWorkers' = OfWorkers /\ PickedUp' = PickedUp
      /\ \A k : MadeFor(k)' = MadeFor(k)
  BY <1>1 DEF Made, OfWorkers, PickedUp, MadeFor
<1>4. Stages'
  <2>1. \A y : Polls(y)' = Polls(y) /\ Serves(y)' = Serves(y)
    BY DEF Polls, Serves, channel
  <2>2. \A u \in Pollers : Polls(task'[u])
    BY <1>1 DEF CommandsInv, Stages, Tasks
  <2>3. \A u \in Operators : Serves(task'[u])
    BY <1>1 DEF CommandsInv, Stages, Tasks
  <2>4. SolePoll'
    BY <1>3 DEF CommandsInv, Stages, SolePoll, Tasks
  <2>5. QED BY <2>1, <2>2, <2>3, <2>4 DEF Stages
<1>5. Hands'
  <2>1. \A y : HasChannel(y)' = HasChannel(y)
    BY <1>3 DEF HasChannel
  <2>2. \A u \in Tasks : HasChannel(task[u]) /\ HasEntry(task[u]) /\ task[u] \in TaskState
    BY DEF CommandsInv, Hands, CommandTypes
  <2>3. ASSUME NEW u \in Tasks PROVE HasEntry(task[u])'
    <3>1. ASSUME NEW y \in TaskState, HasEntry(y) PROVE HasEntry(y)'
      BY <3>1, EntryStays DEF CommandsInv
    <3>2. PICK y \in TaskState : y = task'[u] /\ HasEntry(y)'
      <4>1. CASE u = t
        BY <1>1, <4>1
      <4>2. CASE u # t
        BY <1>1, <2>2, <3>1, <4>2
      <4>3. QED BY <4>1, <4>2
    <3>3. QED BY <3>2 DEF HasEntry
  <2>4. \A u \in Tasks : HasChannel(task'[u])
    BY <1>1, <2>2
  <2>5. QED BY <1>3, <2>1, <2>3, <2>4 DEF Hands, RestTyped
<1>6. Counted'
  <2>1. ASSUME NEW k, Unspent(k)' PROVE Unspent(k)
    <3>1. ASSUME NEW u \in Pollers, task[u] # Idle, task[u].cmd = k PROVE task[u].at \in Ahead
      <4>1. CASE u = t
        BY <1>1, <2>1, <3>1, <4>1 DEF Unspent, SameCommand
      <4>2. CASE u # t
        BY <1>1, <2>1, <3>1, <4>2 DEF Unspent, Tasks
      <4>3. QED BY <4>1, <4>2
    <3>2. QED BY <2>1, <3>1 DEF Unspent
  <2>2. QED BY <1>3, <2>1 DEF CommandsInv, Counted
<1>7. QED BY <1>1, <1>2, <1>3, <1>4, <1>5, <1>6

LEMMA CarryOn ==
  ASSUME CommandsInv, NEW t \in Tasks, task[t] # Idle,
         NEW x, CarriesOn(t, x), HasEntry(x)',
         task' = [task EXCEPT ![t] = x], SameChannels, RestTyped', Grows
  PROVE  CommandsInv'
<1>1. /\ CommandTypes' /\ Stages' /\ Hands' /\ Counted'
      /\ Made' = Made /\ PickedUp' = PickedUp
      /\ task \in [Tasks -> TaskState] /\ task'[t] = x /\ \A u \in Tasks \ {t} : task'[u] = task[u]
  <2>1. \A c \in Channels : (Mapped(c)' => c \in Made /\ mapping'[c].short > 0) /\ mapping'[c].short < nextShort'
    BY DEF CommandsInv, Hands, SameChannels, Mapped
  <2>2. /\ UNCHANGED <<channel, seen, polling, maker, cut>> /\ discord' \subseteq Channels /\ left' \subseteq Channels
        /\ mapping' \in [Channels -> MappingState] /\ nextShort' \in Nat \ {0}
    BY DEF CommandsInv, CommandTypes, SameChannels
  <2>3. MovesOn(t, x)
    BY DEF CarriesOn
  <2>4. QED BY <2>1, <2>2, <2>3, Advance
<1>2. \A c : Mapped(c)' = Mapped(c)
  BY DEF SameChannels, Mapped
<1>3. Known'
  <2>1. \A u \in Tasks : At(u, "ensure") => task'[u] = task[u]
    BY <1>1 DEF At, CarriesOn
  <2>2. \A u \in Tasks : At(u, "unmap")' => task'[u] = task[u]
    BY <1>1 DEF At, CarriesOn
  <2>3. QED BY <1>1, <1>2, <2>1, <2>2 DEF CommandsInv, Known, SameChannels, At, Ch
<1>4. Picking'
  <2>1. \A y : Picks(y)' = Picks(y) /\ Rebinds(y)' = Rebinds(y)
    BY <1>1, <1>2 DEF Picks, Rebinds, Exact, SameChannels, channel
  <2>2. \A u \in Pollers : (Kind(u)' = "pickup" => Picks(task'[u])) /\ Rebinds(task'[u])
    BY <1>1 DEF CommandsInv, Picking, Tasks, Kind, CarriesOn
  <2>3. QED BY <1>1, <1>2, <2>1, <2>2 DEF CommandsInv, Picking, SameChannels, channel, Exact
<1>5. QED BY <1>1, <1>3, <1>4 DEF CommandsInv
-----------------------------------------------------------------------------
(* Steps that only move a task on.                                           *)

LEMMA RestKept ==
  ASSUME CommandsInv PROVE RestTyped
BY DEF CommandsInv, CommandTypes, Hands, RestTyped

LEMMA Carry ==
  ASSUME CommandsInv, NEW t \in Tasks, task[t] # Idle,
         NEW x, CarriesOn(t, x), HasEntry(x),
         task' = [task EXCEPT ![t] = x],
         UNCHANGED <<channel, polling, discord, storeVars, registryVars, faults, history>>
  PROVE  CommandsInv'
<1>1. SameChannels
  BY DEF SameChannels, storeVars, history
<1>2. RestTyped' /\ Grows
  <2>1. UNCHANGED <<list, runs, activeRun, workers, faults, maker>>
    BY DEF storeVars, registryVars, history
  <2>2. Len(runs) \in Nat /\ Len(workers) \in Nat
    BY DEF CommandsInv, CommandTypes
  <2>3. OfWorkers' = OfWorkers
    BY <2>1 DEF OfWorkers
  <2>4. QED BY <2>1, <2>2, <2>3, RestKept DEF RestTyped, Grows
<1>3. HasEntry(x)'
  BY DEF HasEntry, registryVars
<1>4. QED BY <1>1, <1>2, <1>3, CarryOn

LEMMA Go ==
  ASSUME CommandTypes, NEW t \in Tasks, NEW p \in Spots \ {"idle"}, GoTo(t, p)
  PROVE  \E x \in TaskState :
           /\ task' = [task EXCEPT ![t] = x] /\ x # Idle /\ SameCommand(task[t], x)
           /\ x.at = p /\ x.ch = task[t].ch /\ x.label = task[t].label /\ x.ref = task[t].ref
           /\ x.todo = task[t].todo /\ x.sent = task[t].sent
<1>1. task[t] \in TaskState /\ task \in [Tasks -> TaskState]
  BY DEF CommandTypes
<1>2. PICK x : x = [task[t] EXCEPT !.at = p]
  OBVIOUS
<1>3. /\ x \in TaskState /\ x.at = p /\ x.ch = task[t].ch /\ x.label = task[t].label /\ x.ref = task[t].ref
      /\ x.todo = task[t].todo /\ x.sent = task[t].sent
      /\ x.cmd = task[t].cmd /\ x.kind = task[t].kind /\ x.by = task[t].by /\ x.key = task[t].key
  BY <1>1, <1>2 DEF TaskState
<1>4. task' = [task EXCEPT ![t] = x]
  BY <1>2 DEF GoTo
<1>5. x # Idle
  BY <1>3 DEF Idle
<1>6. QED BY <1>3, <1>4, <1>5 DEF SameCommand

LEMMA PollPlaces ==
  ASSUME CommandsInv, NEW t \in Pollers, task[t] # Idle, task[t].at \notin {"turns", "told"}
  PROVE  /\ task[t].at \in Places(Kind(t)) \cup {"say", "report", "mark"}
         /\ task[t].cmd = seen + 1 /\ task[t].cmd \in 1 .. Len(commands)
         /\ Kind(t) = commands[task[t].cmd].kind /\ task[t].by = commands[task[t].cmd].by
         /\ task[t].key = commands[task[t].cmd].key
BY DEF CommandsInv, Stages, Polls, CommandTypes, Kind

\* Where a task may go next.
MayGo(t, p) ==
  /\ t \in Pollers => task[t].at \notin {"turns", "told"} /\ p \in Places(Kind(t)) \cup {"say", "report", "mark"}
  /\ t \in Operators =>
       \/ p = "done"
       \/ Kind(t) = "start thread" /\ p \in {"create", "ensure"} \cup ThreadPlaces
       \/ Kind(t) = "bind channel" /\ p \in {"create", "ensure"}
       \/ Kind(t) = "close" /\ p \in ClosePlaces

LEMMA StageKept ==
  ASSUME CommandsInv, NEW t \in Tasks, task[t] # Idle, NEW x \in TaskState, SameCommand(task[t], x), MayGo(t, x.at)
  PROVE  (t \in Pollers => Polls(x)) /\ (t \in Operators => Serves(x))
<1>1. CASE t \in Pollers
  <2>0. task[t].at \notin {"turns", "told"} /\ x.at \in Places(Kind(t)) \cup {"say", "report", "mark"}
    BY <1>1 DEF MayGo
  <2>1. Polls(x)
    BY <1>1, <2>0, PollPlaces DEF Polls, SameCommand, Kind
  <2>2. t \notin Operators
    BY <1>1, CommandsAssumption DEF CommandsAssumption
  <2>3. QED BY <2>1, <2>2
<1>2. CASE t \in Operators
  <2>1. Serves(x)
    BY <1>2 DEF Serves, SameCommand, MayGo, Kind, CommandsInv, Stages
  <2>2. t \notin Pollers
    BY <1>2, CommandsAssumption DEF CommandsAssumption
  <2>3. QED BY <2>1, <2>2
<1>3. QED BY <1>1, <1>2 DEF Tasks

LEMMA GoOn ==
  ASSUME CommandsInv, NEW t \in Tasks, task[t] # Idle,
         NEW p \in Spots \ {"idle", "unmap", "find", "create", "ensure", "note", "bind"}, GoTo(t, p),
         task[t].at # "ensure", MayGo(t, p),
         p \in Ahead => task[t].at \in Ahead,
         p \in ChannelPlaces => task[t].at \in ChannelPlaces,
         p \in RunPlaces => task[t].at \in RunPlaces,
         p \in ClosePlaces => task[t].at \in ClosePlaces,
         p \in WorkerPlaces => task[t].at \in WorkerPlaces
  PROVE  \E x \in TaskState :
           CarriesOn(t, x) /\ HasEntry(x) /\ x.ref = task[t].ref /\ task' = [task EXCEPT ![t] = x]
<1>1. PICK x \in TaskState :
           /\ task' = [task EXCEPT ![t] = x] /\ x # Idle /\ SameCommand(task[t], x)
           /\ x.at = p /\ x.ch = task[t].ch /\ x.label = task[t].label /\ x.ref = task[t].ref
           /\ x.todo = task[t].todo /\ x.sent = task[t].sent
  BY Go DEF CommandsInv
<1>2. HasChannel(task[t]) /\ HasEntry(task[t])
  BY DEF CommandsInv, Hands
<1>3. HasChannel(x)
  BY <1>1, <1>2 DEF HasChannel, SameCommand
<1>4. HasEntry(x)
  BY <1>1, <1>2 DEF HasEntry, SameCommand
<1>5. (t \in Pollers => Polls(x)) /\ (t \in Operators => Serves(x))
  BY <1>1, StageKept
<1>6. x.at \notin {"find", "create", "ensure", "note", "bind"}
  BY <1>1
<1>7. Picks(x) /\ Rebinds(x)
  BY <1>6 DEF Picks, Rebinds
<1>8. QED BY <1>1, <1>3, <1>4, <1>5, <1>7 DEF CarriesOn, MovesOn

LEMMA GoOnly ==
  ASSUME CommandsInv, NEW t \in Tasks, task[t] # Idle,
         NEW p \in Spots \ {"idle", "unmap", "find", "create", "ensure", "note", "bind"}, GoTo(t, p),
         task[t].at # "ensure", MayGo(t, p),
         p \in Ahead => task[t].at \in Ahead,
         p \in ChannelPlaces => task[t].at \in ChannelPlaces,
         p \in RunPlaces => task[t].at \in RunPlaces,
         p \in ClosePlaces => task[t].at \in ClosePlaces,
         p \in WorkerPlaces => task[t].at \in WorkerPlaces,
         UNCHANGED <<channel, polling, discord, storeVars, registryVars, faults, history>>
  PROVE  CommandsInv'
BY GoOn, Carry

LEMMA NotIdle == ASSUME NEW t, task[t].at # "idle" PROVE task[t] # Idle
BY DEF Idle

LEMMA OperatorPlaces ==
  ASSUME CommandsInv, NEW t \in Operators, task[t] # Idle
  PROVE  /\ task[t].cmd = 0
         /\ \/ task[t].at = "done"
            \/ Kind(t) = "start thread" /\ task[t].at \in {"create", "ensure"} \cup ThreadPlaces
            \/ Kind(t) = "bind channel" /\ task[t].at \in {"create", "ensure"}
            \/ Kind(t) = "close" /\ task[t].at \in ClosePlaces
BY DEF CommandsInv, Stages, Serves, Kind

LEMMA SayInv == ASSUME CommandsInv, NEW t \in Tasks, Say(t) PROVE CommandsInv'
<1>1. task[t].at \in {"say", "report"} /\ GoTo(t, "mark")
  BY DEF Say
<1>2. t \notin Operators
  BY <1>1, NotIdle, OperatorPlaces DEF ThreadPlaces, ClosePlaces
<1>3. "mark" \in Spots
  BY DEF Spots
<1>4. "mark" \notin Ahead \cup ChannelPlaces \cup RunPlaces \cup ClosePlaces \cup WorkerPlaces
  BY DEF Ahead, ChannelPlaces, RunPlaces, ClosePlaces, WorkerPlaces, ThreadPlaces
<1>5. MayGo(t, "mark")
  BY <1>1, <1>2 DEF MayGo
<1>6. QED BY <1>1, <1>3, <1>4, <1>5, GoOnly, NotIdle DEF Say
LEMMA InjectNoteSaid == ASSUME CommandsInv, NEW t \in Tasks, InjectNote(t), GoTo(t, "noted") PROVE CommandsInv'
<1>1. At(t, "note") /\ UNCHANGED <<channel, polling, discord, storeVars, registryVars, faults, history>>
  BY DEF InjectNote
<1>2. MayGo(t, "noted")
  BY <1>1, NotIdle, PollPlaces, OperatorPlaces DEF At, MayGo, Places, ThreadPlaces, ClosePlaces
<1>3. /\ "noted" \in Spots /\ "noted" \notin Ahead \cup RunPlaces \cup ClosePlaces \cup WorkerPlaces
      /\ "note" \in ChannelPlaces
  BY DEF Spots, Ahead, ChannelPlaces, RunPlaces, ClosePlaces, WorkerPlaces, ThreadPlaces
<1>4. QED BY <1>1, <1>2, <1>3, GoOnly, NotIdle DEF At

LEMMA NoteStatusInv == ASSUME CommandsInv, NEW t \in Tasks, NoteStatus(t) PROVE CommandsInv'
<1>1. At(t, "noted") /\ GoTo(t, "say") /\ UNCHANGED <<channel, polling, discord, storeVars, registryVars, faults, history>>
  BY DEF NoteStatus
<1>2. MayGo(t, "say")
  BY <1>1, NotIdle, OperatorPlaces DEF At, MayGo, ThreadPlaces, ClosePlaces
<1>3. "say" \in Spots /\ "say" \notin Ahead \cup ChannelPlaces \cup RunPlaces \cup ClosePlaces \cup WorkerPlaces
  BY DEF Spots, Ahead, ChannelPlaces, RunPlaces, ClosePlaces, WorkerPlaces, ThreadPlaces
<1>4. QED BY <1>1, <1>2, <1>3, GoOnly, NotIdle DEF At

LEMMA RenameInv == ASSUME CommandsInv, NEW t \in Tasks, RenameChannel(t) PROVE CommandsInv'
<1>1. At(t, "rename") /\ UNCHANGED <<channel, polling, discord, storeVars, registryVars, faults, history>>
  BY DEF RenameChannel
<1>2. PICK p \in {"renamed", "bind worker", "waiting"} : GoTo(t, p) /\ (p = "bind worker" => Kind(t) = "identity")
                                                           /\ (p = "waiting" => Kind(t) # "identity")
  BY DEF RenameChannel, AfterRename
<1>3. MayGo(t, p)
  BY <1>1, <1>2, NotIdle, PollPlaces, OperatorPlaces DEF At, MayGo, Places, ThreadPlaces, ClosePlaces
<1>4. /\ p \in Spots /\ p \notin Ahead \cup RunPlaces \cup ClosePlaces
      /\ "rename" \in ChannelPlaces /\ "rename" \in WorkerPlaces
  BY DEF Spots, Ahead, ChannelPlaces, RunPlaces, ClosePlaces, WorkerPlaces, ThreadPlaces
<1>5. QED BY <1>1, <1>2, <1>3, <1>4, GoOnly, NotIdle DEF At

LEMMA PostInChannelInv == ASSUME CommandsInv, NEW t \in Tasks, PostInChannel(t) PROVE CommandsInv'
<1>1. task[t].at \in {"acknowledge", "refusal"} /\ UNCHANGED <<channel, polling, discord, storeVars, registryVars, faults, history>>
  BY DEF PostInChannel
<1>2. PICK p \in {"refuse", "keep"} : GoTo(t, p)
  BY DEF PostInChannel
<1>3. MayGo(t, p)
  BY <1>1, <1>2, NotIdle, PollPlaces, OperatorPlaces DEF MayGo, Places, ThreadPlaces, ClosePlaces
<1>4. /\ p \in Spots /\ p \notin Ahead \cup RunPlaces \cup ClosePlaces
      /\ {"acknowledge", "refusal"} \subseteq ChannelPlaces \cap WorkerPlaces
  BY DEF Spots, Ahead, ChannelPlaces, RunPlaces, ClosePlaces, WorkerPlaces, ThreadPlaces
<1>5. QED BY <1>1, <1>2, <1>3, <1>4, GoOnly, NotIdle

LEMMA AfterChannelPlaces ==
  ASSUME CommandsInv, NEW t \in Tasks, task[t].at \in {"ensure", "keep", "cursor"}
  PROVE  /\ AfterChannel(Kind(t)) \in {"bind worker", "done", "say"}
         /\ MayGo(t, AfterChannel(Kind(t)))
         /\ AfterChannel(Kind(t)) = "bind worker" => Kind(t) \in {"start worker", "identity"}
<1>1. /\ AfterChannel(Kind(t)) \in {"bind worker", "done", "say"}
      /\ AfterChannel(Kind(t)) = "bind worker" => Kind(t) \in {"start worker", "identity"}
      /\ AfterChannel(Kind(t)) = "done" => Kind(t) \in {"start thread", "bind channel", "close"}
      /\ AfterChannel(Kind(t)) = "say" => Kind(t) \notin {"start thread", "bind channel", "close"}
  BY DEF AfterChannel
<1>2. task[t] # Idle
  BY NotIdle
<1>3. t \in Pollers => Kind(t) \notin {"start thread", "bind channel", "close"} /\ task[t].at \in Places(Kind(t))
  BY <1>2, PollPlaces DEF Places
<1>4. t \in Operators => Kind(t) \in {"start thread", "bind channel"}
  BY <1>2, OperatorPlaces DEF ThreadPlaces, ClosePlaces
<1>5. t \in Pollers /\ Kind(t) = "identity" => "bind worker" \in Places(Kind(t))
  BY DEF Places
<1>6. t \in Pollers /\ Kind(t) = "start worker" => "bind worker" \in Places(Kind(t))
  BY DEF Places
<1>7. MayGo(t, AfterChannel(Kind(t)))
  BY <1>1, <1>3, <1>4, <1>5, <1>6, CommandsAssumption DEF MayGo, CommandsAssumption
<1>8. QED BY <1>1, <1>7

LEMMA MarkRefusalSeenInv == ASSUME CommandsInv, NEW t \in Tasks, MarkRefusalSeen(t) PROVE CommandsInv'
<1>1. At(t, "cursor") /\ UNCHANGED <<channel, polling, discord, storeVars, registryVars, faults, history>>
  BY DEF MarkRefusalSeen
<1>2. PICK p \in {"bind worker", "done", "say"} : GoTo(t, p) /\ MayGo(t, p)
  BY <1>1, AfterChannelPlaces DEF MarkRefusalSeen, At
<1>3. /\ p \in Spots /\ p \notin Ahead \cup RunPlaces \cup ClosePlaces
      /\ "cursor" \in ChannelPlaces \cap WorkerPlaces
  BY DEF Spots, Ahead, ChannelPlaces, RunPlaces, ClosePlaces, WorkerPlaces, ThreadPlaces
<1>4. QED BY <1>1, <1>2, <1>3, GoOnly, NotIdle DEF At

LEMMA LookUpInv == ASSUME CommandsInv, NEW t \in Tasks, LookUpChannel(t), GoTo(t, "delete") PROVE CommandsInv'
<1>1. At(t, "close") /\ UNCHANGED <<channel, polling, discord, storeVars, registryVars, faults, history>>
  BY DEF LookUpChannel
<1>2. MayGo(t, "delete")
  BY <1>1, NotIdle, PollPlaces, OperatorPlaces DEF At, MayGo, Places, ThreadPlaces, ClosePlaces
<1>3. /\ "delete" \in Spots /\ "delete" \notin Ahead \cup RunPlaces
      /\ "close" \in ChannelPlaces \cap WorkerPlaces \cap ClosePlaces
  BY DEF Spots, Ahead, ChannelPlaces, RunPlaces, ClosePlaces, WorkerPlaces, ThreadPlaces
<1>4. QED BY <1>1, <1>2, <1>3, GoOnly, NotIdle DEF At

\* Whatever a poll does next, it may answer.
LEMMA SayNext ==
  ASSUME CommandsInv, NEW t \in Tasks, task[t] # Idle, GoTo(t, "say"), task[t].at \notin {"ensure", "turns", "told"}, t \notin Operators,
         UNCHANGED <<channel, polling, discord, storeVars, registryVars, faults, history>>
  PROVE  CommandsInv'
<1>1. MayGo(t, "say")
  BY DEF MayGo
<1>2. "say" \in Spots /\ "say" \notin Ahead \cup ChannelPlaces \cup RunPlaces \cup ClosePlaces \cup WorkerPlaces
  BY DEF Spots, Ahead, ChannelPlaces, RunPlaces, ClosePlaces, WorkerPlaces, ThreadPlaces
<1>3. QED BY <1>1, <1>2, GoOnly
-----------------------------------------------------------------------------
(* Steps that also change what a task has in hand.                           *)

LEMMA ListedThread == ASSUME CommandTypes, NEW n PROVE Listed(n) \in {0} \cup Threads
<1>1. PICK m \in 0 .. Cardinality(Threads) : list \in [1 .. m -> Threads]
  BY DEF CommandTypes, Lists, SeqOf
<1>2. QED BY <1>1 DEF Listed

LEMMA KeyOf ==
  ASSUME CommandsInv, NEW k \in 1 .. Len(commands)
  PROVE  /\ commands[k].by = "title" => commands[k].key \in Titles
         /\ commands[k].kind = "pickup" => commands[k].by # "none"
         /\ commands[k].by \in {"title", "number", "none"}
<1>1. script \in Scripts /\ Len(commands) \in Nat /\ Len(commands) <= Len(script.people) /\ commands[k] = script.people[k]
  BY DEF CommandsInv, CommandTypes
<1>2. PICK R : R = [kind : STRING, by : {"title", "number", "none"}, key : Nat, refused : SUBSET STRING]
  OBVIOUS
<1>3. script.people \in Seq(R)
  BY <1>1, <1>2, CommandsAssumption DEF CommandsAssumption
<1>4. k \in DOMAIN script.people /\ script.people[k] \in R
  BY <1>1, <1>3
<1>5. /\ script.people[k].by = "title" => script.people[k].key \in Titles
      /\ script.people[k].kind = "pickup" => script.people[k].by # "none"
  BY <1>1, <1>4, CommandsAssumption DEF CommandsAssumption
<1>6. QED BY <1>1, <1>2, <1>4, <1>5

LEMMA OnlyPolls ==
  ASSUME CommandsInv, NEW t \in Tasks, task[t] # Idle,
         task[t].at \notin {"create", "ensure", "done"} \cup ThreadPlaces \cup ClosePlaces
  PROVE  t \in Pollers /\ t \notin Operators
BY OperatorPlaces DEF Tasks

LEMMA ResolvePickupInv == ASSUME CommandsInv, NEW t \in Tasks, ResolvePickup(t) PROVE CommandsInv'
<1> DEFINE title == IF task[t].by = "title" THEN task[t].key ELSE Listed(task[t].key)
<1>1. PICK known \in BOOLEAN :
        /\ known <=> (task[t].by = "number" /\ title = 0) \/ OfThread(title) # {}
        /\ task' = [task EXCEPT ![t].at = IF known THEN "say" ELSE "find", ![t].label = title]
        /\ At(t, "resolve") /\ Kind(t) = "pickup"
        /\ UNCHANGED <<channel, polling, discord, storeVars, registryVars, faults, history>>
  BY DEF ResolvePickup
<1>2. t \in Pollers /\ t \notin Operators /\ task[t] # Idle
  BY <1>1, NotIdle, OnlyPolls DEF At, ThreadPlaces, ClosePlaces
<1>3. /\ task[t].cmd \in 1 .. Len(commands) /\ task[t].by = commands[task[t].cmd].by
      /\ task[t].key = commands[task[t].cmd].key /\ commands[task[t].cmd].kind = "pickup"
  BY <1>1, <1>2, PollPlaces DEF At
<1>4. /\ task[t].by \in {"title", "number"}
      /\ task[t].by = "title" => task[t].key \in Titles
  BY <1>3, KeyOf
<1>5. /\ title \in {0} \cup Titles
      /\ task[t].by = "number" => title \in {0} \cup Threads
  BY <1>4, ListedThread, CommandsAssumption DEF CommandsInv, CommandsAssumption
<1>6. /\ title = 0 => task[t].by = "number"
      /\ ~known => title \in Titles /\ (task[t].by = "number" => title \in Threads) /\ OfThread(title) = {}
  BY <1>1, <1>4, <1>5, CommandsAssumption DEF CommandsAssumption
<1> HIDE DEF title
<1>7. task \in [Tasks -> TaskState] /\ task[t] \in TaskState
  BY DEF CommandsInv, CommandTypes
<1>8. PICK p \in Spots : p = (IF known THEN "say" ELSE "find")
  BY DEF Spots
<1>9. PICK x : x = [task[t] EXCEPT !.at = p, !.label = title]
  OBVIOUS
<1>10. /\ x \in TaskState /\ x.at = p /\ x.label = title
       /\ x.ch = task[t].ch /\ x.todo = task[t].todo /\ SameCommand(task[t], x)
  BY <1>5, <1>7, <1>9 DEF TaskState, SameCommand
<1>11. /\ x \in TaskState /\ x.at = (IF known THEN "say" ELSE "find") /\ x.label = title
      /\ x.ch = task[t].ch /\ x.todo = task[t].todo /\ SameCommand(task[t], x)
  BY <1>8, <1>10
<1>12. task' = [task EXCEPT ![t] = x]
  BY <1>1, <1>7, <1>9, <1>8
<1>13. x # Idle /\ MayGo(t, x.at)
  BY <1>1, <1>2, <1>11 DEF Idle, MayGo, Kind, At, Places
<1>14. HasChannel(x) /\ HasEntry(x) /\ x.at \in {"say", "find"}
  BY <1>1, <1>11 DEF CommandsInv, Hands, HasChannel, HasEntry, SameCommand, ChannelPlaces, RunPlaces,
                    WorkerPlaces, ThreadPlaces, ClosePlaces
<1>15. Picks(x) /\ Rebinds(x)
  <2>1. Rebinds(x)
    BY <1>14 DEF Rebinds
  <2>2. ASSUME ~known, Exact(x.cmd) PROVE x.label \in Threads
    BY <2>2, <1>3, <1>4, <1>6, <1>11 DEF Exact, SameCommand, title
  <2>3. ASSUME ~known, NEW c \in PickedUp, Mapped(c) PROVE mapping[c].label # x.label
    BY <2>3, <1>6, <1>11 DEF OfThread, WithLabel, PickedUp
  <2>4. CASE known
    BY <2>4, <2>1, <1>11 DEF Picks
  <2>5. CASE ~known
    BY <2>1, <2>2, <2>3, <2>5, <1>6, <1>11 DEF Picks
  <2>6. QED BY <2>4, <2>5
<1>16. CarriesOn(t, x)
  BY <1>1, <1>11, <1>13, <1>14, <1>15, StageKept, <1>2 DEF CarriesOn, MovesOn, Ahead, At
<1>17. QED BY <1>1, <1>2, <1>12, <1>14, <1>16, Carry

LEMMA FindThreadInv == ASSUME CommandsInv, NEW t \in Tasks, FindThread(t) PROVE CommandsInv'
<1>1. At(t, "find") /\ UNCHANGED <<channel, polling, discord, storeVars, registryVars, faults, history>>
  BY DEF FindThread
<1>2. t \in Pollers /\ t \notin Operators /\ task[t] # Idle
  BY <1>1, NotIdle, OnlyPolls DEF At, ThreadPlaces, ClosePlaces
<1>3. CASE GoTo(t, "say")
  BY <1>1, <1>2, <1>3, SayNext DEF At
<1>4. CASE task' = [task EXCEPT ![t].at = "create", ![t].label = ThreadOf[@]]
  <2>1. Kind(t) = "pickup"
    BY <1>1, <1>2, PollPlaces DEF At, Places, ThreadPlaces, ClosePlaces
  <2>2. Picks(task[t])
    BY <1>2, <2>1 DEF CommandsInv, Picking
  <2>3. task[t].label \in Titles /\ ThreadOf[task[t].label] \in Threads
        /\ (task[t].label \in Threads => ThreadOf[task[t].label] = task[t].label)
    BY <1>1, <2>2, CommandsAssumption DEF Picks, At, CommandsAssumption
  <2>4. task \in [Tasks -> TaskState] /\ task[t] \in TaskState
    BY DEF CommandsInv, CommandTypes
  <2>5. PICK x : x = [task[t] EXCEPT !.at = "create", !.label = ThreadOf[@]]
    OBVIOUS
  <2>6. /\ x \in TaskState /\ x.at = "create" /\ x.label = ThreadOf[task[t].label]
        /\ x.ch = task[t].ch /\ x.todo = task[t].todo /\ SameCommand(task[t], x)
    BY <2>3, <2>4, <2>5, CommandsAssumption DEF TaskState, Spots, SameCommand, CommandsAssumption
  <2>7. task' = [task EXCEPT ![t] = x]
    BY <1>4, <2>4, <2>5
  <2>8. x # Idle /\ MayGo(t, x.at)
    BY <1>1, <1>2, <2>1, <2>6 DEF Idle, MayGo, At, Places
  <2>9. HasChannel(x) /\ HasEntry(x)
    BY <1>1, <2>1, <2>6 DEF CommandsInv, Hands, HasChannel, HasEntry, SameCommand, ChannelPlaces, RunPlaces,
                    WorkerPlaces, ThreadPlaces, ClosePlaces, Kind
  <2>10. Picks(x) /\ Rebinds(x)
    BY <1>1, <2>2, <2>3, <2>6 DEF Picks, Rebinds, At, SameCommand
  <2>11. CarriesOn(t, x)
    BY <1>1, <2>6, <2>8, <2>9, <2>10, StageKept, <1>2 DEF CarriesOn, MovesOn, Ahead, At
  <2>12. QED BY <1>1, <1>2, <2>7, <2>9, <2>11, Carry
<1>5. QED BY <1>3, <1>4 DEF FindThread
LEMMA LeastNumber ==
  ASSUME NEW T \in SUBSET Nat, T # {}
  PROVE  FirstOf(T) \in T /\ \A y \in T : FirstOf(T) <= y
<1> DEFINE R == OpToRel(<, Nat)
<1>1. IsWellFoundedOn(R, Nat)
  BY NatLessThanWellFounded
<1>2. \E x \in T : \A y \in T : ~ (<<y, x>> \in R)
  BY <1>1, WFMin
<1>3. \A x, y \in Nat : x < y => <<x, y>> \in R
  BY DEF OpToRel
<1>4. PICK x \in T : \A y \in T : ~ (<<y, x>> \in R)
  BY <1>2
<1> HIDE DEF R
<1>5. ASSUME NEW y \in T PROVE x <= y
  <2>1. x \in Nat /\ y \in Nat
    OBVIOUS
  <2>2. ~(y < x)
    BY <1>3, <1>4, <2>1
  <2>3. QED BY <2>1, <2>2
<1>6. QED BY <1>4, <1>5 DEF FirstOf

LEMMA LeastChannel ==
  ASSUME NEW T \in SUBSET Channels, T # {}
  PROVE  FirstOf(T) \in T /\ \A y \in T : FirstOf(T) <= y
<1>1. T \in SUBSET Nat
  BY CommandsAssumption DEF CommandsAssumption
<1>2. QED BY <1>1, LeastNumber

LEMMA ResolveRefreshInv == ASSUME CommandsInv, NEW t \in Tasks, ResolveRefresh(t) PROVE CommandsInv'
<1>1. /\ At(t, "resolve") /\ Kind(t) = "refresh"
      /\ UNCHANGED <<channel, polling, discord, storeVars, registryVars, faults, history>>
  BY DEF ResolveRefresh
<1>2. t \in Pollers /\ t \notin Operators /\ task[t] # Idle
  BY <1>1, NotIdle, OnlyPolls DEF At, ThreadPlaces, ClosePlaces
<1>3. \/ task' = [task EXCEPT ![t].at = "say"]
      \/ \E c \in Channels : Mapped(c) /\ task' = [task EXCEPT ![t].at = "note", ![t].ch = c, ![t].label = mapping[c].label]
  <2> DEFINE n == task[t].key
             found == IF task[t].by = "title" THEN WithLabel(n)
                      ELSE IF Listed(n) # 0 THEN WithLabel(Listed(n)) ELSE WithShort(n)
             c == FirstOf(found)
  <2>1. found \in SUBSET Channels /\ \A d \in found : Mapped(d)
    BY DEF WithLabel, WithShort
  <2>2. task' = IF found = {} THEN [task EXCEPT ![t].at = "say"]
                ELSE [task EXCEPT ![t].at = "note", ![t].ch = c, ![t].label = mapping[c].label]
    BY DEF ResolveRefresh
  <2> HIDE DEF found
  <2>3. found # {} => c \in found
    BY <2>1, LeastChannel
  <2> HIDE DEF c
  <2>4. QED BY <2>1, <2>2, <2>3
<1>4. CASE task' = [task EXCEPT ![t].at = "say"]
  BY <1>1, <1>2, <1>4, SayNext DEF At, GoTo
<1>5. ASSUME NEW c \in Channels, Mapped(c),
             task' = [task EXCEPT ![t].at = "note", ![t].ch = c, ![t].label = mapping[c].label]
      PROVE CommandsInv'
  <2>1. task \in [Tasks -> TaskState] /\ task[t] \in TaskState /\ mapping[c] \in MappingState
    BY DEF CommandsInv, CommandTypes
  <2>2. PICK x : x = [task[t] EXCEPT !.at = "note", !.ch = c, !.label = mapping[c].label]
    OBVIOUS
  <2>3. /\ x \in TaskState /\ x.at = "note" /\ x.label = mapping[c].label
        /\ x.ch = c /\ x.todo = task[t].todo /\ SameCommand(task[t], x)
    BY <2>1, <2>2 DEF TaskState, Spots, SameCommand, MappingState
  <2>4. task' = [task EXCEPT ![t] = x]
    BY <1>5, <2>1, <2>2
  <2>5. x # Idle /\ MayGo(t, x.at)
    BY <1>1, <1>2, <2>3 DEF Idle, MayGo, At, Places
  <2>6. c \in Made
    BY <1>5 DEF CommandsInv, Hands
  <2>7. HasChannel(x) /\ HasEntry(x)
    BY <1>1, <1>5, <2>3, <2>6, CommandsAssumption DEF CommandsAssumption, CommandsInv, Hands, HasChannel, HasEntry, SameCommand, Kind, MakerKinds, WorkerKinds,
                    RunPlaces, WorkerPlaces, ThreadPlaces, ClosePlaces
  <2>8. Rebinds(x) /\ x.kind # "pickup"
    BY <1>1, <2>3 DEF Rebinds, SameCommand, Kind
  <2>9. CarriesOn(t, x)
    BY <1>1, <2>3, <2>5, <2>7, <2>8, StageKept, <1>2 DEF CarriesOn, MovesOn, Ahead, At
  <2>10. QED BY <1>1, <1>2, <2>4, <2>7, <2>9, Carry
<1>6. QED BY <1>3, <1>4, <1>5

LEMMA InjectNoteInv == ASSUME CommandsInv, NEW t \in Tasks, InjectNote(t) PROVE CommandsInv'
<1>1. At(t, "note") /\ UNCHANGED <<channel, polling, discord, storeVars, registryVars, faults, history>>
  BY DEF InjectNote
<1>2. t \in Pollers /\ t \notin Operators /\ task[t] # Idle
  BY <1>1, NotIdle, OnlyPolls DEF At, ThreadPlaces, ClosePlaces
<1>3. CASE task[t].label # 0 /\ task' = [task EXCEPT ![t].at = "bind", ![t].label = ThreadOf[@]]
  <2>1. task \in [Tasks -> TaskState] /\ task[t] \in TaskState
    BY DEF CommandsInv, CommandTypes
  <2>2. task[t].label \in Titles /\ ThreadOf[task[t].label] \in Titles
    BY <1>3, <2>1, CommandsAssumption DEF CommandsAssumption, TaskState
  <2>3. PICK x : x = [task[t] EXCEPT !.at = "bind", !.label = ThreadOf[@]]
    OBVIOUS
  <2>4. /\ x \in TaskState /\ x.at = "bind" /\ x.label = ThreadOf[task[t].label]
        /\ x.ch = task[t].ch /\ x.todo = task[t].todo /\ SameCommand(task[t], x)
    BY <2>1, <2>2, <2>3 DEF TaskState, Spots, SameCommand
  <2>5. task' = [task EXCEPT ![t] = x]
    BY <1>3, <2>1, <2>3
  <2>6. Kind(t) \in {"pickup", "refresh"}
    BY <1>1, <1>2, PollPlaces DEF At, Places, ThreadPlaces, ClosePlaces
  <2>7. x # Idle /\ MayGo(t, x.at)
    <3>1. "bind" \in Places("pickup") /\ "bind" \in Places("refresh")
      BY DEF Places
    <3>2. MayGo(t, "bind")
      BY <1>1, <1>2, <2>6, <3>1 DEF MayGo, At
    <3>3. QED BY <2>4, <3>2, NotIdle DEF Idle
  <2>8. HasChannel(x) /\ HasEntry(x)
    BY <1>1, <2>4, <2>6 DEF CommandsInv, Hands, HasChannel, HasEntry, SameCommand, Kind, At, ChannelPlaces,
                    RunPlaces, WorkerPlaces, ThreadPlaces, ClosePlaces
  <2>9. Picks(x)
    BY <2>4 DEF Picks
  <2>10. Rebinds(x)
    <3>1. SUFFICES ASSUME Ch(t) \in PickedUp, Mapped(Ch(t)) PROVE x.label = mapping[Ch(t)].label
      BY <2>4 DEF Rebinds, Ch
    <3>2. task[t].label = mapping[Ch(t)].label /\ mapping[Ch(t)].label \in Threads
      BY <1>1, <1>2, <3>1 DEF CommandsInv, Picking, Rebinds, At, Ch
    <3>3. QED BY <2>4, <3>2, CommandsAssumption DEF CommandsAssumption
  <2>11. CarriesOn(t, x)
    BY <1>1, <2>4, <2>7, <2>8, <2>9, <2>10, StageKept, <1>2 DEF CarriesOn, MovesOn, Ahead, At
  <2>12. QED BY <1>1, <1>2, <2>5, <2>8, <2>11, Carry
<1>4. QED BY <1>3, InjectNoteSaid DEF InjectNote

\* A thread that was made or found, for the channel of a worker or an operator's own.
LEMMA LabelFound ==
  ASSUME CommandsInv, NEW t \in Tasks, task[t].at \in {"prompt", "identify"}, NEW p \in {"bind", "waiting"},
         NEW x, x.at = p, x \in TaskState,
         x.ch = task[t].ch, x.todo = task[t].todo, x.ref = task[t].ref, SameCommand(task[t], x),
         p = "bind" \/ task[t].at = "prompt",
         task' = [task EXCEPT ![t] = x],
         UNCHANGED <<channel, polling, discord, storeVars, registryVars, faults, history>>
  PROVE  CommandsInv'
<1>1. task[t] # Idle
  BY NotIdle
<1>2. t \in Pollers => Kind(t) \in {"start worker", "identity"} /\ p \in Places(Kind(t))
  <2>1. t \in Pollers => task[t].at \in Places(Kind(t))
    BY <1>1, PollPlaces
  <2>2. task[t].at \in Places(Kind(t)) => Kind(t) \in {"start worker", "identity"}
    BY DEF Places, ThreadPlaces, ClosePlaces
  <2>3. "bind" \in Places("identity") /\ "bind" \in Places("start worker") /\ "waiting" \in Places("identity") /\ "waiting" \in Places("start worker")
    BY DEF Places, ThreadPlaces
  <2>4. QED BY <2>1, <2>2, <2>3
<1>3. t \in Operators => Kind(t) = "start thread"
  BY <1>1, OperatorPlaces DEF ClosePlaces, ThreadPlaces
<1>4. MayGo(t, x.at) /\ x # Idle
  <2>1. x.at \in ThreadPlaces /\ x.at # "idle"
    BY DEF ThreadPlaces
  <2>2. MayGo(t, x.at)
    BY <1>2, <1>3, <2>1 DEF MayGo
  <2>3. QED BY <2>1, <2>2 DEF Idle
<1>5. HasChannel(x) /\ HasEntry(x)
  BY DEF CommandsInv, Hands, HasChannel, HasEntry, SameCommand, Kind, ChannelPlaces, RunPlaces, WorkerPlaces,
         ThreadPlaces, ClosePlaces
<1>6. t \in Pollers => Rebinds(x)
  <2>1. SUFFICES ASSUME t \in Pollers PROVE x.ch \notin PickedUp
    BY DEF Rebinds
  <2>2. HasChannel(task[t]) /\ Kind(t) \in {"start worker", "identity"} /\ task[t].ch # 0
    BY <1>2, <2>1 DEF CommandsInv, Hands, HasChannel, ChannelPlaces, ThreadPlaces
  <2>3. maker[task[t].ch].kind = "start worker"
    BY <2>2 DEF HasChannel, Kind, MakerKinds, WorkerKinds, OfWorkers
  <2>4. QED BY <2>3 DEF PickedUp
<1>7. t \in Pollers => x.kind # "pickup"
  BY <1>2 DEF SameCommand, Kind
<1>8. CarriesOn(t, x)
  BY <1>4, <1>5, <1>6, <1>7, StageKept, <1>1 DEF CarriesOn, MovesOn, Ahead
<1>9. QED BY <1>1, <1>5, <1>8, Carry
LEMMA PromptInv == ASSUME CommandsInv, NEW t \in Tasks, Prompt(t) PROVE CommandsInv'
<1>1. At(t, "prompt") /\ UNCHANGED <<channel, polling, discord, storeVars, registryVars, faults, history>>
  BY DEF Prompt
<1>2. task \in [Tasks -> TaskState] /\ task[t] \in TaskState
  BY DEF CommandsInv, CommandTypes
<1>3. ASSUME NEW l \in Threads, task' = [task EXCEPT ![t].at = "bind", ![t].label = l, ![t].sent = TRUE]
      PROVE  CommandsInv'
  <2>1. PICK x : x = [task[t] EXCEPT !.at = "bind", !.label = l, !.sent = TRUE]
    OBVIOUS
  <2>2. l \in Titles
    BY CommandsAssumption DEF CommandsAssumption
  <2>3. x \in TaskState /\ x.at = "bind" /\ x.ch = task[t].ch /\ x.todo = task[t].todo /\ x.ref = task[t].ref /\ SameCommand(task[t], x)
    BY <1>2, <2>1, <2>2 DEF TaskState, Spots, SameCommand
  <2>4. task' = [task EXCEPT ![t] = x]
    BY <1>2, <1>3, <2>1
  <2>5. QED BY <1>1, <2>3, <2>4, LabelFound DEF At
<1>4. ASSUME task' = [task EXCEPT ![t].at = "waiting", ![t].sent = TRUE]
      PROVE  CommandsInv'
  <2>1. PICK x : x = [task[t] EXCEPT !.at = "waiting", !.sent = TRUE]
    OBVIOUS
  <2>2. x \in TaskState /\ x.at = "waiting" /\ x.ch = task[t].ch /\ x.todo = task[t].todo /\ x.ref = task[t].ref /\ SameCommand(task[t], x)
    BY <1>2, <2>1 DEF TaskState, Spots, SameCommand
  <2>3. task' = [task EXCEPT ![t] = x]
    BY <1>2, <1>4, <2>1
  <2>4. QED BY <1>1, <2>2, <2>3, LabelFound DEF At
<1>5. ASSUME GoTo(t, "refusal") PROVE CommandsInv'
  <2>1. MayGo(t, "refusal")
    BY <1>1, NotIdle, PollPlaces, OperatorPlaces DEF At, MayGo, Places, ThreadPlaces, ClosePlaces
  <2>2. /\ "refusal" \in Spots /\ "refusal" \notin Ahead \cup RunPlaces \cup ClosePlaces
        /\ "prompt" \in ChannelPlaces \cap WorkerPlaces
    BY DEF Spots, Ahead, ChannelPlaces, RunPlaces, ClosePlaces, WorkerPlaces, ThreadPlaces
  <2>3. QED BY <1>1, <1>5, <2>1, <2>2, GoOnly, NotIdle DEF At
<1>6. QED BY <1>3, <1>4, <1>5 DEF Prompt

LEMMA IdentifyInv == ASSUME CommandsInv, NEW t \in Tasks, Identify(t) PROVE CommandsInv'
<1>1. At(t, "identify") /\ UNCHANGED <<channel, polling, discord, storeVars, registryVars, faults, history>>
  BY DEF Identify
<1>2. task \in [Tasks -> TaskState] /\ task[t] \in TaskState /\ task[t] # Idle
  BY <1>1, NotIdle DEF CommandsInv, CommandTypes, At
<1>3. ASSUME GoTo(t, "bind") PROVE CommandsInv'
  <2>1. PICK x \in TaskState :
           /\ task' = [task EXCEPT ![t] = x] /\ x # Idle /\ SameCommand(task[t], x)
           /\ x.at = "bind" /\ x.ch = task[t].ch /\ x.ref = task[t].ref /\ x.todo = task[t].todo
    <3>1. "bind" \in Spots \ {"idle"}
      BY DEF Spots
    <3>2. QED BY <1>3, <3>1, Go DEF CommandsInv
  <2>2. QED BY <1>1, <2>1, LabelFound DEF At
<1>4. ASSUME GoTo(t, "say") PROVE CommandsInv'
  BY <1>1, <1>2, <1>4, OnlyPolls, SayNext DEF At, ThreadPlaces, ClosePlaces
<1>5. ASSUME NEW l \in Threads, task' = [task EXCEPT ![t].at = "bind", ![t].label = l]
      PROVE  CommandsInv'
  <2>1. PICK x : x = [task[t] EXCEPT !.at = "bind", !.label = l]
    OBVIOUS
  <2>2. l \in Titles
    BY CommandsAssumption DEF CommandsAssumption
  <2>3. x \in TaskState /\ x.at = "bind" /\ x.ch = task[t].ch /\ x.todo = task[t].todo /\ x.ref = task[t].ref /\ SameCommand(task[t], x)
    BY <1>2, <2>1, <2>2 DEF TaskState, Spots, SameCommand
  <2>4. task' = [task EXCEPT ![t] = x]
    BY <1>2, <1>5, <2>1
  <2>5. QED BY <1>1, <2>3, <2>4, LabelFound DEF At
<1>6. QED BY <1>3, <1>4, <1>5 DEF Identify

\* Only operators' closes and the companions of workers are closed.
LEMMA CloseKinds ==
  ASSUME CommandsInv, NEW t \in Tasks, task[t].at \in ClosePlaces
  PROVE  /\ t \in Pollers => Kind(t) \in {"cleanup worker", "cleanup run"}
         /\ t \in Operators => Kind(t) = "close"
         /\ Kind(t) \in {"cleanup worker", "cleanup run", "close"}
         /\ task[t] # Idle
<1>1. task[t] # Idle /\ task[t].at \in {"close", "delete", "unmap"}
  BY NotIdle DEF ClosePlaces
<1>2. t \in Pollers => Kind(t) \in {"cleanup worker", "cleanup run"}
  BY <1>1, PollPlaces DEF Places, ThreadPlaces
<1>3. t \in Operators => Kind(t) = "close"
  BY <1>1, OperatorPlaces DEF ThreadPlaces
<1>4. QED BY <1>1, <1>2, <1>3 DEF Tasks

\* Having closed a channel, it goes on to the next, or to what follows.
LEMMA ClosedOn ==
  ASSUME CommandsInv, NEW t \in Tasks, task[t].at \in ClosePlaces, Closed(t)
  PROVE  \E x \in TaskState : CarriesOn(t, x) /\ HasEntry(x) /\ task' = [task EXCEPT ![t] = x]
<1>1. task \in [Tasks -> TaskState] /\ task[t] \in TaskState
  BY DEF CommandsInv, CommandTypes
<1>2. PICK rest \in SUBSET Channels : rest = task[t].todo \ {Ch(t)} /\ rest \subseteq task[t].todo
  BY <1>1 DEF TaskState
<1>3. PICK p \in {"close", "close worker", "archive", "done"} :
        /\ p = IF rest # {} THEN "close"
               ELSE CASE Kind(t) = "cleanup worker" -> "close worker"
                      [] Kind(t) = "cleanup run"    -> "archive"
                      [] OTHER                      -> "done"
  BY CloseKinds
<1>4. PICK c \in {0} \cup Channels : c = IF rest = {} THEN 0 ELSE FirstOf(rest)
  BY LeastChannel
<1>5. PICK x : x = [task[t] EXCEPT !.todo = rest, !.ch = c, !.at = p]
  OBVIOUS
<1>6. task' = [task EXCEPT ![t] = x]
  BY <1>1, <1>2, <1>3, <1>4, <1>5 DEF Closed
<1>7. /\ x \in TaskState /\ x.at = p /\ x.ch = c /\ x.todo = rest /\ x.ref = task[t].ref /\ SameCommand(task[t], x)
  BY <1>1, <1>5 DEF TaskState, SameCommand, Spots
<1>8. /\ rest # {} => p = "close" /\ c \in rest /\ c # 0
      /\ rest = {} => c = 0 /\ p # "close"
      /\ p = "close worker" => Kind(t) = "cleanup worker"
      /\ p = "archive" => Kind(t) = "cleanup run"
      /\ p = "done" => Kind(t) \notin {"cleanup worker", "cleanup run"}
  BY <1>2, <1>3, <1>4, LeastChannel, CommandsAssumption DEF CommandsAssumption
<1>9. HasChannel(x)
  <2>1. HasChannel(task[t])
    BY DEF CommandsInv, Hands
  <2>2. x.at \notin {"ensure", "note", "noted", "look", "adopt", "identify", "bind worker"} \cup ThreadPlaces
    BY <1>7 DEF ThreadPlaces
  <2>3. Kind(t) \notin MakerKinds /\ x.kind = Kind(t)
    BY <1>7, CloseKinds DEF MakerKinds, SameCommand, Kind
  <2>4. x.at \in ClosePlaces => x.ch # 0
    BY <1>7, <1>8 DEF ClosePlaces
  <2>5. QED BY <1>2, <1>7, <1>8, <2>1, <2>2, <2>3, <2>4 DEF HasChannel, ChannelPlaces, Kind
<1>10. HasEntry(x)
  BY <1>7, <1>8, CloseKinds DEF HasEntry, CommandsInv, Hands, SameCommand, Kind, RunPlaces, WorkerPlaces, ClosePlaces, ThreadPlaces
<1>11. MayGo(t, p) /\ task[t] # Idle
  <2>1. t \in Pollers => task[t].at \notin {"turns", "told"} /\ p \in Places(Kind(t))
    <3>1. {"close", "close worker"} \subseteq Places("cleanup worker") /\ {"close", "archive"} \subseteq Places("cleanup run")
      BY DEF Places, ClosePlaces
    <3>2. QED BY <1>3, <1>8, <3>1, CloseKinds DEF ClosePlaces
  <2>2. t \in Operators => p = "done" \/ (Kind(t) = "close" /\ p \in ClosePlaces)
    BY <1>3, <1>8, CloseKinds DEF ClosePlaces
  <2>3. QED BY <2>1, <2>2, CloseKinds DEF MayGo
<1>12. x # Idle
  <2>1. p # "idle" /\ Idle.at = "idle"
    BY DEF Idle
  <2>2. QED BY <1>7, <2>1
<1>13. x.kind # "pickup" /\ x.at \notin {"note", "bind", "unmap", "ensure"} /\ x.at \notin Ahead /\ task[t].at # "ensure"
  BY <1>7, CloseKinds DEF Ahead, SameCommand, Kind, ClosePlaces
<1>14. CarriesOn(t, x)
  BY <1>7, <1>9, <1>11, <1>12, <1>13, StageKept DEF CarriesOn, MovesOn, Rebinds
<1>15. QED BY <1>6, <1>7, <1>10, <1>14

LEMMA LookUpChannelInv == ASSUME CommandsInv, NEW t \in Tasks, LookUpChannel(t) PROVE CommandsInv'
<1>1. At(t, "close") /\ UNCHANGED <<channel, polling, discord, storeVars, registryVars, faults, history>>
  BY DEF LookUpChannel
<1>2. CASE Closed(t)
  <2>1. task[t].at \in ClosePlaces /\ task[t] # Idle
    BY <1>1, NotIdle DEF At, ClosePlaces
  <2>2. QED BY <1>1, <1>2, <2>1, ClosedOn, Carry
<1>3. QED BY <1>2, LookUpInv DEF LookUpChannel
LEMMA WorkerTyped ==
  ASSUME CommandsInv, NEW w \in 1 .. Len(workers)
  PROVE  /\ workers[w] \in WorkerState /\ workers[w].run \in 1 .. Len(runs)
         /\ workers[w].ch # 0 => workers[w].ch \in OfWorkers
  BY DEF CommandsInv, CommandTypes, Hands

LEMMA ActiveRunInv == ASSUME CommandsInv, NEW t \in Tasks, ActiveRun(t) PROVE CommandsInv'
<1>1. At(t, "active") /\ UNCHANGED <<channel, polling, discord, storeVars, registryVars, faults, history>>
  BY DEF ActiveRun
<1>2. t \in Pollers /\ t \notin Operators /\ task[t] # Idle
  BY <1>1, NotIdle, OnlyPolls DEF At, ThreadPlaces, ClosePlaces
<1>3. task \in [Tasks -> TaskState] /\ task[t] \in TaskState /\ activeRun \in 0 .. Len(runs) /\ Len(runs) \in Nat
      /\ activeRun \in Nat
  BY DEF CommandsInv, CommandTypes
<1>4. Kind(t) \in OnActiveRun
  <2>1. "active" \in Places(Kind(t))
    BY <1>1, <1>2, PollPlaces DEF At
  <2>2. QED BY <2>1 DEF Places, OnActiveRun, ThreadPlaces, ClosePlaces
<1>5. PICK p \in {"say", "register", "archive", "companions", "worker"} :
        p = IF activeRun = 0 THEN "say"
            ELSE CASE Kind(t) = "start worker" -> "register"
                   [] Kind(t) = "archive run"  -> "archive"
                   [] Kind(t) = "cleanup run"  -> "companions"
                   [] OTHER                    -> "worker"
  OBVIOUS
<1>6. /\ p # "say" => activeRun \in 1 .. Len(runs)
      /\ p = "register" => Kind(t) = "start worker"
      /\ p = "archive" => Kind(t) = "archive run"
      /\ p = "companions" => Kind(t) = "cleanup run"
      /\ p = "worker" => Kind(t) \in {"identity", "close worker", "cleanup worker"}
  <2>1. CASE activeRun = 0
    BY <1>5, <2>1
  <2>2. CASE activeRun # 0
    <3>1. activeRun \in 1 .. Len(runs)
      BY <1>3, <2>2
    <3>2. p = CASE Kind(t) = "start worker" -> "register"
                [] Kind(t) = "archive run"  -> "archive"
                [] Kind(t) = "cleanup run"  -> "companions"
                [] OTHER                    -> "worker"
      BY <1>5, <2>2
    <3>3. p = "worker" => Kind(t) \notin {"start worker", "archive run", "cleanup run"}
      BY <3>2
    <3>4. /\ p = "register" => Kind(t) = "start worker"
          /\ p = "archive" => Kind(t) = "archive run"
          /\ p = "companions" => Kind(t) = "cleanup run"
      BY <3>2
    <3>5. QED BY <1>4, <3>1, <3>3, <3>4 DEF OnActiveRun
  <2>3. QED BY <2>1, <2>2
<1>7. PICK x : x = [task[t] EXCEPT !.ref = activeRun, !.at = p]
  OBVIOUS
<1>8. /\ x \in TaskState /\ x.at = p /\ x.ch = task[t].ch /\ x.todo = task[t].todo /\ x.ref = activeRun
      /\ SameCommand(task[t], x)
  BY <1>3, <1>7 DEF TaskState, Spots, SameCommand
<1>9. task' = [task EXCEPT ![t] = x]
  BY <1>3, <1>5, <1>7 DEF ActiveRun
<1>10. x # Idle /\ MayGo(t, x.at)
  <2>1. p # "idle" /\ Idle.at = "idle"
    BY DEF Idle
  <2>2. p \in Places(Kind(t)) \cup {"say"}
    <3>1. /\ "register" \in Places("start worker") /\ "archive" \in Places("archive run")
          /\ "companions" \in Places("cleanup run") /\ "worker" \in Places("identity")
          /\ "worker" \in Places("close worker") /\ "worker" \in Places("cleanup worker")
      BY DEF Places
    <3>2. QED BY <1>6, <3>1
  <2>3. QED BY <1>1, <1>2, <1>8, <2>1, <2>2 DEF MayGo, At
<1>11. HasChannel(x) /\ HasEntry(x)
  <2>1. p \notin ChannelPlaces \cup WorkerPlaces \cup ClosePlaces /\ "active" \notin ChannelPlaces
    BY DEF ChannelPlaces, WorkerPlaces, ClosePlaces, ThreadPlaces
  <2>2. HasChannel(x)
    BY <1>8, <2>1 DEF CommandsInv, Hands, HasChannel, SameCommand
  <2>3. HasEntry(x)
    BY <1>6, <1>8, <2>1 DEF HasEntry, RunPlaces
  <2>4. QED BY <2>2, <2>3
<1>12. CarriesOn(t, x)
  <2>1. x.kind # "pickup" /\ x.at \notin {"note", "bind", "unmap"}
    BY <1>4, <1>8 DEF OnActiveRun, SameCommand, Kind
  <2>2. QED BY <1>1, <1>2, <1>8, <1>10, <1>11, <2>1, StageKept DEF CarriesOn, MovesOn, Rebinds, Ahead, At
<1>13. QED BY <1>1, <1>2, <1>9, <1>11, <1>12, Carry

LEMMA BoardInv == ASSUME CommandsInv, NEW t \in Tasks, Board(t) PROVE CommandsInv'
<1>1. At(t, "board") /\ UNCHANGED <<channel, polling, discord, storeVars, registryVars, faults, history>>
  BY DEF Board
<1>2. t \in Pollers /\ t \notin Operators /\ task[t] # Idle
  BY <1>1, NotIdle, OnlyPolls DEF At, ThreadPlaces, ClosePlaces
<1>3. task \in [Tasks -> TaskState] /\ task[t] \in TaskState /\ task[t].key \in 1 .. Len(runs)
  <2>1. task \in [Tasks -> TaskState] /\ task[t] \in TaskState /\ runs \in Seq({"open", "archived"})
    BY DEF CommandsInv, CommandTypes
  <2>2. DOMAIN runs = 1 .. Len(runs)
    BY <2>1
  <2>3. QED BY <2>1, <2>2 DEF Board
<1>4. Kind(t) = "switch run"
  <2>1. "board" \in Places(Kind(t))
    BY <1>1, <1>2, PollPlaces DEF At
  <2>2. QED BY <2>1 DEF Places, ThreadPlaces, ClosePlaces
<1>5. PICK x : x = [task[t] EXCEPT !.at = "set run", !.ref = task[t].key]
  OBVIOUS
<1>6. /\ x \in TaskState /\ x.at = "set run" /\ x.ch = task[t].ch /\ x.todo = task[t].todo /\ x.ref = task[t].key
      /\ SameCommand(task[t], x)
  BY <1>3, <1>5 DEF TaskState, Spots, SameCommand
<1>7. task' = [task EXCEPT ![t] = x]
  BY <1>3, <1>5 DEF Board
<1>8. x # Idle /\ MayGo(t, x.at)
  <2>1. "set run" \in Places("switch run") /\ Idle.at = "idle"
    BY DEF Places, Idle
  <2>2. QED BY <1>1, <1>2, <1>4, <1>6, <2>1 DEF MayGo, At
<1>9. HasChannel(x) /\ HasEntry(x)
  <2>1. "set run" \notin ChannelPlaces \cup WorkerPlaces \cup ClosePlaces
    BY DEF ChannelPlaces, WorkerPlaces, ClosePlaces, ThreadPlaces
  <2>2. HasChannel(x)
    BY <1>6, <2>1 DEF CommandsInv, Hands, HasChannel, SameCommand
  <2>3. HasEntry(x)
    BY <1>3, <1>6, <2>1 DEF HasEntry, RunPlaces
  <2>4. QED BY <2>2, <2>3
<1>10. CarriesOn(t, x)
  BY <1>1, <1>2, <1>4, <1>6, <1>8, <1>9, StageKept DEF CarriesOn, MovesOn, Rebinds, Ahead, At, SameCommand, Kind
<1>11. QED BY <1>1, <1>2, <1>7, <1>9, <1>10, Carry

LEMMA LookAtMappingInv == ASSUME CommandsInv, NEW t \in Tasks, LookAtMapping(t) PROVE CommandsInv'
<1>1. At(t, "look") /\ UNCHANGED <<channel, polling, discord, storeVars, registryVars, faults, history>>
  BY DEF LookAtMapping
<1>2. t \in Pollers /\ t \notin Operators /\ task[t] # Idle
  BY <1>1, NotIdle, OnlyPolls DEF At, ThreadPlaces, ClosePlaces
<1>3. task \in [Tasks -> TaskState] /\ task[t] \in TaskState
  BY DEF CommandsInv, CommandTypes
<1>4. Kind(t) = "identity"
  <2>1. "look" \in Places(Kind(t))
    BY <1>1, <1>2, PollPlaces DEF At
  <2>2. QED BY <2>1 DEF Places, ThreadPlaces, ClosePlaces
<1>5. HasChannel(task[t]) /\ HasEntry(task[t])
  BY DEF CommandsInv, Hands
<1>6. Ch(t) \in Channels /\ task[t].ref \in 1 .. Len(workers)
  BY <1>1, <1>3, <1>4, <1>5 DEF HasChannel, HasEntry, ChannelPlaces, WorkerPlaces, At, Kind, Ch, TaskState
<1>7. PICK l \in {0} \cup Titles : l = IF mapping[Ch(t)].label # 0 THEN mapping[Ch(t)].label ELSE workers[task[t].ref].label
  BY <1>6, WorkerTyped DEF CommandsInv, CommandTypes, MappingState, WorkerState
<1>8. PICK p \in {"identify", "adopt"} : p = IF Mapped(Ch(t)) THEN "identify" ELSE "adopt"
  OBVIOUS
<1>9. PICK x : x = [task[t] EXCEPT !.at = p, !.label = l]
  OBVIOUS
<1>10. /\ x \in TaskState /\ x.at = p /\ x.ch = task[t].ch /\ x.todo = task[t].todo /\ x.ref = task[t].ref
       /\ SameCommand(task[t], x)
  BY <1>3, <1>9 DEF TaskState, Spots, SameCommand
<1>11. task' = [task EXCEPT ![t] = x]
  BY <1>3, <1>7, <1>8, <1>9 DEF LookAtMapping
<1>12. x # Idle /\ MayGo(t, x.at)
  <2>1. p # "idle" /\ Idle.at = "idle" /\ p \in Places("identity")
    BY DEF Idle, Places
  <2>2. QED BY <1>1, <1>2, <1>4, <1>10, <2>1 DEF MayGo, At
<1>13. HasChannel(x) /\ HasEntry(x)
  BY <1>1, <1>4, <1>5, <1>6, <1>10, CommandsAssumption DEF HasChannel, HasEntry, SameCommand, Kind, Ch, RunPlaces, CommandsAssumption
<1>14. CarriesOn(t, x)
  BY <1>1, <1>2, <1>4, <1>10, <1>12, <1>13, StageKept DEF CarriesOn, MovesOn, Rebinds, Ahead, At, SameCommand, Kind
<1>15. QED BY <1>1, <1>2, <1>11, <1>13, <1>14, Carry
LEMMA Within == ASSUME NEW n \in Nat, NEW x \in 1 .. n PROVE x \in Nat /\ x \in 0 .. n
OBVIOUS

LEMMA GetWorkerInv == ASSUME CommandsInv, NEW t \in Tasks, GetWorker(t) PROVE CommandsInv'
<1> DEFINE named == {w \in WorkersOf(task[t].ref) : Cardinality({v \in WorkersOf(task[t].ref) : v <= w}) = task[t].key}
<1>1. At(t, "worker") /\ named # {} /\ UNCHANGED <<channel, polling, discord, storeVars, registryVars, faults, history>>
  BY DEF GetWorker
<1>2. t \in Pollers /\ t \notin Operators /\ task[t] # Idle
  BY <1>1, NotIdle, OnlyPolls DEF At, ThreadPlaces, ClosePlaces
<1>3. task \in [Tasks -> TaskState] /\ task[t] \in TaskState /\ Len(workers) \in Nat /\ DOMAIN workers = 1 .. Len(workers)
  <2>1. task \in [Tasks -> TaskState] /\ task[t] \in TaskState /\ workers \in Seq(WorkerState)
    BY DEF CommandsInv, CommandTypes
  <2>2. QED BY <2>1
<1>4. Kind(t) \in {"identity", "close worker", "cleanup worker"}
  <2>1. "worker" \in Places(Kind(t))
    BY <1>1, <1>2, PollPlaces DEF At
  <2>2. QED BY <2>1 DEF Places, ThreadPlaces, ClosePlaces
<1>5. PICK w \in 1 .. Len(workers) : w = FirstOf(named)
  <2>1. named \in SUBSET (1 .. Len(workers)) /\ named \in SUBSET Nat
    BY <1>3 DEF WorkersOf
  <2>2. FirstOf(named) \in named
    BY <1>1, <2>1, LeastNumber
  <2>3. QED BY <2>1, <2>2
<1>6. PICK c \in {0} \cup Channels : c = workers[w].ch /\ (c # 0 => c \in OfWorkers)
  BY WorkerTyped DEF WorkerState
<1>7. PICK p \in {"say", "look", "close", "close worker"} :
        p = CASE Kind(t) = "identity" -> IF c = 0 THEN "say" ELSE "look"
              [] Kind(t) = "cleanup worker" /\ c # 0 -> "close"
              [] OTHER -> "close worker"
  OBVIOUS
<1>8. task' = [task EXCEPT ![t].ref = w, ![t].ch = c, ![t].todo = {c} \ {0}, ![t].at = p]
  BY <1>5, <1>6, <1>7 DEF GetWorker
<1> HIDE DEF named
<1>9. /\ p = "say" => c = 0
      /\ p = "look" => Kind(t) = "identity" /\ c # 0
      /\ p = "close" => Kind(t) = "cleanup worker" /\ c # 0
      /\ p = "close worker" => Kind(t) \in {"close worker", "cleanup worker"}
  BY <1>4, <1>7
<1>10. PICK x : x = [task[t] EXCEPT !.ref = w, !.ch = c, !.todo = {c} \ {0}, !.at = p]
  OBVIOUS
<1>11. w \in Nat /\ {c} \ {0} \in SUBSET Channels
  <2>1. w \in Nat
    <3>1. w \in 1 .. Len(workers)
      BY <1>5
    <3>2. Len(workers) \in Nat
      BY <1>3
    <3>3. QED BY <3>1, <3>2, Within
  <2>2. {c} \ {0} \subseteq Channels
    OBVIOUS
  <2>3. QED BY <2>1, <2>2
<1>12. /\ x \in TaskState /\ x.at = p /\ x.ch = c /\ x.todo = {c} \ {0} /\ x.ref = w
       /\ SameCommand(task[t], x)
  BY <1>3, <1>10, <1>11 DEF TaskState, Spots, SameCommand
<1>13. task' = [task EXCEPT ![t] = x]
  BY <1>3, <1>8, <1>10
<1>14. x # Idle /\ MayGo(t, x.at)
  <2>1. /\ p # "idle" /\ Idle.at = "idle" /\ "look" \in Places("identity") /\ "close" \in Places("cleanup worker")
        /\ "close worker" \in Places("close worker") /\ "close worker" \in Places("cleanup worker")
    BY DEF Idle, Places, ClosePlaces
  <2>2. p \in Places(Kind(t)) \cup {"say"}
    BY <1>9, <2>1
  <2>3. QED BY <1>1, <1>2, <1>12, <2>1, <2>2 DEF MayGo, At
<1>15. HasChannel(x) /\ HasEntry(x)
  <2>1. c # 0 => c \in Made
    BY <1>6 DEF OfWorkers, Made
  <2>2. p \in ChannelPlaces => c # 0
    BY <1>9 DEF ChannelPlaces, ThreadPlaces, ClosePlaces
  <2>3. x.kind \in {"identity", "close worker", "cleanup worker"} /\ p \notin RunPlaces
    BY <1>4, <1>12 DEF SameCommand, Kind, RunPlaces
  <2>4. HasChannel(x)
    BY <1>6, <1>12, <2>1, <2>2, <2>3 DEF HasChannel, MakerKinds
  <2>5. HasEntry(x)
    BY <1>12, <2>3 DEF HasEntry
  <2>6. QED BY <2>4, <2>5
<1>16. CarriesOn(t, x)
  BY <1>1, <1>2, <1>4, <1>12, <1>14, <1>15, StageKept DEF CarriesOn, MovesOn, Rebinds, Ahead, At, SameCommand, Kind
<1>17. QED BY <1>1, <1>2, <1>13, <1>15, <1>16, Carry

LEMMA ListCompanionsInv == ASSUME CommandsInv, NEW t \in Tasks, ListCompanions(t) PROVE CommandsInv'
<1> DEFINE cs == {workers[w].ch : w \in WorkersOf(task[t].ref)} \ {0}
<1>1. At(t, "companions") /\ UNCHANGED <<channel, polling, discord, storeVars, registryVars, faults, history>>
  BY DEF ListCompanions
<1>2. t \in Pollers /\ t \notin Operators /\ task[t] # Idle
  BY <1>1, NotIdle, OnlyPolls DEF At, ThreadPlaces, ClosePlaces
<1>3. task \in [Tasks -> TaskState] /\ task[t] \in TaskState /\ Len(workers) \in Nat /\ DOMAIN workers = 1 .. Len(workers)
  <2>1. task \in [Tasks -> TaskState] /\ task[t] \in TaskState /\ workers \in Seq(WorkerState)
    BY DEF CommandsInv, CommandTypes
  <2>2. QED BY <2>1
<1>4. Kind(t) = "cleanup run"
  <2>1. "companions" \in Places(Kind(t))
    BY <1>1, <1>2, PollPlaces DEF At
  <2>2. QED BY <2>1 DEF Places, ThreadPlaces, ClosePlaces
<1>5. cs \subseteq OfWorkers /\ cs \subseteq Channels
  BY <1>3, WorkerTyped DEF WorkersOf, OfWorkers
<1>6. PICK rest \in SUBSET Channels : rest = cs /\ rest \subseteq OfWorkers
  BY <1>5
<1>7. \/ rest = {} /\ task' = [task EXCEPT ![t].at = "archive"]
      \/ rest # {} /\ task' = [task EXCEPT ![t].at = "close", ![t].todo = rest, ![t].ch = FirstOf(rest)]
  BY <1>6 DEF ListCompanions
<1> HIDE DEF cs
<1>8. HasChannel(task[t]) /\ HasEntry(task[t])
  BY DEF CommandsInv, Hands
<1>9. task[t].ref \in 1 .. Len(runs)
  BY <1>1, <1>8 DEF HasEntry, RunPlaces, At
<1>10. CASE rest = {}
  <2>1. GoTo(t, "archive")
    BY <1>7, <1>10 DEF GoTo
  <2>2. MayGo(t, "archive")
    BY <1>1, <1>2, <1>4 DEF MayGo, At, Places
  <2>3. /\ "archive" \in Spots /\ "archive" \notin Ahead \cup ChannelPlaces \cup ClosePlaces \cup WorkerPlaces
        /\ "companions" \in RunPlaces
    BY DEF Spots, Ahead, ChannelPlaces, RunPlaces, ClosePlaces, WorkerPlaces, ThreadPlaces
  <2>4. QED BY <1>1, <1>2, <2>1, <2>2, <2>3, GoOnly DEF At
<1>11. CASE rest # {}
  <2>1. PICK c \in rest : c = FirstOf(rest)
    BY <1>11, LeastChannel
  <2>2. PICK x : x = [task[t] EXCEPT !.at = "close", !.todo = rest, !.ch = c]
    OBVIOUS
  <2>3. /\ x \in TaskState /\ x.at = "close" /\ x.ch = c /\ x.todo = rest /\ x.ref = task[t].ref
        /\ SameCommand(task[t], x)
    BY <1>3, <2>2 DEF TaskState, Spots, SameCommand
  <2>4. task' = [task EXCEPT ![t] = x]
    BY <1>3, <1>7, <1>11, <2>1, <2>2
  <2>5. x # Idle /\ MayGo(t, x.at)
    <3>1. "close" \in Places("cleanup run") /\ Idle.at = "idle"
      BY DEF Idle, Places, ClosePlaces
    <3>2. QED BY <1>1, <1>2, <1>4, <2>3, <3>1 DEF MayGo, At
  <2>6. HasChannel(x) /\ HasEntry(x)
    <3>1. c # 0 /\ rest \subseteq Made
      BY <1>6, CommandsAssumption DEF OfWorkers, Made, CommandsAssumption
    <3>2. x.kind = "cleanup run"
      BY <1>4, <2>3 DEF SameCommand, Kind
    <3>3. HasChannel(x)
      BY <1>6, <2>3, <3>1, <3>2 DEF HasChannel, MakerKinds
    <3>4. HasEntry(x)
      BY <1>9, <2>3, <3>2 DEF HasEntry
    <3>5. QED BY <3>3, <3>4
  <2>7. CarriesOn(t, x)
    BY <1>1, <1>2, <1>4, <2>3, <2>5, <2>6, StageKept DEF CarriesOn, MovesOn, Rebinds, Ahead, At, SameCommand, Kind
  <2>8. QED BY <1>1, <1>2, <2>4, <2>6, <2>7, Carry
<1>12. QED BY <1>10, <1>11
-----------------------------------------------------------------------------
(* Steps that change the registry, the list of threads or the active run.    *)

\* A task goes on to another place while they change.
LEMMA GoWith ==
  ASSUME CommandsInv, NEW t \in Tasks, task[t] # Idle,
         NEW p \in Spots \ {"idle", "unmap", "find", "create", "ensure", "note", "bind"}, GoTo(t, p),
         task[t].at # "ensure", MayGo(t, p),
         p \notin Ahead \cup ChannelPlaces \cup RunPlaces \cup ClosePlaces \cup WorkerPlaces,
         SameChannels, RestTyped', Grows
  PROVE  CommandsInv'
<1>1. PICK x \in TaskState : CarriesOn(t, x) /\ HasEntry(x) /\ x.ref = task[t].ref /\ task' = [task EXCEPT ![t] = x]
  BY GoOn
<1>2. HasEntry(x)'
  BY <1>1, EntryStays DEF CommandsInv
<1>3. QED BY <1>1, <1>2, CarryOn

LEMMA SayPlace ==
  /\ "say" \in Spots \ {"idle", "unmap", "find", "create", "ensure", "note", "bind"}
  /\ "say" \notin Ahead \cup ChannelPlaces \cup RunPlaces \cup ClosePlaces \cup WorkerPlaces
BY DEF Spots, Ahead, ChannelPlaces, RunPlaces, ClosePlaces, WorkerPlaces, ThreadPlaces

LEMMA PollSays ==
  ASSUME CommandsInv, NEW t \in Tasks,
         task[t].at \in {"threads", "set run", "clear", "bind worker", "close worker"}
  PROVE  task[t] # Idle /\ t \in Pollers /\ t \notin Operators /\ MayGo(t, "say")
<1>1. task[t] # Idle /\ t \in Pollers /\ t \notin Operators
  BY NotIdle, OnlyPolls DEF ThreadPlaces, ClosePlaces
<1>2. QED BY <1>1 DEF MayGo

LEMMA ListThreadsInv == ASSUME CommandsInv, NEW t \in Tasks, ListThreads(t) PROVE CommandsInv'
<1>1. At(t, "threads") /\ GoTo(t, "say") /\ list' \in Lists
  BY DEF ListThreads
<1>2. SameChannels
  BY DEF ListThreads, SameChannels, history
<1>3. UNCHANGED <<runs, activeRun, workers, faults, maker>>
  BY DEF ListThreads, registryVars, history
<1>4. OfWorkers' = OfWorkers
  BY <1>3 DEF OfWorkers
<1>5. RestTyped' /\ Grows
  <2>1. Len(runs) \in Nat /\ Len(workers) \in Nat
    BY DEF CommandsInv, CommandTypes
  <2>2. RestTyped'
    BY <1>1, <1>3, <1>4, RestKept DEF RestTyped
  <2>3. QED BY <1>3, <2>1, <2>2 DEF Grows
<1>6. QED BY <1>1, <1>2, <1>5, GoWith, SayPlace, PollSays DEF At

LEMMA SetActiveRunInv == ASSUME CommandsInv, NEW t \in Tasks, SetActiveRun(t) PROVE CommandsInv'
<1>1. task[t].at \in {"set run", "clear"} /\ GoTo(t, "say") /\ activeRun' = IF At(t, "clear") THEN 0 ELSE task[t].ref
  BY DEF SetActiveRun
<1>2. SameChannels
  BY DEF SetActiveRun, SameChannels, history
<1>3. UNCHANGED <<runs, list, workers, faults, maker>>
  BY DEF SetActiveRun, registryVars, history
<1>4. OfWorkers' = OfWorkers
  BY <1>3 DEF OfWorkers
<1>5. activeRun' \in 0 .. Len(runs)
  <2>1. Len(runs) \in Nat /\ HasEntry(task[t])
    BY DEF CommandsInv, CommandTypes, Hands
  <2>2. task[t].at = "set run" => task[t].ref \in 1 .. Len(runs)
    BY <2>1 DEF HasEntry, RunPlaces
  <2>3. CASE task[t].at = "clear"
    <3>1. activeRun' = 0
      BY <1>1, <2>3 DEF At
    <3>2. QED BY <2>1, <3>1
  <2>4. CASE task[t].at # "clear"
    <3>1. task[t].at = "set run" /\ activeRun' = task[t].ref
      BY <1>1, <2>4 DEF At
    <3>2. Len(runs) \in Nat
      BY <2>1
    <3>3. task[t].ref \in 0 .. Len(runs)
      BY <2>2, <3>1, <3>2, Within
    <3>4. QED BY <3>1, <3>3
  <2>5. QED BY <2>3, <2>4
<1>6. RestTyped' /\ Grows
  <2>1. Len(runs) \in Nat /\ Len(workers) \in Nat
    BY DEF CommandsInv, CommandTypes
  <2>2. RestTyped'
    BY <1>3, <1>4, <1>5, RestKept DEF RestTyped
  <2>3. QED BY <1>3, <2>1, <2>2 DEF Grows
<1>7. QED BY <1>1, <1>2, <1>6, GoWith, SayPlace, PollSays

LEMMA ArchiveRunInv == ASSUME CommandsInv, NEW t \in Tasks, ArchiveRun(t) PROVE CommandsInv'
<1>1. At(t, "archive") /\ GoTo(t, "clear") /\ runs' = [runs EXCEPT ![task[t].ref] = "archived"]
  BY DEF ArchiveRun
<1>2. SameChannels
  BY DEF ArchiveRun, SameChannels, storeVars, history
<1>3. UNCHANGED <<activeRun, list, workers, faults, maker>>
  BY DEF ArchiveRun, storeVars, history
<1>4. OfWorkers' = OfWorkers
  BY <1>3 DEF OfWorkers
<1>5. t \in Pollers /\ t \notin Operators /\ task[t] # Idle
  BY <1>1, NotIdle, OnlyPolls DEF At, ThreadPlaces, ClosePlaces
<1>6. runs' \in Seq({"open", "archived"}) /\ Len(runs') = Len(runs)
  <2>1. runs \in Seq({"open", "archived"})
    BY DEF CommandsInv, CommandTypes
  <2>2. PICK r \in 1 .. Len(runs) : r = task[t].ref
    <3>1. HasEntry(task[t])
      BY DEF CommandsInv, Hands
    <3>2. QED BY <1>1, <3>1 DEF HasEntry, RunPlaces, At
  <2>3. runs' = [runs EXCEPT ![r] = "archived"]
    BY <1>1, <2>2
  <2>4. QED BY <2>1, <2>3, ExceptSeq
<1>7. RestTyped' /\ Grows
  <2>1. Len(runs) \in Nat /\ Len(workers) \in Nat
    BY DEF CommandsInv, CommandTypes
  <2>2. RestTyped'
    BY <1>3, <1>4, <1>6, RestKept DEF RestTyped
  <2>3. QED BY <1>3, <1>6, <2>1, <2>2 DEF Grows
<1>8. MayGo(t, "clear")
  <2>1. "archive" \in Places(Kind(t))
    BY <1>1, <1>5, PollPlaces DEF At
  <2>2. "clear" \in Places(Kind(t))
    BY <2>1 DEF Places, ThreadPlaces, ClosePlaces
  <2>3. QED BY <1>1, <1>5, <2>2 DEF MayGo, At
<1>9. /\ "clear" \in Spots \ {"idle", "unmap", "find", "create", "ensure", "note", "bind"}
      /\ "clear" \notin Ahead \cup ChannelPlaces \cup RunPlaces \cup ClosePlaces \cup WorkerPlaces
  BY DEF Spots, Ahead, ChannelPlaces, RunPlaces, ClosePlaces, WorkerPlaces, ThreadPlaces
<1>10. QED BY <1>1, <1>2, <1>5, <1>7, <1>8, <1>9, GoWith DEF At

LEMMA CloseWorkerInv == ASSUME CommandsInv, NEW t \in Tasks, CloseWorker(t) PROVE CommandsInv'
<1>1. At(t, "close worker") /\ GoTo(t, "say") /\ workers' = ClosedWorker(task[t].ref)
  BY DEF CloseWorker
<1>2. SameChannels
  BY DEF CloseWorker, SameChannels, storeVars, history
<1>3. UNCHANGED <<activeRun, list, runs, faults, maker>>
  BY DEF CloseWorker, storeVars, history
<1>4. OfWorkers' = OfWorkers
  BY <1>3 DEF OfWorkers
<1>5. /\ workers' \in Seq(WorkerState) /\ Len(workers') = Len(workers)
      /\ \A w \in 1 .. Len(workers) : workers'[w].run = workers[w].run /\ workers'[w].ch = workers[w].ch
  <2>1. workers \in Seq(WorkerState)
    BY DEF CommandsInv, CommandTypes
  <2>2. PICK r \in 1 .. Len(workers) : r = task[t].ref
    <3>1. HasEntry(task[t]) /\ task[t] # Idle /\ t \in Pollers
      BY <1>1, PollSays DEF CommandsInv, Hands, At
    <3>2. "close worker" \in Places(Kind(t))
      BY <1>1, <3>1, PollPlaces DEF At
    <3>3. Kind(t) \in {"close worker", "cleanup worker"}
      BY <3>2 DEF Places, ThreadPlaces, ClosePlaces
    <3>4. QED BY <1>1, <3>1, <3>3 DEF HasEntry, WorkerPlaces, At, Kind
  <2>3. PICK v : v = [workers[r] EXCEPT !.open = FALSE]
    OBVIOUS
  <2>4. workers' = [workers EXCEPT ![r] = v]
    BY <1>1, <2>1, <2>2, <2>3 DEF ClosedWorker
  <2>5. workers[r] \in WorkerState
    BY <2>1
  <2>6. v \in WorkerState /\ v.run = workers[r].run /\ v.ch = workers[r].ch
    BY <2>3, <2>5 DEF WorkerState
  <2>7. QED BY <2>1, <2>4, <2>6, ExceptSeq
<1>6. RestTyped' /\ Grows
  <2>1. Len(runs) \in Nat /\ Len(workers) \in Nat
    BY DEF CommandsInv, CommandTypes
  <2>2. RestTyped'
    BY <1>3, <1>4, <1>5, RestKept DEF RestTyped
  <2>3. QED BY <1>3, <1>5, <2>1, <2>2 DEF Grows
<1>7. QED BY <1>1, <1>2, <1>6, GoWith, SayPlace, PollSays DEF At

LEMMA BindWorkerInv == ASSUME CommandsInv, NEW t \in Tasks, BindWorker(t) PROVE CommandsInv'
<1>1. At(t, "bind worker") /\ GoTo(t, "say") /\ workers' = BoundWorker(task[t].ref, Ch(t), task[t].label)
  BY DEF BindWorker
<1>2. SameChannels
  BY DEF BindWorker, SameChannels, storeVars, history
<1>3. UNCHANGED <<activeRun, list, runs, faults, maker>>
  BY DEF BindWorker, storeVars, history
<1>4. OfWorkers' = OfWorkers
  BY <1>3 DEF OfWorkers
<1>5. task[t] \in TaskState /\ t \in Pollers /\ HasChannel(task[t]) /\ task[t] # Idle
  BY <1>1, PollSays DEF CommandsInv, CommandTypes, Hands, At
<1>6. Kind(t) \in {"start worker", "identity"}
  <2>1. "bind worker" \in Places(Kind(t))
    BY <1>1, <1>5, PollPlaces DEF At
  <2>2. QED BY <2>1 DEF Places, ThreadPlaces, ClosePlaces
<1>7. Ch(t) \in OfWorkers
  BY <1>1, <1>5, <1>6 DEF HasChannel, ChannelPlaces, At, Kind, Ch, MakerKinds, WorkerKinds, OfWorkers, TaskState
<1>8. PICK r \in 1 .. Len(workers) : r = task[t].ref
  <2>1. HasEntry(task[t])
    BY DEF CommandsInv, Hands
  <2>2. QED BY <1>1, <1>6, <2>1 DEF HasEntry, WorkerPlaces, At, Kind
<1>9. /\ workers' \in Seq(WorkerState) /\ Len(workers') = Len(workers)
      /\ \A w \in 1 .. Len(workers) :
           workers'[w].run = workers[w].run /\ (workers'[w].ch = workers[w].ch \/ workers'[w].ch = Ch(t))
  <2>1. workers \in Seq(WorkerState) /\ workers[r] \in WorkerState
    BY DEF CommandsInv, CommandTypes
  <2>2. PICK c \in {0} \cup Channels, l \in {0} \cup Titles : c = Ch(t) /\ l = task[t].label
    BY <1>5 DEF TaskState, Ch
  <2>3. PICK v : v = [workers[r] EXCEPT !.ch = c, !.label = l]
    OBVIOUS
  <2>4. workers' = [workers EXCEPT ![r] = v]
    BY <1>1, <1>8, <2>1, <2>2, <2>3 DEF BoundWorker
  <2>5. v \in WorkerState /\ v.run = workers[r].run /\ v.ch = c
    BY <2>1, <2>3 DEF WorkerState
  <2>6. QED BY <2>1, <2>2, <2>4, <2>5, ExceptSeq
<1>10. RestTyped' /\ Grows
  <2>1. Len(runs) \in Nat /\ Len(workers) \in Nat
    BY DEF CommandsInv, CommandTypes
  <2>2. RestTyped'
    BY <1>3, <1>4, <1>7, <1>9, RestKept DEF RestTyped
  <2>3. QED BY <1>3, <1>9, <2>1, <2>2 DEF Grows
<1>11. QED BY <1>1, <1>2, <1>10, GoWith, SayPlace, PollSays DEF At
LEMMA CreateRunInv == ASSUME CommandsInv, NEW t \in Tasks, CreateRun(t) PROVE CommandsInv'
<1>1. At(t, "create run") /\ runs' = Append(runs, "open")
  BY DEF CreateRun
<1>2. SameChannels
  BY DEF CreateRun, SameChannels, storeVars, history
<1>3. UNCHANGED <<activeRun, list, workers, faults, maker>>
  BY DEF CreateRun, storeVars, history
<1>4. OfWorkers' = OfWorkers
  BY <1>3 DEF OfWorkers
<1>5. t \in Pollers /\ t \notin Operators /\ task[t] # Idle
  BY <1>1, NotIdle, OnlyPolls DEF At, ThreadPlaces, ClosePlaces
<1>6. Kind(t) = "start run"
  <2>1. "create run" \in Places(Kind(t))
    BY <1>1, <1>5, PollPlaces DEF At
  <2>2. QED BY <2>1 DEF Places, ThreadPlaces, ClosePlaces
<1>7. PICK n \in Nat : n = Len(runs) /\ runs' \in Seq({"open", "archived"}) /\ Len(runs') = n + 1
  <2>1. runs \in Seq({"open", "archived"})
    BY DEF CommandsInv, CommandTypes
  <2>2. "open" \in {"open", "archived"}
    OBVIOUS
  <2>3. runs' \in Seq({"open", "archived"}) /\ Len(runs') = Len(runs) + 1
    BY <1>1, <2>1, <2>2, AppendProperties
  <2>4. Len(runs) \in Nat
    BY <2>1
  <2>5. QED BY <2>3, <2>4
<1>8. n + 1 \in 1 .. Len(runs') /\ n + 1 \in Nat /\ \A m : (m \in 0 .. n => m \in 0 .. n + 1) /\ (m \in 1 .. n => m \in 1 .. n + 1)
  BY <1>7
<1>9. RestTyped' /\ Grows
  <2>1. Len(workers) \in Nat
    BY DEF CommandsInv, CommandTypes
  <2>2. activeRun' \in 0 .. Len(runs')
    BY <1>3, <1>7, <1>8, RestKept DEF RestTyped
  <2>3. \A w \in 1 .. Len(workers) : workers[w].run \in 1 .. Len(runs') /\ (workers[w].ch # 0 => workers[w].ch \in OfWorkers)
    BY <1>7, <1>8, RestKept DEF RestTyped
  <2>4. RestTyped'
    BY <1>3, <1>4, <1>7, <2>2, <2>3, RestKept DEF RestTyped
  <2>5. QED BY <1>3, <1>7, <2>1, <2>4 DEF Grows
<1>10. task \in [Tasks -> TaskState] /\ task[t] \in TaskState
  BY DEF CommandsInv, CommandTypes
<1>11. PICK x : x = [task[t] EXCEPT !.at = "set run", !.ref = n + 1]
  OBVIOUS
<1>12. /\ x \in TaskState /\ x.at = "set run" /\ x.ch = task[t].ch /\ x.todo = task[t].todo /\ x.ref = n + 1
       /\ SameCommand(task[t], x)
  BY <1>8, <1>10, <1>11 DEF TaskState, Spots, SameCommand
<1>13. task' = [task EXCEPT ![t] = x]
  BY <1>7, <1>10, <1>11 DEF CreateRun
<1>14. x # Idle /\ MayGo(t, x.at)
  <2>1. "set run" \in Places("start run") /\ Idle.at = "idle"
    BY DEF Places, Idle
  <2>2. QED BY <1>1, <1>5, <1>6, <1>12, <2>1 DEF MayGo, At
<1>15. HasChannel(x) /\ HasEntry(x)'
  <2>1. "set run" \notin ChannelPlaces \cup WorkerPlaces \cup ClosePlaces
    BY DEF ChannelPlaces, WorkerPlaces, ClosePlaces, ThreadPlaces
  <2>2. HasChannel(x)
    BY <1>12, <2>1 DEF CommandsInv, Hands, HasChannel, SameCommand
  <2>3. HasEntry(x)'
    BY <1>8, <1>12, <2>1 DEF HasEntry, RunPlaces
  <2>4. QED BY <2>2, <2>3
<1>16. CarriesOn(t, x)
  BY <1>1, <1>5, <1>6, <1>12, <1>14, <1>15, StageKept DEF CarriesOn, MovesOn, Rebinds, Ahead, At, SameCommand, Kind
<1>17. QED BY <1>2, <1>5, <1>9, <1>13, <1>15, <1>16, CarryOn

LEMMA RegisterWorkerInv == ASSUME CommandsInv, NEW t \in Tasks, RegisterWorker(t) PROVE CommandsInv'
<1>1. At(t, "register") /\ workers' = StartedWorker(task[t].ref)
  BY DEF RegisterWorker
<1>2. SameChannels
  BY DEF RegisterWorker, SameChannels, storeVars, history
<1>3. UNCHANGED <<activeRun, list, runs, faults, maker>>
  BY DEF RegisterWorker, storeVars, history
<1>4. OfWorkers' = OfWorkers
  BY <1>3 DEF OfWorkers
<1>5. t \in Pollers /\ t \notin Operators /\ task[t] # Idle
  BY <1>1, NotIdle, OnlyPolls DEF At, ThreadPlaces, ClosePlaces
<1>6. Kind(t) = "start worker"
  <2>1. "register" \in Places(Kind(t))
    BY <1>1, <1>5, PollPlaces DEF At
  <2>2. QED BY <2>1 DEF Places, ThreadPlaces, ClosePlaces
<1>7. PICK r \in 1 .. Len(runs) : r = task[t].ref
  <2>1. HasEntry(task[t])
    BY DEF CommandsInv, Hands
  <2>2. QED BY <1>1, <2>1 DEF HasEntry, RunPlaces, At
<1>8. PICK v : v = [run |-> r, ch |-> 0, label |-> 0, open |-> TRUE]
  OBVIOUS
<1>9. v \in WorkerState /\ v.run = r /\ v.ch = 0
  <2>1. Len(runs) \in Nat
    BY DEF CommandsInv, CommandTypes
  <2>2. r \in Nat
    BY <1>7, <2>1, Within
  <2>3. QED BY <1>8, <2>2 DEF WorkerState
<1>10. PICK n \in Nat : /\ n = Len(workers) /\ workers' \in Seq(WorkerState) /\ Len(workers') = n + 1
                        /\ workers'[n + 1] = v /\ \A w \in 1 .. n : workers'[w] = workers[w]
  <2>1. workers \in Seq(WorkerState) /\ workers' = Append(workers, v)
    BY <1>1, <1>7, <1>8 DEF CommandsInv, CommandTypes, StartedWorker
  <2>2. QED BY <1>9, <2>1, AppendProperties
<1>11. n + 1 \in 1 .. Len(workers') /\ n + 1 \in Nat /\ \A w \in 1 .. n + 1 : w = n + 1 \/ w \in 1 .. n
  BY <1>10
<1>12. RestTyped' /\ Grows
  <2>1. Len(runs) \in Nat
    BY DEF CommandsInv, CommandTypes
  <2>2. \A w \in 1 .. n + 1 :
          workers'[w].run \in 1 .. Len(runs) /\ (workers'[w].ch # 0 => workers'[w].ch \in OfWorkers)
    BY <1>7, <1>9, <1>10, <1>11, RestKept DEF RestTyped
  <2>3. RestTyped'
    BY <1>3, <1>4, <1>10, <2>2, RestKept DEF RestTyped
  <2>4. QED BY <1>3, <1>10, <2>1, <2>3 DEF Grows
<1>13. task \in [Tasks -> TaskState] /\ task[t] \in TaskState
  BY DEF CommandsInv, CommandTypes
<1>14. PICK x : x = [task[t] EXCEPT !.at = "create", !.ref = n + 1]
  OBVIOUS
<1>15. /\ x \in TaskState /\ x.at = "create" /\ x.ch = task[t].ch /\ x.todo = task[t].todo /\ x.ref = n + 1
       /\ SameCommand(task[t], x)
  BY <1>11, <1>13, <1>14 DEF TaskState, Spots, SameCommand
<1>16. task' = [task EXCEPT ![t] = x]
  BY <1>10, <1>13, <1>14 DEF RegisterWorker
<1>17. x # Idle /\ MayGo(t, x.at)
  <2>1. "create" \in Places("start worker") /\ Idle.at = "idle"
    BY DEF Places, Idle
  <2>2. QED BY <1>1, <1>5, <1>6, <1>15, <2>1 DEF MayGo, At
<1>18. HasChannel(x) /\ HasEntry(x)'
  <2>1. "create" \notin ChannelPlaces \cup RunPlaces \cup ClosePlaces
    BY DEF ChannelPlaces, RunPlaces, ClosePlaces, ThreadPlaces
  <2>2. HasChannel(x)
    BY <1>15, <2>1 DEF CommandsInv, Hands, HasChannel, SameCommand
  <2>3. HasEntry(x)'
    BY <1>11, <1>15, <2>1 DEF HasEntry
  <2>4. QED BY <2>2, <2>3
<1>19. CarriesOn(t, x)
  BY <1>1, <1>5, <1>6, <1>15, <1>17, <1>18, StageKept DEF CarriesOn, MovesOn, Rebinds, Ahead, At, SameCommand, Kind
<1>20. QED BY <1>2, <1>5, <1>12, <1>16, <1>18, <1>19, CarryOn
-----------------------------------------------------------------------------
(* Polls begin, pass from one channel's turn state to the next, and end.     *)

\* A poll that is at none of its places with a channel.
AtRest(x) ==
  /\ x \in TaskState /\ HasChannel(x) /\ HasEntry(x)
  /\ x.at \notin {"find", "ensure", "note", "bind", "unmap"}
  /\ x.kind = "pickup" => x.at # "create"

LEMMA PollTurnsOver ==
  ASSUME CommandsInv, NEW t \in Pollers, NEW x, AtRest(x), Polls(x)',
         \A u \in Pollers \ {t} : task[u] = Idle,
         polling' \in BOOLEAN, x # Idle => polling',
         task[t].at \notin {"ensure"},
         seen' \in 0 .. Len(commands),
         \A k \in Numbers : k > seen' => Unspent(k),
         task' = [task EXCEPT ![t] = x],
         UNCHANGED <<channel, discord, mapping, nextShort, list, activeRun, registryVars, faults, history>>
  PROVE  CommandsInv'
<1>0. UNCHANGED <<script, commands, runs, workers, maker, cut, left>>
  BY DEF channel, registryVars, history
<1>1. /\ task \in [Tasks -> TaskState] /\ task'[t] = x /\ \A u \in Tasks \ {t} : task'[u] = task[u]
      /\ t \in Tasks
  BY DEF CommandsInv, CommandTypes, Tasks
<1>2. CommandTypes'
  BY <1>0, <1>1 DEF CommandsInv, CommandTypes, AtRest
<1>3. /\ Made' = Made /\ OfWorkers' = OfWorkers /\ PickedUp' = PickedUp
      /\ \A k : MadeFor(k)' = MadeFor(k)
      /\ \A c : Mapped(c)' = Mapped(c)
  BY <1>0 DEF Made, OfWorkers, PickedUp, MadeFor, Mapped
<1>4. Stages'
  <2>1. \A y : Serves(y)' = Serves(y)
    BY DEF Serves
  <2>2. Polls(Idle)'
    BY DEF Polls
  <2>3. ASSUME NEW u \in Pollers PROVE Polls(task[u])'
    <3>1. CASE u = t
      BY <1>1, <3>1 DEF Polls
    <3>2. CASE u # t
      <4>1. task'[u] = Idle
        BY <1>1, <3>2 DEF Tasks
      <4>2. QED BY <4>1, <2>2 DEF Polls
    <3>3. QED BY <3>1, <3>2
  <2>4. \A u \in Operators : Serves(task'[u])
    BY <1>1, CommandsAssumption DEF CommandsInv, Stages, Tasks, CommandsAssumption
  <2>5. SolePoll'
    BY <1>1 DEF SolePoll, Tasks
  <2>6. QED BY <2>1, <2>3, <2>4, <2>5 DEF Stages
<1>5. Hands'
  <2>1. \A y : HasChannel(y)' = HasChannel(y) /\ HasEntry(y)' = HasEntry(y)
    BY <1>0, <1>3 DEF HasChannel, HasEntry
  <2>2. \A u \in Tasks : HasChannel(task'[u]) /\ HasEntry(task'[u])
    BY <1>1 DEF CommandsInv, Hands, AtRest
  <2>3. QED BY <1>0, <1>3, <2>1, <2>2 DEF CommandsInv, Hands
<1>6. Known'
  <2>1. \A u \in Tasks : At(u, "ensure") => task'[u] = task[u]
    BY <1>1 DEF At
  <2>2. \A u \in Tasks : At(u, "unmap")' => task'[u] = task[u]
    BY <1>1 DEF At, AtRest
  <2>3. QED BY <1>0, <1>3, <2>1, <2>2 DEF CommandsInv, Known, At, Ch
<1>7. Counted'
  <2>1. \A k \in Numbers : Unspent(k)' => Unspent(k)
    BY DEF Unspent
  <2>2. QED BY <1>0, <1>3, <2>1 DEF CommandsInv, Counted
<1>8. Picking'
  <2>1. \A y : Picks(y)' = Picks(y) /\ Rebinds(y)' = Rebinds(y)
    BY <1>0, <1>3 DEF Picks, Rebinds, Exact
  <2>2. (x.kind = "pickup" => Picks(x)) /\ Rebinds(x)
    BY DEF AtRest, Picks, Rebinds
  <2>3. \A u \in Pollers : (Kind(u)' = "pickup" => Picks(task'[u])) /\ Rebinds(task'[u])
    BY <1>1, <2>2 DEF CommandsInv, Picking, Tasks, Kind
  <2>4. QED BY <1>0, <1>3, <2>1, <2>3 DEF CommandsInv, Picking, Exact
<1>9. QED BY <1>2, <1>4, <1>5, <1>6, <1>7, <1>8 DEF CommandsInv

LEMMA IdleAtRest == AtRest(Idle) /\ Polls(Idle)'
<1>1. PICK x : x = Idle
  OBVIOUS
<1>2. x.at = "idle" /\ x.kind = "none" /\ x.ch = 0 /\ x.todo = {}
  BY <1>1 DEF Idle
<1>3. HasChannel(x) /\ HasEntry(x)
  BY <1>2 DEF HasChannel, HasEntry, ChannelPlaces, ThreadPlaces, ClosePlaces, MakerKinds, WorkerKinds, RunPlaces
<1>4. Polls(Idle)'
  BY DEF Polls
<1>5. QED BY <1>1, <1>2, <1>3, <1>4, IdleTyped DEF AtRest

\* A poll looks at the turn states of mapped channels, or of those that were.
LEMMA TurnsAtRest ==
  ASSUME CommandsInv, NEW cs \in SUBSET Made, NEW x, x = [Idle EXCEPT !.at = "turns", !.todo = cs]
  PROVE  AtRest(x) /\ Polls(x)' /\ x # Idle
<1>1. /\ x.at = "turns" /\ x.kind = "none" /\ x.ch = 0 /\ x.todo = cs /\ x.cmd = 0 /\ Idle.at = "idle"
  BY DEF Idle
<1>2. x \in TaskState
  BY IdleTyped DEF TaskState, Spots, Made
<1>3. HasChannel(x) /\ HasEntry(x)
  BY <1>1 DEF HasChannel, HasEntry, ChannelPlaces, ThreadPlaces, ClosePlaces, MakerKinds, WorkerKinds, RunPlaces
<1>4. Polls(x)'
  BY <1>1 DEF Polls
<1>5. QED BY <1>1, <1>2, <1>3, <1>4 DEF AtRest

LEMMA TurnKind ==
  ASSUME CommandsInv, NEW t \in Tasks, task[t].at \in {"turns", "told"}
  PROVE  /\ t \in Pollers /\ task[t] # Idle /\ polling = TRUE
         /\ task[t].kind = "none" /\ task[t].cmd = 0 /\ task[t].ch = 0
         /\ \A u \in Pollers \ {t} : task[u] = Idle
<1>1. t \in Pollers /\ task[t] # Idle
  BY NotIdle, OnlyPolls DEF ThreadPlaces, ClosePlaces
<1>2. polling = TRUE /\ \A u \in Pollers \ {t} : task[u] = Idle
  BY <1>1 DEF CommandsInv, Stages, SolePoll, CommandTypes
<1>3. "turns" \notin Places(Kind(t)) /\ "told" \notin Places(Kind(t))
  BY DEF Places, ThreadPlaces, ClosePlaces
<1>4. Polls(task[t])
  BY <1>1 DEF CommandsInv, Stages
<1>5. task[t].kind = "none" /\ task[t].cmd = 0 /\ task[t].ch = 0
  BY <1>1, <1>3, <1>4 DEF Polls, Kind
<1>6. QED BY <1>1, <1>2, <1>5

LEMMA SeenTyped ==
  ASSUME CommandsInv, CommandsAssumption
  PROVE  /\ Len(commands) \in Nat /\ seen \in Nat /\ seen \in 0 .. Len(commands) /\ commands \in Seq(CommandState)
         /\ \A k \in Numbers : k \in Nat /\ k > 0
<1>1. Len(commands) \in Nat /\ seen \in 0 .. Len(commands) /\ commands \in Seq(CommandState)
  BY DEF CommandsInv, CommandTypes
<1>2. seen \in Nat
  BY <1>1
<1>3. \A k \in Numbers : k \in Nat /\ k > 0
  <2>1. Numbers \subseteq Nat \ {0}
    BY Commandless
  <2>2. QED BY <2>1
<1>4. QED BY <1>1, <1>2, <1>3

\* A poll that leaves the cursor where it is makes nothing.
LEMMA NothingSpent ==
  ASSUME CommandsInv, NEW t \in Pollers, task[t].cmd = 0 \/ task[t] = Idle, \A u \in Pollers \ {t} : task[u] = Idle
  PROVE  \A k \in Numbers : k > seen => Unspent(k)
<1>1. \A k \in Numbers : k # 0
  BY SeenTyped, CommandsAssumption
<1>2. QED BY <1>1 DEF Unspent

LEMMA ObservedInv ==
  ASSUME CommandsInv, NEW t \in Tasks, task[t].at \in {"turns", "told"}, Observed(t),
         UNCHANGED <<channel, discord, storeVars, registryVars, faults, history>>
  PROVE  CommandsInv'
<1>1. PICK rest \in SUBSET Made : rest = task[t].todo \ {FirstOf(task[t].todo)}
  BY DEF CommandsInv, Hands, HasChannel
<1>2. /\ polling' = (rest # {})
      /\ task' = [task EXCEPT ![t] = IF rest = {} THEN Idle ELSE [@ EXCEPT !.at = "turns", !.todo = rest]]
  BY <1>1 DEF Observed
<1>3. task \in [Tasks -> TaskState] /\ task[t] \in TaskState /\ Made \subseteq Channels
  BY DEF CommandsInv, CommandTypes, Made
<1>4. seen' \in 0 .. Len(commands) /\ seen' = seen
  BY SeenTyped, CommandsAssumption DEF storeVars
<1>5. \A k \in Numbers : k > seen' => Unspent(k)
  BY <1>4, TurnKind, NothingSpent
<1>6. UNCHANGED <<channel, discord, mapping, nextShort, list, activeRun, registryVars, faults, history>>
  BY DEF storeVars
<1>7. CASE rest = {}
  <2>1. task' = [task EXCEPT ![t] = Idle] /\ polling' \in BOOLEAN
    BY <1>2, <1>7
  <2>2. QED BY <1>4, <1>5, <1>6, <2>1, TurnKind, IdleAtRest, PollTurnsOver
<1>8. CASE rest # {}
  <2>1. PICK x : x = [task[t] EXCEPT !.at = "turns", !.todo = rest]
    OBVIOUS
  <2>2. task' = [task EXCEPT ![t] = x] /\ polling' = TRUE
    BY <1>2, <1>3, <1>8, <2>1
  <2>3. x \in TaskState /\ x.at = "turns" /\ x.kind = "none" /\ x.cmd = 0 /\ x.ch = 0 /\ x.todo = rest
    BY <1>3, <2>1, TurnKind DEF TaskState, Spots
  <2>4. HasChannel(x) /\ HasEntry(x)
    BY <2>3 DEF HasChannel, HasEntry, ChannelPlaces, ThreadPlaces, ClosePlaces, MakerKinds, WorkerKinds, RunPlaces
  <2>5. AtRest(x) /\ Polls(x)'
    BY <2>3, <2>4 DEF AtRest, Polls
  <2>6. QED BY <1>4, <1>5, <1>6, <2>2, <2>5, TurnKind, PollTurnsOver
<1>9. QED BY <1>7, <1>8

LEMMA RecordTurnInv == ASSUME CommandsInv, NEW t \in Tasks, RecordTurn(t) PROVE CommandsInv'
<1>1. At(t, "turns") /\ UNCHANGED <<channel, discord, storeVars, registryVars, faults, history>>
  BY DEF RecordTurn
<1>2. CASE Observed(t)
  BY <1>1, <1>2, ObservedInv DEF At
<1>3. CASE GoTo(t, "told") /\ UNCHANGED polling
  <2>1. task \in [Tasks -> TaskState] /\ task[t] \in TaskState
    BY DEF CommandsInv, CommandTypes
  <2>2. PICK x : x = [task[t] EXCEPT !.at = "told"]
    OBVIOUS
  <2>3. task' = [task EXCEPT ![t] = x]
    BY <1>3, <2>1, <2>2 DEF GoTo
  <2>4. x \in TaskState /\ x.at = "told" /\ x.kind = "none" /\ x.cmd = 0 /\ x.ch = 0 /\ x.todo = task[t].todo
    BY <1>1, <2>1, <2>2, TurnKind DEF TaskState, Spots, At
  <2>5. x.todo \subseteq Made
    BY <2>4 DEF CommandsInv, Hands, HasChannel
  <2>6. HasChannel(x) /\ HasEntry(x)
    BY <2>4, <2>5 DEF HasChannel, HasEntry, ChannelPlaces, ThreadPlaces, ClosePlaces, MakerKinds, WorkerKinds, RunPlaces
  <2>7. AtRest(x) /\ Polls(x)'
    BY <2>4, <2>6 DEF AtRest, Polls
  <2>8. seen' \in 0 .. Len(commands) /\ seen' = seen /\ polling' = TRUE
    BY <1>1, <1>3, TurnKind, SeenTyped, CommandsAssumption DEF storeVars, At
  <2>9. \A k \in Numbers : k > seen' => Unspent(k)
    BY <1>1, <2>8, TurnKind, NothingSpent DEF At
  <2>10. UNCHANGED <<channel, discord, mapping, nextShort, list, activeRun, registryVars, faults, history>>
    BY <1>1 DEF storeVars
  <2>11. QED BY <1>1, <2>3, <2>7, <2>8, <2>9, <2>10, TurnKind, PollTurnsOver DEF At
<1>4. QED BY <1>2, <1>3 DEF RecordTurn

LEMMA MarkTurnInv == ASSUME CommandsInv, NEW t \in Tasks, MarkTurn(t) PROVE CommandsInv'
BY ObservedInv DEF MarkTurn, At
LEMMA ObservesInv ==
  ASSUME CommandsInv, NEW t \in Pollers, Observes(t), task[t].at # "ensure",
         \A u \in Pollers \ {t} : task[u] = Idle, seen' \in 0 .. Len(commands), \A k \in Numbers : k > seen' => Unspent(k),
         UNCHANGED <<channel, discord, mapping, nextShort, list, activeRun, registryVars, faults, history>>
  PROVE  CommandsInv'
<1>1. PICK cs \in SUBSET Made : cs = Labelled
  BY DEF Labelled, CommandsInv, Hands
<1>2. PICK x : x = [Idle EXCEPT !.at = "turns", !.todo = cs]
  OBVIOUS
<1>3. task' = [task EXCEPT ![t] = x] /\ polling' = TRUE
  BY <1>1, <1>2 DEF Observes
<1>4. AtRest(x) /\ Polls(x)'
  BY <1>2, TurnsAtRest
<1>5. QED BY <1>3, <1>4, PollTurnsOver

LEMMA MarkSeenInv == ASSUME CommandsInv, NEW t \in Tasks, MarkSeen(t) PROVE CommandsInv'
<1>1. At(t, "mark") /\ seen' = task[t].cmd
  BY DEF MarkSeen
<1>2. t \in Pollers /\ task[t] # Idle
  BY <1>1, NotIdle, OnlyPolls DEF At, ThreadPlaces, ClosePlaces
<1>3. task[t].cmd = seen + 1 /\ task[t].cmd \in 1 .. Len(commands)
  BY <1>1, <1>2, PollPlaces DEF At
<1>4. \A u \in Pollers \ {t} : task[u] = Idle
  BY <1>2 DEF CommandsInv, Stages, SolePoll
<1>5. seen' = seen + 1 /\ seen' \in 0 .. Len(commands) /\ seen \in Nat
  <2>1. Len(commands) \in Nat /\ seen \in Nat
    BY SeenTyped, CommandsAssumption
  <2>2. QED BY <1>1, <1>3, <2>1, Within
<1>6. \A k \in Numbers : k > seen' => Unspent(k)
  <2>1. ASSUME NEW k \in Numbers, k > seen' PROVE k > seen /\ k # task[t].cmd
    <3>1. k \in Nat
      BY SeenTyped, CommandsAssumption
    <3>2. QED BY <1>3, <1>5, <2>1, <3>1
  <2>2. QED BY <1>4, <2>1 DEF Unspent
<1>7. UNCHANGED <<channel, discord, mapping, nextShort, list, activeRun, registryVars, faults, history>>
  BY DEF MarkSeen
<1>8. CASE Observes(t)
  BY <1>1, <1>2, <1>4, <1>5, <1>6, <1>7, <1>8, ObservesInv DEF At
<1>9. CASE polling' = FALSE /\ task' = [task EXCEPT ![t] = Idle]
  BY <1>1, <1>2, <1>4, <1>5, <1>6, <1>7, <1>9, IdleAtRest, PollTurnsOver DEF At
<1>10. QED BY <1>8, <1>9 DEF MarkSeen

\* When no poll runs, nobody polls.
LEMMA NoPoll ==
  ASSUME CommandsInv, NEW t \in Pollers, MayPoll
  PROVE  /\ task[t] = Idle /\ Idle.at = "idle"
         /\ \A u \in Pollers : task[u] = Idle
         /\ \A k \in Numbers : k > seen => Unspent(k)
<1>1. \A u \in Pollers : task[u] = Idle
  BY DEF MayPoll, CommandsInv, Stages, SolePoll
<1>2. QED BY <1>1, NothingSpent DEF Idle

LEMMA PollTurnsInv == ASSUME CommandsInv, NEW t \in Pollers, PollTurns(t) PROVE CommandsInv'
<1>1. /\ At(t, "idle") /\ MayPoll /\ Observes(t)
      /\ UNCHANGED <<channel, discord, mapping, nextShort, list, activeRun, registryVars, faults, history>> /\ seen' = seen
  BY DEF PollTurns, storeVars
<1>2. seen' \in 0 .. Len(commands) /\ task[t].at # "ensure"
  BY <1>1, SeenTyped, CommandsAssumption DEF At
<1>3. QED BY <1>1, <1>2, NoPoll, ObservesInv

LEMMA FirstPlace ==
  ASSUME NEW kind
  PROVE  /\ First(kind) \in Places(kind) \cup {"say"}
         /\ First(kind) \in Spots
         /\ First(kind) \notin {"idle", "ensure", "find", "note", "bind", "unmap"} \cup ChannelPlaces \cup RunPlaces \cup ClosePlaces
         /\ First(kind) = "create" => kind = "new"
         /\ First(kind) \in WorkerPlaces => First(kind) = "create"
<1>1. First(kind) \in Places(kind) \cup {"say"}
  <2>1. kind \in {"pickup", "refresh"} => First(kind) = "resolve" /\ "resolve" \in Places(kind)
    BY DEF First, Places, OnActiveRun
  <2>2. kind \in OnActiveRun => First(kind) = "active" /\ "active" \in Places(kind)
    BY DEF First, Places, OnActiveRun
  <2>3. /\ kind = "list" => First(kind) = "threads" /\ "threads" \in Places(kind)
        /\ kind = "new" => First(kind) = "create" /\ "create" \in Places(kind)
        /\ kind = "start run" => First(kind) = "create run" /\ "create run" \in Places(kind)
    BY DEF First, Places, OnActiveRun
  <2>4. /\ kind = "switch run" => First(kind) = "board" /\ "board" \in Places(kind)
        /\ kind = "clear run" => First(kind) = "clear" /\ "clear" \in Places(kind)
    BY DEF First, Places, OnActiveRun
  <2>5. kind \notin {"list", "new", "pickup", "refresh", "start run", "switch run", "clear run"} \cup OnActiveRun => First(kind) = "say"
    BY DEF First
  <2>6. QED BY <2>1, <2>2, <2>3, <2>4, <2>5
<1>2. First(kind) \in {"threads", "create", "resolve", "create run", "board", "clear", "active", "say"}
  BY DEF First
<1>3. First(kind) = "create" => kind = "new"
  BY DEF First
<1>4. QED BY <1>1, <1>2, <1>3 DEF Spots, ChannelPlaces, RunPlaces, ClosePlaces, WorkerPlaces, ThreadPlaces

LEMMA PollInv == ASSUME CommandsInv, NEW t \in Pollers, Poll(t) PROVE CommandsInv'
<1>1. At(t, "idle") /\ MayPoll /\ seen < Len(commands) /\ polling' = TRUE
  BY DEF Poll
<1>2. PICK k \in 1 .. Len(commands) : k = seen + 1 /\ k \in Nat
  BY <1>1, SeenTyped, CommandsAssumption
<1>3. PICK command \in CommandState : command = commands[k]
  BY SeenTyped, CommandsAssumption
<1>4. PICK p \in Spots : p = First(command.kind)
  BY FirstPlace
<1>5. PICK x : x = [Idle EXCEPT !.at = p, !.kind = command.kind, !.by = command.by, !.key = command.key, !.cmd = k]
  OBVIOUS
<1>6. task' = [task EXCEPT ![t] = x]
  BY <1>2, <1>3, <1>4, <1>5 DEF Poll
<1>7. /\ x \in TaskState /\ x.at = p /\ x.kind = command.kind /\ x.by = command.by /\ x.key = command.key
      /\ x.cmd = k /\ x.ch = 0 /\ x.todo = {}
  <2>1. command.kind \in Kinds /\ command.by \in {"title", "number", "none"} /\ command.key \in Nat
    BY DEF CommandState, Kinds
  <2>2. Idle \in TaskState /\ Idle.ch = 0 /\ Idle.todo = {}
    BY IdleTyped DEF Idle
  <2>3. QED BY <1>2, <1>5, <2>1, <2>2 DEF TaskState
<1>8. HasChannel(x)
  BY <1>4, <1>7, FirstPlace DEF HasChannel
<1>9. HasEntry(x)
  <2>1. p \notin RunPlaces \cup ClosePlaces /\ (p \in WorkerPlaces => command.kind = "new")
    BY <1>4, FirstPlace
  <2>2. QED BY <1>7, <2>1 DEF HasEntry
<1>10. Polls(x)'
  <2>1. UNCHANGED <<commands, seen>>
    BY DEF Poll, channel, storeVars
  <2>2. k <= Len(commands)
    BY <1>2, SeenTyped, CommandsAssumption
  <2>3. QED BY <1>2, <1>3, <1>4, <1>7, <2>1, <2>2, FirstPlace DEF Polls
<1>11. UNCHANGED <<channel, discord, mapping, nextShort, list, activeRun, registryVars, faults, history>> /\ seen' = seen
  BY DEF Poll, storeVars
<1>12. seen' \in 0 .. Len(commands) /\ task[t].at # "ensure"
  BY <1>1, <1>11, SeenTyped, CommandsAssumption DEF At
<1>13. AtRest(x)
  BY <1>4, <1>7, <1>8, <1>9, FirstPlace DEF AtRest
<1>14. QED BY <1>1, <1>6, <1>10, <1>11, <1>12, <1>13, NoPoll, PollTurnsOver

LEMMA WriteInv == ASSUME CommandsInv, Write PROVE CommandsInv'
<1>1. /\ Len(commands) < Len(script.people)
      /\ commands' = Append(commands, script.people[Len(commands) + 1])
      /\ UNCHANGED <<script, polling, task, discord, storeVars, registryVars, faults, history>>
  BY DEF Write
<1>2. UNCHANGED <<script, polling, task, discord, seen, mapping, nextShort, list, activeRun, runs, workers, faults, maker, cut, left>>
  BY <1>1 DEF storeVars, registryVars, history
<1>3. PICK R : R = [kind : STRING, by : {"title", "number", "none"}, key : Nat, refused : SUBSET STRING]
  OBVIOUS
<1>4. script.people \in Seq(R) /\ script \in Scripts
  BY <1>3, CommandsAssumption DEF CommandsAssumption, CommandsInv, CommandTypes
<1>5. PICK n \in Nat : n = Len(commands) /\ n + 1 \in DOMAIN script.people /\ n + 1 <= Len(script.people)
  BY <1>1, <1>4, SeenTyped, CommandsAssumption
<1>6. PICK e : e = script.people[n + 1]
  OBVIOUS
<1>7. e \in CommandState
  <2>1. e \in R
    BY <1>4, <1>5, <1>6
  <2>2. e.kind \in Written
    BY <1>4, <1>5, <1>6 DEF Written
  <2>3. QED BY <1>3, <2>1, <2>2 DEF CommandState
<1>8. /\ commands' \in Seq(CommandState) /\ Len(commands') = n + 1 /\ commands'[n + 1] = e
      /\ \A k \in 1 .. n : commands'[k] = commands[k]
  <2>1. commands' = Append(commands, e) /\ commands \in Seq(CommandState)
    BY <1>1, <1>5, <1>6, SeenTyped, CommandsAssumption
  <2>2. QED BY <1>5, <1>7, <2>1, AppendProperties
<1>9. \A k : k \in 1 .. n + 1 <=> k \in 1 .. n \/ k = n + 1
  BY <1>5
<1>10. CommandTypes'
  <2>1. seen \in 0 .. n + 1
    BY <1>5, SeenTyped, CommandsAssumption
  <2>2. \A k \in 1 .. Len(commands') : commands'[k] = script'.people[k]
    BY <1>2, <1>5, <1>6, <1>8, <1>9 DEF CommandsInv, CommandTypes
  <2>3. QED BY <1>2, <1>5, <1>8, <2>1, <2>2 DEF CommandsInv, CommandTypes
<1>11. /\ Made' = Made /\ OfWorkers' = OfWorkers /\ PickedUp' = PickedUp
       /\ \A k : MadeFor(k)' = MadeFor(k)
       /\ \A c : Mapped(c)' = Mapped(c)
  BY <1>2 DEF Made, OfWorkers, PickedUp, MadeFor, Mapped
<1>12. ASSUME NEW x \in TaskState, Polls(x) PROVE Polls(x)'
  <2>1. CASE x = Idle \/ (x.at \in {"turns", "told"} /\ x.kind = "none" /\ x.cmd = 0 /\ x.ch = 0)
    BY <2>1 DEF Polls
  <2>2. CASE x.cmd = seen + 1 /\ x.cmd <= Len(commands)
              /\ x.kind = commands[x.cmd].kind /\ x.by = commands[x.cmd].by /\ x.key = commands[x.cmd].key
              /\ x.at \in Places(x.kind) \cup {"say", "report", "mark"}
    <3>1. x.cmd \in 1 .. n /\ x.cmd <= n + 1
      BY <1>5, <2>2, SeenTyped, CommandsAssumption
    <3>2. QED BY <1>2, <1>8, <2>2, <3>1 DEF Polls
  <2>3. QED BY <1>12, <2>1, <2>2 DEF Polls
<1>13. Stages'
  <2>1. \A t \in Pollers : Polls(task[t])'
    <3>1. SUFFICES ASSUME NEW t \in Pollers PROVE Polls(task[t])'
      OBVIOUS
    <3>2. PICK x \in TaskState : x = task[t] /\ Polls(x)
      BY DEF CommandsInv, CommandTypes, Stages, Tasks
    <3>3. Polls(x)' /\ task'[t] = x
      BY <1>2, <1>12, <3>2
    <3>4. QED BY <3>3 DEF Polls
  <2>2. \A t \in Operators : Serves(task[t])'
    BY <1>2 DEF CommandsInv, Stages, Serves
  <2>3. SolePoll'
    BY <1>2 DEF CommandsInv, Stages, SolePoll
  <2>4. QED BY <2>1, <2>2, <2>3 DEF Stages
<1>14. Hands'
  <2>1. \A y : HasChannel(y)' = HasChannel(y) /\ HasEntry(y)' = HasEntry(y)
    BY <1>2, <1>11 DEF HasChannel, HasEntry
  <2>2. QED BY <1>2, <1>11, <2>1 DEF CommandsInv, Hands
<1>15. Known'
  BY <1>2, <1>11 DEF CommandsInv, Known, At, Ch
<1>16. Counted'
  <2>1. \A k : Unspent(k)' = Unspent(k)
    BY <1>2 DEF Unspent
  <2>2. QED BY <1>2, <1>11, <2>1 DEF CommandsInv, Counted
<1>17. Picking'
  <2>1. \A k \in 1 .. Len(commands) : Exact(k)' = Exact(k) /\ k \in 1 .. Len(commands')
    BY <1>5, <1>8, <1>9 DEF Exact
  <2>2. \A y : Rebinds(y)' = Rebinds(y)
    BY <1>2, <1>11 DEF Rebinds
  <2>3. \A y : y.cmd \in 1 .. Len(commands) => Picks(y)' = Picks(y)
    BY <1>2, <1>11, <2>1 DEF Picks
  <2>4. \A t \in Pollers : Kind(t) = "pickup" => task[t].cmd \in 1 .. Len(commands)
    <3>1. SUFFICES ASSUME NEW t \in Pollers, Kind(t) = "pickup" PROVE task[t].cmd \in 1 .. Len(commands)
      OBVIOUS
    <3>2. task[t] # Idle /\ t \in Tasks
      BY <3>1 DEF Kind, Idle, Tasks
    <3>3. task[t].at \notin {"turns", "told"}
      BY <3>1, <3>2, TurnKind DEF Kind
    <3>4. QED BY <3>2, <3>3, PollPlaces
  <2>5. \A t \in Pollers : (Kind(t) = "pickup" => Picks(task[t])') /\ Rebinds(task[t])'
    BY <1>2, <2>2, <2>3, <2>4 DEF CommandsInv, Picking
  <2>6. QED BY <1>2, <1>11, <2>1, <2>5 DEF CommandsInv, Picking, Kind
<1>18. QED BY <1>10, <1>13, <1>14, <1>15, <1>16, <1>17 DEF CommandsInv
-----------------------------------------------------------------------------
(* Steps that change the mapping of a channel that nobody picked up.          *)

\* Where a task goes when its place says no more about what it has in hand.
LEMMA GoesTo ==
  ASSUME CommandsInv, NEW t \in Tasks, task[t] # Idle,
         NEW p \in Spots \ {"idle"}, GoTo(t, p), MayGo(t, p),
         p \notin Ahead \cup RunPlaces \cup ClosePlaces,
         p \in ChannelPlaces => task[t].at \in ChannelPlaces,
         p \in WorkerPlaces => task[t].at \in WorkerPlaces
  PROVE  \E x \in TaskState :
           MovesOn(t, x) /\ HasEntry(x) /\ x.at = p /\ x.ch = Ch(t) /\ x.label = task[t].label
           /\ task' = [task EXCEPT ![t] = x]
<1>1. PICK x \in TaskState :
           /\ task' = [task EXCEPT ![t] = x] /\ x # Idle /\ SameCommand(task[t], x)
           /\ x.at = p /\ x.ch = task[t].ch /\ x.label = task[t].label /\ x.ref = task[t].ref
           /\ x.todo = task[t].todo /\ x.sent = task[t].sent
  BY Go DEF CommandsInv
<1>2. HasChannel(task[t]) /\ HasEntry(task[t])
  BY DEF CommandsInv, Hands
<1>3. HasChannel(x)
  BY <1>1, <1>2 DEF HasChannel, SameCommand
<1>4. HasEntry(x)
  BY <1>1, <1>2 DEF HasEntry, SameCommand
<1>5. (t \in Pollers => Polls(x)) /\ (t \in Operators => Serves(x))
  BY <1>1, StageKept
<1>6. QED BY <1>1, <1>3, <1>4, <1>5 DEF MovesOn, Ch

\* The channel c gets the mapping m.
Maps(c, m) ==
  /\ m \in MappingState /\ m.short > 0 /\ m.short < nextShort'
  /\ mapping' = [mapping EXCEPT ![c] = m]
  /\ nextShort' \in Nat \ {0} /\ nextShort <= nextShort'
  /\ UNCHANGED <<seen, list, activeRun>>

LEMMA MappingsAfter ==
  ASSUME CommandsInv, NEW c \in Channels, c \in Made, NEW m, Maps(c, m), UNCHANGED maker
  PROVE  /\ mapping' \in [Channels -> MappingState] /\ mapping'[c] = m
         /\ \A d \in Channels \ {c} : mapping'[d] = mapping[d]
         /\ \A d : d # c => Mapped(d)' = Mapped(d)
         /\ Mapped(c)'
         /\ \A d \in Channels : (Mapped(d)' => d \in Made /\ mapping'[d].short > 0) /\ mapping'[d].short < nextShort'
<1>1. /\ mapping \in [Channels -> MappingState] /\ nextShort \in Nat
      /\ \A d \in Channels : mapping[d].short \in Nat
  BY DEF CommandsInv, CommandTypes, MappingState
<1>2. /\ mapping' \in [Channels -> MappingState] /\ mapping'[c] = m
      /\ \A d \in Channels \ {c} : mapping'[d] = mapping[d]
  BY <1>1 DEF Maps
<1>3. \A d : d # c => Mapped(d)' = Mapped(d)
  <2>1. \A d : d # c => mapping'[d] = mapping[d]
    BY <1>1 DEF Maps
  <2>2. QED BY <2>1 DEF Mapped
<1>4. Mapped(c)'
  <2>1. m # Unmapped /\ c # 0
    BY CommandsAssumption DEF Maps, Unmapped, CommandsAssumption
  <2>2. QED BY <1>2, <2>1 DEF Mapped
<1>5. ASSUME NEW d \in Channels PROVE (Mapped(d)' => d \in Made /\ mapping'[d].short > 0) /\ mapping'[d].short < nextShort'
  <2>1. CASE d = c
    BY <1>2, <2>1 DEF Maps
  <2>2. CASE d # c
    <3>1. (Mapped(d) => d \in Made /\ mapping[d].short > 0) /\ mapping[d].short < nextShort
      BY DEF CommandsInv, Hands
    <3>2. mapping[d].short < nextShort'
      BY <1>1, <3>1 DEF Maps
    <3>3. QED BY <1>2, <1>3, <2>2, <3>1, <3>2
  <2>3. QED BY <2>1, <2>2
<1>6. QED BY <1>2, <1>3, <1>4, <1>5

\* No other channel is forgotten, and no pickup is concerned.
LEMMA MapsOther ==
  ASSUME CommandsInv, NEW t \in Tasks, task[t] # Idle, NEW c \in Channels, c = Ch(t), c \in Made \ PickedUp,
         NEW x \in TaskState, MovesOn(t, x), HasEntry(x), x.at # "unmap", x.ch = c, task' = [task EXCEPT ![t] = x],
         NEW m, Maps(c, m),
         UNCHANGED <<channel, polling, discord, registryVars, faults, history>>
  PROVE  CommandsInv'
<1>0. UNCHANGED <<script, commands, runs, workers, maker, cut, left, seen, list, activeRun>>
  BY DEF channel, registryVars, history, Maps
<1>1. /\ mapping' \in [Channels -> MappingState] /\ mapping'[c] = m
      /\ \A d \in Channels \ {c} : mapping'[d] = mapping[d]
      /\ \A d : d # c => Mapped(d)' = Mapped(d)
      /\ Mapped(c)'
      /\ \A d \in Channels : (Mapped(d)' => d \in Made /\ mapping'[d].short > 0) /\ mapping'[d].short < nextShort'
  BY <1>0, MappingsAfter
<1>2. /\ CommandTypes' /\ Stages' /\ Hands' /\ Counted'
      /\ Made' = Made /\ PickedUp' = PickedUp
      /\ task \in [Tasks -> TaskState] /\ task'[t] = x /\ \A u \in Tasks \ {t} : task'[u] = task[u]
  <2>1. RestTyped' /\ Grows
    <3>1. Len(runs) \in Nat /\ Len(workers) \in Nat
      BY DEF CommandsInv, CommandTypes
    <3>2. OfWorkers' = OfWorkers
      BY <1>0 DEF OfWorkers
    <3>3. QED BY <1>0, <3>1, <3>2, RestKept DEF RestTyped, Grows
  <2>2. HasEntry(x)'
    BY <1>0 DEF HasEntry
  <2>3. discord' \subseteq Channels /\ left' \subseteq Channels
    BY <1>0 DEF CommandsInv, CommandTypes
  <2>4. QED BY <1>0, <1>1, <2>1, <2>2, <2>3, Advance DEF Maps
<1>3. Known'
  <2>1. \A u \in Tasks : At(u, "ensure") /\ Ch(u) # c => task'[u] = task[u]
    BY <1>2 DEF At
  <2>2. \A u \in Tasks : At(u, "unmap")' => task'[u] = task[u]
    BY <1>2 DEF At
  <2>3. QED BY <1>0, <1>1, <1>2, <2>1, <2>2 DEF CommandsInv, Known, At, Ch
<1>4. Picking'
  <2>1. \A d \in PickedUp : mapping'[d] = mapping[d] /\ Mapped(d)' = Mapped(d)
    BY <1>1 DEF PickedUp
  <2>2. \A y : Picks(y)' = Picks(y) /\ Rebinds(y)' = Rebinds(y)
    BY <1>0, <1>2, <2>1 DEF Picks, Rebinds, Exact
  <2>3. x.kind # "pickup"
    <3>1. HasChannel(x) /\ c # 0
      BY CommandsAssumption DEF MovesOn, CommandsAssumption
    <3>2. QED BY <3>1 DEF HasChannel, PickedUp, MakerKinds
  <2>4. Rebinds(x)
    BY DEF Rebinds
  <2>5. \A u \in Pollers : (Kind(u)' = "pickup" => Picks(task'[u])) /\ Rebinds(task'[u])
    BY <1>2, <2>3, <2>4 DEF CommandsInv, Picking, Tasks, Kind
  <2>6. QED BY <1>0, <1>2, <2>1, <2>2, <2>5 DEF CommandsInv, Picking, Exact
<1>5. QED BY <1>2, <1>3, <1>4 DEF CommandsInv

LEMMA Ensured ==
  ASSUME CommandsInv, NEW c \in Channels, c \in Made, NEW l \in {0} \cup Titles, EnsureChannel(c, l)
  PROVE  \E m : Maps(c, m) /\ (l # 0 => m.label = l) /\ (~Mapped(c) => m.short = nextShort)
<1>1. mapping \in [Channels -> MappingState] /\ nextShort \in Nat \ {0} /\ nextShort + 1 \in Nat \ {0}
  BY DEF CommandsInv, CommandTypes
<1>2. PICK m : m = [short |-> IF Mapped(c) THEN mapping[c].short ELSE nextShort,
                    label |-> IF l # 0 THEN l ELSE mapping[c].label]
  OBVIOUS
<1>3. mapping' = [mapping EXCEPT ![c] = m] /\ UNCHANGED <<seen, list, activeRun>>
  BY <1>1, <1>2 DEF EnsureChannel
<1>4. mapping[c].short \in Nat /\ mapping[c].label \in {0} \cup Titles /\ mapping[c].short < nextShort
      /\ (Mapped(c) => mapping[c].short > 0)
  BY <1>1 DEF MappingState, CommandsInv, Hands
<1>5. m \in MappingState /\ (l # 0 => m.label = l)
  BY <1>1, <1>2, <1>4 DEF MappingState
<1>6. m.short > 0 /\ m.short < nextShort' /\ nextShort' \in Nat \ {0} /\ nextShort <= nextShort' /\ (~Mapped(c) => m.short = nextShort)
  BY <1>1, <1>2, <1>4 DEF EnsureChannel
<1>7. QED BY <1>3, <1>5, <1>6 DEF Maps

LEMMA Bound ==
  ASSUME CommandsInv, NEW c \in Channels, NEW l \in {0} \cup Titles, BindChannel(c, l)
  PROVE  \E m : Maps(c, m) /\ m.label = l
<1>1. mapping \in [Channels -> MappingState] /\ nextShort \in Nat \ {0} /\ Mapped(c)
  BY DEF CommandsInv, CommandTypes, BindChannel
<1>2. PICK m : m = [mapping[c] EXCEPT !.label = l]
  OBVIOUS
<1>3. mapping' = [mapping EXCEPT ![c] = m] /\ UNCHANGED <<seen, list, activeRun, nextShort>>
  BY <1>1, <1>2 DEF BindChannel
<1>4. mapping[c] \in MappingState /\ mapping[c].short < nextShort /\ mapping[c].short > 0
  BY <1>1 DEF CommandsInv, Hands
<1>5. m \in MappingState /\ m.label = l /\ m.short = mapping[c].short
  BY <1>2, <1>4 DEF MappingState
<1>6. nextShort' = nextShort /\ nextShort' \in Nat \ {0} /\ nextShort <= nextShort'
  BY <1>1, <1>3
<1>7. m.short > 0 /\ m.short < nextShort'
  BY <1>4, <1>5, <1>6
<1>8. QED BY <1>3, <1>5, <1>6, <1>7 DEF Maps

\* The channel of a new thread, or of a worker.
LEMMA OwnChannel ==
  ASSUME CommandsInv, NEW t \in Tasks, task[t].at \in (ThreadPlaces \ {"bind"}) \cup {"adopt"}
  PROVE  /\ Kind(t) \in {"start worker", "identity", "start thread"} /\ task[t] # Idle
         /\ t \in Pollers => task[t].at \in Places(Kind(t))
         /\ Ch(t) \in Channels /\ Ch(t) \in Made \ PickedUp
<1>1. task[t] # Idle
  BY NotIdle DEF ThreadPlaces
<1>2. t \in Pollers => task[t].at \in Places(Kind(t))
  BY <1>1, PollPlaces DEF ThreadPlaces
<1>3. task[t].at \in Places(Kind(t)) => Kind(t) \in {"start worker", "identity"}
  BY DEF Places, ThreadPlaces, ClosePlaces
<1>4. t \in Operators => Kind(t) = "start thread"
  BY <1>1, OperatorPlaces DEF ThreadPlaces, ClosePlaces
<1>5. Kind(t) \in {"start worker", "identity", "start thread"}
  BY <1>2, <1>3, <1>4 DEF Tasks
<1>6. Ch(t) \in {0} \cup Channels /\ HasChannel(task[t])
  BY DEF CommandsInv, CommandTypes, Hands, TaskState, Ch
<1>7. Ch(t) # 0
  BY <1>6 DEF HasChannel, ChannelPlaces, Ch
<1>8. maker[Ch(t)].kind \in {"start worker", "start thread"} /\ Ch(t) \in Made
  BY <1>5, <1>6, <1>7 DEF HasChannel, Kind, Ch, MakerKinds, WorkerKinds, OfWorkers
<1>9. Ch(t) \notin PickedUp
  BY <1>8 DEF PickedUp
<1>10. QED BY <1>1, <1>2, <1>5, <1>6, <1>7, <1>8, <1>9

\* It is ensured, and the task goes on.
LEMMA EnsuresOther ==
  ASSUME CommandsInv, NEW t \in Tasks, task[t] # Idle, Ch(t) \in Channels, Ch(t) \in Made \ PickedUp,
         NEW l \in {0} \cup Titles, EnsureChannel(Ch(t), l),
         NEW p \in Spots \ {"idle"}, GoTo(t, p), MayGo(t, p),
         p \notin Ahead \cup RunPlaces \cup ClosePlaces,
         p \in ChannelPlaces => task[t].at \in ChannelPlaces,
         p \in WorkerPlaces => task[t].at \in WorkerPlaces,
         UNCHANGED <<channel, polling, discord, registryVars, faults, history>>
  PROVE  CommandsInv'
<1>1. PICK x \in TaskState :
        MovesOn(t, x) /\ HasEntry(x) /\ x.at = p /\ x.ch = Ch(t) /\ task' = [task EXCEPT ![t] = x]
  BY GoesTo
<1>2. p # "unmap"
  BY DEF ClosePlaces
<1>3. PICK m : Maps(Ch(t), m)
  BY Ensured
<1>4. QED BY <1>1, <1>2, <1>3, MapsOther
LEMMA RenamedInv == ASSUME CommandsInv, NEW t \in Tasks, Renamed(t) PROVE CommandsInv'
<1>1. /\ At(t, "renamed") /\ EnsureChannel(Ch(t), 0) /\ UNCHANGED <<channel, polling, discord, registryVars, faults, history>>
      /\ task[t].at \in (ThreadPlaces \ {"bind"}) \cup {"adopt"}
  BY DEF Renamed, At, ThreadPlaces
<1>2. PICK p \in {"bind worker", "waiting"} : GoTo(t, p) /\ (p = "bind worker" <=> Kind(t) = "identity")
  BY DEF Renamed, AfterRename
<1>3. MayGo(t, p)
  <2>1. {"bind worker", "waiting"} \subseteq Places("identity") /\ "waiting" \in Places("start worker") /\ "waiting" \in ThreadPlaces
    BY DEF Places, ThreadPlaces
  <2>2. t \in Operators => Kind(t) = "start thread"
    BY <1>1, OwnChannel, OperatorPlaces DEF At, ClosePlaces
  <2>3. t \in Pollers => Kind(t) # "start thread"
    BY <1>1, OwnChannel DEF Places, At
  <2>4. QED BY <1>1, <1>2, <2>1, <2>2, <2>3, OwnChannel DEF MayGo, At
<1>4. /\ p \in Spots \ {"idle"} /\ p \notin Ahead \cup RunPlaces \cup ClosePlaces
      /\ "renamed" \in ChannelPlaces \cap WorkerPlaces
  BY DEF Spots, Ahead, ChannelPlaces, RunPlaces, ClosePlaces, WorkerPlaces, ThreadPlaces
<1>5. QED BY <1>1, <1>2, <1>3, <1>4, OwnChannel, EnsuresOther DEF At

LEMMA EnsureWaitingInv == ASSUME CommandsInv, NEW t \in Tasks, EnsureWaiting(t) PROVE CommandsInv'
<1>1. /\ At(t, "waiting") /\ EnsureChannel(Ch(t), 0) /\ UNCHANGED <<channel, polling, discord, registryVars, faults, history>>
      /\ task[t].at \in (ThreadPlaces \ {"bind"}) \cup {"adopt"}
  BY DEF EnsureWaiting, At, ThreadPlaces
<1>2. PICK p \in {"rename", "acknowledge"} : GoTo(t, p) /\ (p = "rename" <=> Kind(t) = "identity")
  BY DEF EnsureWaiting
<1>3. MayGo(t, p)
  <2>1. "rename" \in Places("identity") /\ "acknowledge" \in Places("start worker") /\ "acknowledge" \in ThreadPlaces
    BY DEF Places, ThreadPlaces
  <2>2. t \in Operators => Kind(t) = "start thread"
    BY <1>1, OwnChannel, OperatorPlaces DEF At, ClosePlaces
  <2>3. t \in Pollers => Kind(t) # "start thread"
    BY <1>1, OwnChannel DEF Places, At
  <2>4. QED BY <1>1, <1>2, <2>1, <2>2, <2>3, OwnChannel DEF MayGo, At
<1>4. /\ p \in Spots \ {"idle"} /\ p \notin Ahead \cup RunPlaces \cup ClosePlaces
      /\ "waiting" \in ChannelPlaces \cap WorkerPlaces
  BY DEF Spots, Ahead, ChannelPlaces, RunPlaces, ClosePlaces, WorkerPlaces, ThreadPlaces
<1>5. QED BY <1>1, <1>2, <1>3, <1>4, OwnChannel, EnsuresOther DEF At

LEMMA EnsureRefusedInv == ASSUME CommandsInv, NEW t \in Tasks, EnsureRefused(t) PROVE CommandsInv'
<1>1. /\ At(t, "refuse") /\ EnsureChannel(Ch(t), 0) /\ UNCHANGED <<channel, polling, discord, registryVars, faults, history>>
      /\ task[t].at \in (ThreadPlaces \ {"bind"}) \cup {"adopt"} /\ GoTo(t, "keep")
  BY DEF EnsureRefused, At, ThreadPlaces
<1>2. MayGo(t, "keep")
  <2>1. "refuse" \notin Places("identity") /\ "keep" \in Places("start worker") /\ "keep" \in ThreadPlaces
    BY DEF Places, ThreadPlaces
  <2>2. t \in Operators => Kind(t) = "start thread"
    BY <1>1, OwnChannel, OperatorPlaces DEF At, ClosePlaces
  <2>3. t \in Pollers => Kind(t) # "start thread"
    BY <1>1, OwnChannel DEF Places, At
  <2>4. QED BY <1>1, <2>1, <2>2, <2>3, OwnChannel DEF MayGo, At
<1>3. /\ "keep" \in Spots \ {"idle"} /\ "keep" \notin Ahead \cup RunPlaces \cup ClosePlaces
      /\ "refuse" \in ChannelPlaces \cap WorkerPlaces
  BY DEF Spots, Ahead, ChannelPlaces, RunPlaces, ClosePlaces, WorkerPlaces, ThreadPlaces
<1>4. QED BY <1>1, <1>2, <1>3, OwnChannel, EnsuresOther DEF At

LEMMA EnsureKeptInv == ASSUME CommandsInv, NEW t \in Tasks, EnsureKept(t) PROVE CommandsInv'
<1>1. /\ At(t, "keep") /\ EnsureChannel(Ch(t), 0) /\ UNCHANGED <<channel, polling, discord, registryVars, faults, history>>
      /\ task[t].at \in (ThreadPlaces \ {"bind"}) \cup {"adopt"} /\ task[t].at \in {"ensure", "keep", "cursor"}
  BY DEF EnsureKept, At, ThreadPlaces
<1>2. PICK p : p = IF task[t].sent THEN AfterChannel(Kind(t)) ELSE "cursor"
  OBVIOUS
<1>3. GoTo(t, p) /\ p \in {"bind worker", "done", "say", "cursor"}
  BY <1>1, <1>2, AfterChannelPlaces DEF EnsureKept
<1>4. MayGo(t, p)
  <2>1. CASE task[t].sent
    BY <1>1, <1>2, <2>1, AfterChannelPlaces
  <2>2. CASE ~task[t].sent
    <3>1. "keep" \notin Places("identity") /\ "cursor" \in Places("start worker") /\ "cursor" \in ThreadPlaces
      BY DEF Places, ThreadPlaces
    <3>2. t \in Operators => Kind(t) = "start thread"
      BY <1>1, OwnChannel, OperatorPlaces DEF At, ClosePlaces
    <3>3. t \in Pollers => Kind(t) # "start thread"
      BY <1>1, OwnChannel DEF Places, At
    <3>4. p = "cursor"
      BY <1>2, <2>2
    <3>5. QED BY <1>1, <3>1, <3>2, <3>3, <3>4, OwnChannel DEF MayGo, At
  <2>3. QED BY <2>1, <2>2
<1>5. /\ p \in Spots \ {"idle"} /\ p \notin Ahead \cup RunPlaces \cup ClosePlaces
      /\ "keep" \in ChannelPlaces \cap WorkerPlaces
  BY <1>3 DEF Spots, Ahead, ChannelPlaces, RunPlaces, ClosePlaces, WorkerPlaces, ThreadPlaces
<1>6. QED BY <1>1, <1>3, <1>4, <1>5, OwnChannel, EnsuresOther DEF At

LEMMA AdoptInv == ASSUME CommandsInv, NEW t \in Tasks, Adopt(t) PROVE CommandsInv'
<1>1. /\ At(t, "adopt") /\ EnsureChannel(Ch(t), task[t].label) /\ GoTo(t, "identify")
      /\ UNCHANGED <<channel, polling, discord, registryVars, faults, history>>
      /\ task[t].at \in (ThreadPlaces \ {"bind"}) \cup {"adopt"} /\ task[t] # Idle
  BY NotIdle DEF Adopt, At
<1>2. t \in Pollers /\ t \notin Operators
  BY <1>1, OnlyPolls DEF At, ThreadPlaces, ClosePlaces
<1>3. MayGo(t, "identify")
  <2>1. "adopt" \notin Places("start worker") /\ "identify" \in Places("identity") /\ "adopt" \notin Places("start thread")
    BY DEF Places, ThreadPlaces
  <2>2. QED BY <1>1, <1>2, <2>1, OwnChannel DEF MayGo, At
<1>4. /\ "identify" \in Spots \ {"idle"} /\ "identify" \notin Ahead \cup RunPlaces \cup ClosePlaces
      /\ "adopt" \in ChannelPlaces \cap WorkerPlaces
  BY DEF Spots, Ahead, ChannelPlaces, RunPlaces, ClosePlaces, WorkerPlaces, ThreadPlaces
<1>5. task[t].label \in {0} \cup Titles
  BY DEF CommandsInv, CommandTypes, TaskState
<1>6. QED BY <1>1, <1>3, <1>4, <1>5, OwnChannel, EnsuresOther DEF At

\* The channel of a task that is about to ensure or to bind it.
LEMMA InHand ==
  ASSUME CommandsInv, NEW t \in Tasks, task[t].at \in {"ensure", "bind", "unmap", "delete"}
  PROVE  /\ task[t] # Idle /\ Ch(t) \in Channels /\ Ch(t) \in Made
         /\ Kind(t) \in MakerKinds => maker[Ch(t)].kind = Kind(t)
         /\ task[t].label \in {0} \cup Titles
<1>1. task[t] # Idle
  BY NotIdle
<1>2. task[t] \in TaskState /\ HasChannel(task[t])
  BY DEF CommandsInv, CommandTypes, Hands
<1>3. task[t].ch # 0
  BY <1>2 DEF HasChannel, ChannelPlaces, ThreadPlaces, ClosePlaces
<1>4. QED BY <1>1, <1>2, <1>3 DEF HasChannel, TaskState, Ch, Kind

LEMMA EnsureKinds ==
  ASSUME CommandsInv, NEW t \in Tasks, At(t, "ensure")
  PROVE  /\ t \in Pollers => Kind(t) \in {"new", "pickup", "start worker"}
         /\ t \in Operators => Kind(t) \in {"start thread", "bind channel"}
         /\ Kind(t) \in MakerKinds
<1>1. task[t] # Idle
  BY NotIdle DEF At
<1>2. t \in Pollers => "ensure" \in Places(Kind(t))
  BY <1>1, PollPlaces DEF At
<1>3. "ensure" \in Places(Kind(t)) => Kind(t) \in {"new", "pickup", "start worker"}
  BY DEF Places, ThreadPlaces, ClosePlaces
<1>4. t \in Operators => Kind(t) \in {"start thread", "bind channel"}
  BY <1>1, OperatorPlaces DEF At, ThreadPlaces, ClosePlaces
<1>5. QED BY <1>2, <1>3, <1>4 DEF Tasks, MakerKinds

LEMMA EnsureNewOther ==
  ASSUME CommandsInv, NEW t \in Tasks, EnsureNew(t), Kind(t) # "pickup"
  PROVE  CommandsInv'
<1>1. At(t, "ensure") /\ EnsureChannel(Ch(t), task[t].label) /\ UNCHANGED <<channel, polling, discord, registryVars, faults, history>>
  BY DEF EnsureNew
<1>2. PICK p \in {"prompt", "bind worker", "done", "say"} :
        /\ GoTo(t, p)
        /\ p = "prompt" => Kind(t) \in {"start thread", "start worker"}
        /\ p # "prompt" => p = AfterChannel(Kind(t)) \/ (p = "done" /\ Kind(t) = "start thread")
  <2>1. CASE Kind(t) \in {"start thread", "start worker"} /\ GoTo(t, "prompt")
    BY <2>1
  <2>2. CASE GoTo(t, AfterChannel(Kind(t)))
    BY <1>1, <2>2, AfterChannelPlaces DEF At
  <2>3. CASE Kind(t) = "start thread" /\ GoTo(t, "done")
    BY <2>3
  <2>4. QED BY <2>1, <2>2, <2>3 DEF EnsureNew
<1>3. MayGo(t, p)
  <2>1. CASE p = "prompt"
    <3>1. "prompt" \in Places("start worker") /\ "prompt" \in ThreadPlaces
      BY DEF Places, ThreadPlaces
    <3>2. QED BY <1>1, <1>2, <2>1, <3>1, EnsureKinds DEF MayGo, At
  <2>2. CASE p = AfterChannel(Kind(t))
    BY <1>1, <2>2, AfterChannelPlaces DEF At
  <2>3. CASE p = "done" /\ Kind(t) = "start thread"
    BY <1>1, <2>3, EnsureKinds DEF MayGo
  <2>4. QED BY <1>2, <2>1, <2>2, <2>3
<1>4. /\ p \in Spots \ {"idle"} /\ p \notin Ahead \cup RunPlaces \cup ClosePlaces
      /\ "ensure" \in ChannelPlaces \cap WorkerPlaces
  BY DEF Spots, Ahead, ChannelPlaces, RunPlaces, ClosePlaces, WorkerPlaces, ThreadPlaces
<1>5. Ch(t) \notin PickedUp
  BY <1>1, EnsureKinds, InHand DEF PickedUp, At
<1>6. QED BY <1>1, <1>2, <1>3, <1>4, <1>5, InHand, EnsuresOther DEF At
\* A task with its channel at hand goes on, and the mappings stay.
LEMMA BindInv == ASSUME CommandsInv, NEW t \in Tasks, Bind(t) PROVE CommandsInv'
<1>1. /\ At(t, "bind") /\ BindChannel(Ch(t), task[t].label) /\ Mapped(Ch(t))
      /\ UNCHANGED <<channel, polling, discord, registryVars, faults, history>>
  BY DEF Bind, BindChannel
<1>2. PICK p \in {"noted", "rename", "waiting"} :
        /\ GoTo(t, p)
        /\ p = "noted" <=> Kind(t) \in {"pickup", "refresh"}
        /\ p = "waiting" => Kind(t) = "identity"
  BY DEF Bind
<1>3. /\ task[t] # Idle /\ Ch(t) \in Channels /\ Ch(t) \in Made /\ task[t].label \in {0} \cup Titles
      /\ Kind(t) \in MakerKinds => maker[Ch(t)].kind = Kind(t)
  BY <1>1, InHand DEF At
<1>4. MayGo(t, p)
  <2>1. t \in Operators => Kind(t) = "start thread"
    BY <1>1, <1>3, OperatorPlaces DEF At, ClosePlaces
  <2>2. t \in Pollers => Kind(t) \in {"pickup", "refresh", "start worker", "identity"}
    <3>1. t \in Pollers => "bind" \in Places(Kind(t))
      BY <1>1, <1>3, PollPlaces DEF At
    <3>2. QED BY <3>1 DEF Places, ThreadPlaces, ClosePlaces
  <2>3. /\ "noted" \in Places("pickup") /\ "noted" \in Places("refresh") /\ "rename" \in Places("start worker")
        /\ {"rename", "waiting"} \subseteq Places("identity") /\ {"rename", "waiting"} \subseteq ThreadPlaces
    BY DEF Places, ThreadPlaces
  <2>4. t \in Pollers => p \in Places(Kind(t))
    BY <1>2, <2>2, <2>3
  <2>5. QED BY <1>1, <1>2, <2>1, <2>3, <2>4 DEF MayGo, At
<1>5. /\ p \in Spots \ {"idle", "unmap", "find", "create", "ensure", "note", "bind"}
      /\ p \notin Ahead \cup RunPlaces \cup ClosePlaces /\ "bind" \in ChannelPlaces \cap WorkerPlaces
  BY DEF Spots, Ahead, ChannelPlaces, RunPlaces, ClosePlaces, WorkerPlaces, ThreadPlaces
<1>6. CASE Ch(t) \in PickedUp
  <2>1. t \in Pollers
    <3>1. t \in Operators => Kind(t) = "start thread"
      BY <1>1, <1>3, OperatorPlaces DEF At, ClosePlaces
    <3>2. QED BY <1>3, <1>6, <3>1 DEF Tasks, PickedUp, MakerKinds
  <2>2. Rebinds(task[t])
    BY <2>1 DEF CommandsInv, Picking
  <2>3. task[t].label = mapping[Ch(t)].label
    BY <1>1, <1>6, <2>2 DEF Rebinds, At, Ch
  <2>4. PICK m \in MappingState : m = mapping[Ch(t)] /\ mapping \in [Channels -> MappingState]
    BY <1>3 DEF CommandsInv, CommandTypes
  <2>5. mapping' = [mapping EXCEPT ![Ch(t)] = [m EXCEPT !.label = m.label]]
    BY <1>1, <1>3, <2>3, <2>4 DEF BindChannel
  <2>6. [m EXCEPT !.label = m.label] = m
    BY DEF MappingState
  <2>7. mapping' = mapping
    BY <1>3, <2>4, <2>5, <2>6
  <2>8. UNCHANGED storeVars
    BY <1>1, <2>7 DEF BindChannel, storeVars
  <2>9. QED BY <1>1, <1>2, <1>3, <1>4, <1>5, <2>8, GoOnly DEF At
<1>7. CASE Ch(t) \notin PickedUp
  <2>1. PICK m : Maps(Ch(t), m)
    BY <1>1, <1>3, Bound
  <2>2. PICK x \in TaskState :
        MovesOn(t, x) /\ HasEntry(x) /\ x.at = p /\ x.ch = Ch(t) /\ task' = [task EXCEPT ![t] = x]
    BY <1>1, <1>2, <1>3, <1>4, <1>5, GoesTo DEF At
  <2>3. QED BY <1>1, <1>3, <1>5, <1>7, <2>1, <2>2, MapsOther
<1>8. QED BY <1>6, <1>7

\* A channel is forgotten, after Discord deleted it.
LEMMA UnmapInv == ASSUME CommandsInv, NEW t \in Tasks, Unmap(t) PROVE CommandsInv'
<1>1. /\ At(t, "unmap") /\ mapping' = [mapping EXCEPT ![Ch(t)] = Unmapped] /\ Closed(t)
      /\ UNCHANGED <<channel, polling, discord, seen, nextShort, list, activeRun, registryVars, faults, history>>
  BY DEF Unmap
<1>0. UNCHANGED <<script, commands, runs, workers, maker, cut, left, seen, list, activeRun, nextShort, polling, discord, faults>>
  BY <1>1 DEF channel, registryVars, history
<1>2. task[t] # Idle /\ task[t].at \in ClosePlaces
  BY <1>1, NotIdle DEF At, ClosePlaces
<1>3. PICK x \in TaskState : CarriesOn(t, x) /\ HasEntry(x) /\ task' = [task EXCEPT ![t] = x]
  BY <1>1, <1>2, ClosedOn
<1>4. PICK c \in Channels : c = Ch(t)
  BY <1>1, InHand DEF At
<1>5. /\ mapping \in [Channels -> MappingState] /\ Unmapped \in MappingState /\ Unmapped.short = 0
      /\ nextShort \in Nat \ {0}
  BY DEF CommandsInv, CommandTypes, Unmapped, MappingState
<1>6. mapping' \in [Channels -> MappingState] /\ mapping'[c] = Unmapped /\ \A d \in Channels \ {c} : mapping'[d] = mapping[d]
  BY <1>1, <1>4, <1>5
<1>7. ~Mapped(c)' /\ \A d : d # c => Mapped(d)' = Mapped(d)
  <2>1. \A d : d # c => mapping'[d] = mapping[d]
    BY <1>1, <1>4, <1>5
  <2>2. QED BY <1>6, <2>1 DEF Mapped
<1>8. \A d \in Channels : (Mapped(d)' => d \in Made /\ mapping'[d].short > 0) /\ mapping'[d].short < nextShort'
  <2>1. \A d \in Channels : (Mapped(d) => d \in Made /\ mapping[d].short > 0) /\ mapping[d].short < nextShort
    BY DEF CommandsInv, Hands
  <2>2. 0 < nextShort' /\ nextShort' = nextShort
    BY <1>0, <1>5
  <2>3. QED BY <1>5, <1>6, <1>7, <2>1, <2>2
<1>9. /\ CommandTypes' /\ Stages' /\ Hands' /\ Counted'
      /\ Made' = Made /\ PickedUp' = PickedUp
      /\ task \in [Tasks -> TaskState] /\ task'[t] = x /\ \A u \in Tasks \ {t} : task'[u] = task[u]
  <2>1. RestTyped' /\ Grows
    <3>1. Len(runs) \in Nat /\ Len(workers) \in Nat
      BY DEF CommandsInv, CommandTypes
    <3>2. OfWorkers' = OfWorkers
      BY <1>0 DEF OfWorkers
    <3>3. QED BY <1>0, <3>1, <3>2, RestKept DEF RestTyped, Grows
  <2>2. HasEntry(x)'
    BY <1>0, <1>3 DEF HasEntry
  <2>3. discord' \subseteq Channels /\ left' \subseteq Channels /\ nextShort' \in Nat \ {0}
    BY <1>0 DEF CommandsInv, CommandTypes
  <2>4. MovesOn(t, x)
    BY <1>3 DEF CarriesOn
  <2>5. UNCHANGED <<channel, seen, polling, maker, cut>>
    BY <1>0, <1>1
  <2>6. QED BY <1>2, <1>3, <1>6, <1>8, <2>1, <2>2, <2>3, <2>4, <2>5, Advance
<1>10. Known'
  <2>1. c \notin discord
    BY <1>1, <1>4 DEF CommandsInv, Known
  <2>2. \A u \in Tasks : At(u, "ensure") => task'[u] = task[u]
    BY <1>1, <1>9 DEF At
  <2>3. \A u \in Tasks : At(u, "unmap")' => task'[u] = task[u]
    BY <1>3, <1>9 DEF At, CarriesOn
  <2>4. QED BY <1>0, <1>7, <1>9, <2>1, <2>2, <2>3 DEF CommandsInv, Known, At, Ch
<1>11. Picking'
  <2>1. \A d \in PickedUp : Mapped(d)' => Mapped(d) /\ mapping'[d] = mapping[d]
    BY <1>6, <1>7 DEF PickedUp
  <2>2. \A y : Picks(y) => Picks(y)'
    BY <1>0, <1>9, <2>1 DEF Picks, Exact
  <2>3. \A y : Rebinds(y) => Rebinds(y)'
    BY <1>9, <2>1 DEF Rebinds
  <2>4. \A u \in Pollers : (Kind(u)' = "pickup" => Picks(task'[u])) /\ Rebinds(task'[u])
    BY <1>3, <1>9 DEF CommandsInv, Picking, Tasks, Kind, CarriesOn
  <2>5. \A u \in Pollers : (Kind(u)' = "pickup" => Picks(task[u])') /\ Rebinds(task[u])'
    <3>1. SUFFICES ASSUME NEW u \in Pollers PROVE (Kind(u)' = "pickup" => Picks(task[u])') /\ Rebinds(task[u])'
      OBVIOUS
    <3>2. PICK y : y = task'[u] /\ (Kind(u)' = "pickup" => Picks(y)) /\ Rebinds(y)
      BY <2>4
    <3>3. (Kind(u)' = "pickup" => Picks(y)') /\ Rebinds(y)'
      BY <2>2, <2>3, <3>2
    <3>4. QED BY <3>2, <3>3 DEF Picks, Rebinds
  <2>6. QED BY <1>0, <1>9, <2>1, <2>5 DEF CommandsInv, Picking, Exact
<1>12. QED BY <1>9, <1>10, <1>11 DEF CommandsInv
LEMMA DeleteFromDiscordInv == ASSUME CommandsInv, NEW t \in Tasks, DeleteFromDiscord(t) PROVE CommandsInv'
<1>1. At(t, "delete") /\ UNCHANGED <<channel, polling, storeVars, registryVars, history>>
  BY DEF DeleteFromDiscord
<1>0. UNCHANGED <<script, commands, runs, workers, maker, cut, left, seen, list, activeRun, nextShort, mapping, polling>>
  BY <1>1 DEF channel, registryVars, history, storeVars
<1>2. task[t] # Idle /\ task[t].at \in ClosePlaces
  BY <1>1, NotIdle DEF At, ClosePlaces
<1>3. Len(runs) \in Nat /\ Len(workers) \in Nat /\ OfWorkers' = OfWorkers
  BY <1>0 DEF CommandsInv, CommandTypes, OfWorkers
<1>4. ASSUME discord' = discord \ {Ch(t)}, GoTo(t, "unmap"), UNCHANGED faults PROVE CommandsInv'
  <2>1. PICK x \in TaskState :
           /\ task' = [task EXCEPT ![t] = x] /\ x # Idle /\ SameCommand(task[t], x)
           /\ x.at = "unmap" /\ x.ch = task[t].ch /\ x.ref = task[t].ref /\ x.todo = task[t].todo
    <3>1. "unmap" \in Spots \ {"idle"}
      BY DEF Spots
    <3>2. QED BY <1>4, <3>1, Go DEF CommandsInv
  <2>2. MayGo(t, "unmap")
    <3>1. "unmap" \in Places("cleanup worker") /\ "unmap" \in Places("cleanup run") /\ "unmap" \in ClosePlaces
      BY DEF Places, ClosePlaces
    <3>2. QED BY <1>1, <1>2, <3>1, CloseKinds DEF MayGo, At
  <2>3. HasChannel(x) /\ HasEntry(x)
    BY <1>1, <2>1 DEF CommandsInv, Hands, HasChannel, HasEntry, SameCommand, At, ChannelPlaces, RunPlaces, WorkerPlaces, ThreadPlaces, ClosePlaces
  <2>4. MovesOn(t, x)
    BY <2>1, <2>2, <2>3, <1>2, StageKept DEF MovesOn, Ahead
  <2>5. RestTyped' /\ Grows
    BY <1>0, <1>3, <1>4, RestKept DEF RestTyped, Grows
  <2>6. HasEntry(x)'
    BY <1>0, <2>3 DEF HasEntry
  <2>7. /\ mapping' \in [Channels -> MappingState] /\ nextShort' \in Nat \ {0}
        /\ discord' \subseteq Channels /\ left' \subseteq Channels
    BY <1>0, <1>4 DEF CommandsInv, CommandTypes
  <2>8. \A c : Mapped(c)' = Mapped(c)
    BY <1>0 DEF Mapped
  <2>9. \A c \in Channels : (Mapped(c)' => c \in Made /\ mapping'[c].short > 0) /\ mapping'[c].short < nextShort'
    BY <1>0, <2>8 DEF CommandsInv, Hands
  <2>10. /\ CommandTypes' /\ Stages' /\ Hands' /\ Counted'
         /\ Made' = Made /\ PickedUp' = PickedUp
         /\ task \in [Tasks -> TaskState] /\ task'[t] = x /\ \A u \in Tasks \ {t} : task'[u] = task[u]
    BY <1>0, <1>1, <1>2, <2>1, <2>4, <2>5, <2>6, <2>7, <2>9, Advance
  <2>11. Known'
    <3>1. \A u \in Tasks : At(u, "ensure") => task'[u] = task[u]
      BY <1>1, <2>10 DEF At
    <3>2. \A u \in Tasks : At(u, "unmap")' => Ch(u)' \notin discord'
      <4>1. Ch(t)' \notin discord'
        BY <1>4, <2>1, <2>10 DEF Ch
      <4>2. \A u \in Tasks \ {t} : At(u, "unmap")' => Ch(u)' \notin discord'
        BY <1>4, <2>10 DEF CommandsInv, Known, At, Ch
      <4>3. QED BY <4>1, <4>2
    <3>3. QED BY <1>0, <1>4, <2>8, <2>10, <3>1, <3>2 DEF CommandsInv, Known, At, Ch
  <2>12. Picking'
    <3>1. \A y : Picks(y)' = Picks(y) /\ Rebinds(y)' = Rebinds(y)
      BY <1>0, <2>8, <2>10 DEF Picks, Rebinds, Exact
    <3>2. t \in Pollers => x.kind # "pickup" /\ Rebinds(x)
      BY <1>2, <2>1, CloseKinds DEF SameCommand, Kind, Rebinds
    <3>3. \A u \in Pollers : (Kind(u)' = "pickup" => Picks(task'[u])) /\ Rebinds(task'[u])
      BY <2>10, <3>2 DEF CommandsInv, Picking, Tasks, Kind
    <3>4. QED BY <1>0, <2>8, <2>10, <3>1, <3>3 DEF CommandsInv, Picking, Exact
  <2>13. QED BY <2>10, <2>11, <2>12 DEF CommandsInv
<1>5. ASSUME faults < MaxFaults, faults' = faults + 1, Closed(t), UNCHANGED discord PROVE CommandsInv'
  <2>1. PICK x \in TaskState : CarriesOn(t, x) /\ HasEntry(x) /\ task' = [task EXCEPT ![t] = x]
    BY <1>2, <1>5, ClosedOn
  <2>2. SameChannels
    BY <1>0, <1>1, <1>5 DEF SameChannels
  <2>3. HasEntry(x)'
    BY <1>0, <2>1 DEF HasEntry
  <2>4. faults' \in 0 .. MaxFaults
    BY <1>5, CommandsAssumption DEF CommandsInv, CommandTypes, CommandsAssumption
  <2>5. RestTyped' /\ Grows
    BY <1>0, <1>3, <2>4, RestKept DEF RestTyped, Grows
  <2>6. QED BY <1>2, <2>1, <2>2, <2>3, <2>5, CarryOn
<1>6. QED BY <1>4, <1>5 DEF DeleteFromDiscord

\* A channel that was picked up is made by the one poll.
LEMMA EnsurePickedUp ==
  ASSUME CommandsInv, NEW t \in Tasks, EnsureNew(t), Kind(t) = "pickup"
  PROVE  CommandsInv'
<1>1. At(t, "ensure") /\ EnsureChannel(Ch(t), task[t].label) /\ UNCHANGED <<channel, polling, discord, registryVars, faults, history>>
  BY DEF EnsureNew
<1>2. GoTo(t, "note")
  <2>1. (CASE Kind(t) = "pickup" -> "note"
           [] Kind(t) \in {"start thread", "start worker"} -> "prompt"
           [] OTHER -> AfterChannel(Kind(t))) = "note"
    OBVIOUS
  <2>2. Kind(t) # "start thread"
    OBVIOUS
  <2>3. QED BY <2>1, <2>2 DEF EnsureNew
<1>3. t \in Pollers /\ t \notin Operators /\ task[t] # Idle /\ Ch(t) \in Channels /\ Ch(t) \in Made
      /\ maker[Ch(t)].kind = "pickup" /\ task[t].label \in {0} \cup Titles
  BY <1>1, EnsureKinds, InHand DEF At, Tasks, MakerKinds
<1>4. PICK c \in Channels : c = Ch(t) /\ c \in Made /\ c \in PickedUp
  BY <1>3 DEF PickedUp
<1>5. Picks(task[t])
  BY <1>3 DEF CommandsInv, Picking
<1>6. PICK l \in Threads : l = task[t].label /\ l # 0 /\ l \in {0} \cup Titles
  BY <1>1, <1>5, CommandsAssumption DEF Picks, At, CommandsAssumption
<1>7. PICK m : Maps(c, m) /\ m.label = l
  BY <1>1, <1>4, <1>6, Ensured
<1>0. UNCHANGED <<script, commands, runs, workers, maker, cut, left, seen, list, activeRun, polling, discord, faults>>
  BY <1>1, <1>7 DEF channel, registryVars, history, Maps
<1>8. PICK x \in TaskState :
        MovesOn(t, x) /\ HasEntry(x) /\ x.at = "note" /\ x.ch = c /\ x.label = l /\ task' = [task EXCEPT ![t] = x]
  <2>1. MayGo(t, "note")
    BY <1>1, <1>3 DEF MayGo, Places, At
  <2>2. /\ "note" \in Spots \ {"idle"} /\ "note" \notin Ahead \cup RunPlaces \cup ClosePlaces
        /\ "ensure" \in ChannelPlaces \cap WorkerPlaces
    BY DEF Spots, Ahead, ChannelPlaces, RunPlaces, ClosePlaces, WorkerPlaces, ThreadPlaces
  <2>3. QED BY <1>1, <1>2, <1>3, <1>4, <1>6, <2>1, <2>2, GoesTo DEF At
<1>9. /\ mapping' \in [Channels -> MappingState] /\ mapping'[c] = m
      /\ \A d \in Channels \ {c} : mapping'[d] = mapping[d]
      /\ \A d : d # c => Mapped(d)' = Mapped(d)
      /\ Mapped(c)'
      /\ \A d \in Channels : (Mapped(d)' => d \in Made /\ mapping'[d].short > 0) /\ mapping'[d].short < nextShort'
  BY <1>0, <1>4, <1>7, MappingsAfter
<1>10. /\ CommandTypes' /\ Stages' /\ Hands' /\ Counted'
       /\ Made' = Made /\ PickedUp' = PickedUp
       /\ task \in [Tasks -> TaskState] /\ task'[t] = x /\ \A u \in Tasks \ {t} : task'[u] = task[u]
  <2>1. RestTyped' /\ Grows
    <3>1. Len(runs) \in Nat /\ Len(workers) \in Nat
      BY DEF CommandsInv, CommandTypes
    <3>2. OfWorkers' = OfWorkers
      BY <1>0 DEF OfWorkers
    <3>3. QED BY <1>0, <3>1, <3>2, RestKept DEF RestTyped, Grows
  <2>2. HasEntry(x)'
    BY <1>0, <1>8 DEF HasEntry
  <2>3. discord' \subseteq Channels /\ left' \subseteq Channels
    BY <1>0 DEF CommandsInv, CommandTypes
  <2>4. nextShort' \in Nat \ {0}
    BY <1>7 DEF Maps
  <2>5. QED BY <1>0, <1>1, <1>3, <1>8, <1>9, <2>1, <2>2, <2>3, <2>4, Advance
<1>11. Known'
  <2>1. \A u \in Tasks : At(u, "ensure") /\ Ch(u) # c => task'[u] = task[u]
    BY <1>4, <1>10 DEF At
  <2>2. \A u \in Tasks : At(u, "unmap")' => task'[u] = task[u]
    BY <1>8, <1>10 DEF At
  <2>3. QED BY <1>0, <1>9, <1>10, <2>1, <2>2 DEF CommandsInv, Known, At, Ch
<1>12. Picking'
  <2>1. \A u \in Pollers \ {t} : task'[u] = Idle
    BY <1>3, <1>10 DEF CommandsInv, Stages, SolePoll, Tasks
  <2>2. \A u \in Pollers : (Kind(u)' = "pickup" => Picks(task[u])') /\ Rebinds(task[u])'
    <3>1. (Picks(x) /\ Rebinds(x))'
      BY <1>7, <1>8, <1>9 DEF Picks, Rebinds
    <3>2. PICK i : i = Idle
      OBVIOUS
    <3>3. i.kind # "pickup" /\ Rebinds(i)'
      BY <3>2 DEF Idle, Rebinds
    <3>4. \A u \in Pollers : task'[u] = x \/ task'[u] = i
      BY <1>10, <2>1, <3>2
    <3>5. QED BY <3>1, <3>3, <3>4 DEF Kind, Picks, Rebinds
  <2>3. \A a \in PickedUp : Mapped(a)' => mapping'[a].label \in Threads
    BY <1>7, <1>9 DEF CommandsInv, Picking, PickedUp
  <2>4. ASSUME NEW a \in PickedUp, NEW b \in PickedUp, Mapped(a)', Mapped(b)', a < b, mapping'[a].label = mapping'[b].label
        PROVE  ~Exact(maker[b].cmd)
    <3>1. /\ a \in Channels /\ b \in Channels /\ a \in Nat /\ b \in Nat /\ c \in Nat /\ a # b
          /\ b <= c
      BY <1>1, <1>4, <1>5, <2>4, CommandsAssumption DEF PickedUp, CommandsAssumption, Picks, At, Ch
    <3>2. a # c
      BY <2>4, <3>1
    <3>3. Mapped(a) /\ mapping'[a] = mapping[a]
      BY <1>9, <2>4, <3>1, <3>2
    <3>4. CASE b = c
      <4>1. maker[c].cmd = task[t].cmd
        BY <1>1, <1>4, <1>5 DEF Picks, At, Ch
      <4>2. mapping[a].label = task[t].label
        BY <1>6, <1>7, <1>9, <2>4, <3>3, <3>4
      <4>3. Exact(task[t].cmd) => mapping[a].label # task[t].label
        BY <1>1, <1>5, <3>3 DEF Picks, At
      <4>4. QED BY <3>4, <4>1, <4>2, <4>3
    <3>5. CASE b # c
      <4>1. Mapped(b) /\ mapping'[b] = mapping[b]
        BY <1>9, <2>4, <3>1, <3>5
      <4>2. QED BY <2>4, <3>3, <4>1 DEF CommandsInv, Picking
    <3>6. QED BY <3>4, <3>5
  <2>5. \A k : Exact(k)' = Exact(k)
    BY <1>0 DEF Exact
  <2>6. QED BY <1>0, <1>10, <2>2, <2>3, <2>4, <2>5 DEF CommandsInv, Picking
<1>13. QED BY <1>10, <1>11, <1>12 DEF CommandsInv

LEMMA EnsureNewInv == ASSUME CommandsInv, NEW t \in Tasks, EnsureNew(t) PROVE CommandsInv'
BY EnsurePickedUp, EnsureNewOther
-----------------------------------------------------------------------------
(* A channel is made.                                                        *)

LEMMA CreateKinds ==
  ASSUME CommandsInv, NEW t \in Tasks, At(t, "create")
  PROVE  /\ task[t] # Idle
         /\ t \in Pollers => Kind(t) \in {"new", "pickup", "start worker"}
         /\ t \in Operators => Kind(t) \in {"start thread", "bind channel"}
         /\ Kind(t) \in MakerKinds
<1>1. task[t] # Idle
  BY NotIdle DEF At
<1>2. t \in Pollers => "create" \in Places(Kind(t))
  BY <1>1, PollPlaces DEF At
<1>3. "create" \in Places(Kind(t)) => Kind(t) \in {"new", "pickup", "start worker"}
  BY DEF Places, ThreadPlaces, ClosePlaces
<1>4. t \in Operators => Kind(t) \in {"start thread", "bind channel"}
  BY <1>1, OperatorPlaces DEF At, ThreadPlaces, ClosePlaces
<1>5. QED BY <1>1, <1>2, <1>3, <1>4 DEF Tasks, MakerKinds

LEMMA CreateChannelInv == ASSUME CommandsInv, NEW t \in Tasks, CreateChannel(t) PROVE CommandsInv'
<1>1. /\ At(t, "create") /\ Made # Channels
      /\ UNCHANGED <<channel, polling, storeVars, registryVars, faults, cut, left>>
  BY DEF CreateChannel
<1>0. UNCHANGED <<script, commands, runs, workers, cut, left, seen, list, activeRun, mapping, nextShort, polling, faults>>
  BY <1>1 DEF channel, registryVars, storeVars
<1>2. Kind(t) \in MakerKinds /\ task[t] # Idle
  BY <1>1, CreateKinds
<1>3. PICK c \in Channels : c = FirstOf(Channels \ Made) /\ c \notin Made /\ \A d \in Channels \ Made : c <= d
  <2>1. Channels \ Made \in SUBSET Channels /\ Channels \ Made # {}
    BY <1>1 DEF Made
  <2>2. QED BY <2>1, LeastChannel
<1>4. c \in Nat /\ c # 0 /\ \A d \in Channels : d \in Nat
  BY CommandsAssumption DEF CommandsAssumption
<1>5. task \in [Tasks -> TaskState] /\ task[t] \in TaskState
  BY DEF CommandsInv, CommandTypes
<1>6. PICK x : x = [task[t] EXCEPT !.at = "ensure", !.ch = c]
  OBVIOUS
<1>7. PICK v : v = [cmd |-> task[t].cmd, kind |-> Kind(t)]
  OBVIOUS
<1>8. discord' = discord \cup {c} /\ task' = [task EXCEPT ![t] = x] /\ maker' = [maker EXCEPT ![c] = v]
  BY <1>3, <1>5, <1>6, <1>7 DEF CreateChannel
<1>9. /\ x \in TaskState /\ x.at = "ensure" /\ x.ch = c /\ x.label = task[t].label /\ x.todo = task[t].todo
      /\ x.ref = task[t].ref /\ SameCommand(task[t], x)
  BY <1>5, <1>6 DEF TaskState, Spots, SameCommand
<1>10. task'[t] = x /\ \A u \in Tasks \ {t} : task'[u] = task[u]
  BY <1>5, <1>8
<1>11. v.cmd = task[t].cmd /\ v.kind = Kind(t) /\ v \in [cmd : Nat, kind : Kinds] /\ v.kind # "none"
  BY <1>2, <1>5, <1>7 DEF TaskState, Kind, MakerKinds
<1>12. maker \in [Channels -> [cmd : Nat, kind : Kinds]]
  BY DEF CommandsInv, CommandTypes
<1>13. /\ maker' \in [Channels -> [cmd : Nat, kind : Kinds]] /\ maker'[c] = v
       /\ \A d \in Channels \ {c} : maker'[d] = maker[d]
       /\ \A d \in Made : d \in Channels /\ d # c
  BY <1>3, <1>8, <1>11, <1>12 DEF Made
<1>14. Made' = Made \cup {c}
  BY <1>11, <1>13 DEF Made
<1>15. OfWorkers \subseteq OfWorkers' /\ \A d : Mapped(d)' = Mapped(d)
  <2>1. OfWorkers \subseteq Made
    BY DEF OfWorkers, Made
  <2>2. QED BY <1>0, <1>13, <2>1 DEF OfWorkers, Mapped
<1>16. x # Idle /\ MayGo(t, x.at)
  <2>1. Idle.at = "idle" /\ "ensure" \in Places("new") /\ "ensure" \in Places("pickup") /\ "ensure" \in Places("start worker")
    BY DEF Idle, Places
  <2>2. QED BY <1>1, <1>9, <2>1, CreateKinds DEF MayGo, At
<1>17. CommandTypes'
  BY <1>0, <1>1, <1>8, <1>5, <1>9, <1>13 DEF CommandsInv, CommandTypes
<1>18. Stages'
  <2>1. \A y : Polls(y)' = Polls(y) /\ Serves(y)' = Serves(y)
    BY <1>0 DEF Polls, Serves
  <2>2. (t \in Pollers => Polls(x)) /\ (t \in Operators => Serves(x))
    BY <1>2, <1>9, <1>16, StageKept
  <2>3. \A u \in Pollers : Polls(task'[u])
    BY <1>10, <2>2 DEF CommandsInv, Stages, Tasks
  <2>4. \A u \in Operators : Serves(task'[u])
    BY <1>10, <2>2 DEF CommandsInv, Stages, Tasks
  <2>5. SolePoll'
    BY <1>0, <1>2, <1>10 DEF CommandsInv, Stages, SolePoll, Tasks
  <2>6. QED BY <2>1, <2>3, <2>4, <2>5 DEF Stages
<1>19. Hands'
  <2>1. ASSUME NEW y, HasChannel(y) PROVE HasChannel(y)'
    BY <1>13, <1>14, <1>15, <2>1 DEF HasChannel
  <2>2. \A y : HasEntry(y)' = HasEntry(y)
    BY <1>0 DEF HasEntry
  <2>3. HasChannel(task[t]) /\ HasEntry(task[t])
    BY DEF CommandsInv, Hands
  <2>4. HasChannel(x)'
    <3>1. x.kind = Kind(t) /\ x.kind \in MakerKinds /\ x.kind \notin WorkerKinds
      BY <1>2, <1>9 DEF SameCommand, Kind, MakerKinds, WorkerKinds
    <3>2. x.todo \subseteq Made'
      BY <1>9, <1>14, <2>3 DEF HasChannel
    <3>3. QED BY <1>4, <1>9, <1>11, <1>13, <1>14, <3>1, <3>2 DEF HasChannel
  <2>5. HasEntry(x)
    BY <1>1, <1>9, <2>3 DEF HasEntry, SameCommand, At, RunPlaces, ClosePlaces, WorkerPlaces, ThreadPlaces
  <2>6. ASSUME NEW u \in Tasks PROVE (HasChannel(task[u]) /\ HasEntry(task[u]))'
    <3>1. CASE u = t
      BY <1>10, <2>2, <2>4, <2>5, <3>1 DEF HasChannel, HasEntry
    <3>2. CASE u # t
      <4>1. PICK y : y = task[u] /\ y = task'[u] /\ HasChannel(y) /\ HasEntry(y)
        BY <1>10, <3>2 DEF CommandsInv, Hands
      <4>2. HasChannel(y)' /\ HasEntry(y)'
        BY <2>1, <2>2, <4>1
      <4>3. QED BY <4>1, <4>2 DEF HasChannel, HasEntry
    <3>3. QED BY <3>1, <3>2
  <2>7. QED BY <1>0, <1>14, <1>15, <2>6 DEF CommandsInv, Hands
<1>20. Known'
  <2>1. \A u \in Tasks : At(u, "ensure") => task'[u] = task[u]
    BY <1>1, <1>10 DEF At
  <2>2. At(t, "ensure")' /\ Ch(t)' = c
    BY <1>9, <1>10 DEF At, Ch
  <2>3. ASSUME NEW u \in Tasks, At(u, "unmap")' PROVE Ch(u)' \notin discord'
    <3>1. u # t /\ task'[u] = task[u]
      BY <1>9, <1>10, <2>3 DEF At
    <3>2. At(u, "unmap") /\ Ch(u) \notin discord
      BY <2>3, <3>1 DEF CommandsInv, Known, At
    <3>3. Ch(u) \in Made
      BY <3>2, InHand DEF At
    <3>4. QED BY <1>3, <1>8, <3>1, <3>2, <3>3 DEF Ch
  <2>4. discord' \subseteq Made'
    BY <1>8, <1>14 DEF CommandsInv, Known
  <2>5. \A d \in discord' : (Mapped(d) \/ d \in left \/ \E u \in Tasks : At(u, "ensure") /\ Ch(u) = d)'
    BY <1>0, <1>8, <1>15, <2>1, <2>2 DEF CommandsInv, Known, At, Ch
  <2>6. QED BY <2>3, <2>4, <2>5 DEF Known
<1>21. Counted'
  <2>1. SUFFICES ASSUME NEW k \in Numbers
                 PROVE  /\ Cardinality(MadeFor(k)') <= cut[k] + 1
                        /\ Unspent(k)' => Cardinality(MadeFor(k)') <= cut[k]
    BY <1>0 DEF Counted
  <2>2. IsFiniteSet(MadeFor(k)) /\ Cardinality(MadeFor(k)) \in Nat
    <3>1. MadeFor(k) \subseteq Channels /\ IsFiniteSet(Channels)
      BY CommandsAssumption DEF MadeFor, CommandsAssumption
    <3>2. QED BY <3>1, FS_Subset, FS_CardinalityType
  <2>3. cut[k] \in Nat
    BY DEF CommandsInv, CommandTypes
  <2>4. /\ Cardinality(MadeFor(k)) <= cut[k] + 1
        /\ Unspent(k) => Cardinality(MadeFor(k)) <= cut[k]
    BY DEF CommandsInv, Counted
  <2>5. CASE task[t].cmd = k
    <3>1. t \in Pollers
      <4>1. k # 0
        BY SeenTyped, CommandsAssumption
      <4>2. QED BY <1>2, <2>5, <4>1, OperatorPlaces DEF Tasks
    <3>2. ~Unspent(k)'
      <4>1. task'[t] # Idle /\ task'[t].cmd = k /\ task'[t].at \notin Ahead
        BY <1>9, <1>10, <1>16, <2>5 DEF SameCommand, Ahead
      <4>2. QED BY <3>1, <4>1 DEF Unspent
    <3>3. Unspent(k)
      <4>1. k = seen + 1 /\ seen \in Nat
        BY <1>1, <1>2, <2>5, <3>1, PollPlaces, SeenTyped, CommandsAssumption DEF At
      <4>2. \A u \in Pollers : task[u] # Idle => u = t
        BY <1>2, <3>1 DEF CommandsInv, Stages, SolePoll
      <4>3. QED BY <1>1, <4>1, <4>2 DEF Unspent, Ahead, At
    <3>4. MadeFor(k)' \subseteq MadeFor(k) \cup {c}
      BY <1>13 DEF MadeFor
    <3>5. Cardinality(MadeFor(k) \cup {c}) <= Cardinality(MadeFor(k)) + 1 /\ IsFiniteSet(MadeFor(k) \cup {c})
      <4>1. PICK S : S = MadeFor(k) /\ IsFiniteSet(S) /\ Cardinality(S) \in Nat
        BY <2>2
      <4>2. /\ IsFiniteSet(S \cup {c})
            /\ Cardinality(S \cup {c}) = IF c \in S THEN Cardinality(S) ELSE Cardinality(S) + 1
        BY <4>1, FS_AddElement
      <4>3. QED BY <4>1, <4>2
    <3>6. Cardinality(MadeFor(k)') <= Cardinality(MadeFor(k) \cup {c}) /\ Cardinality(MadeFor(k)') \in Nat
          /\ Cardinality(MadeFor(k) \cup {c}) \in Nat
      BY <3>4, <3>5, FS_Subset, FS_CardinalityType
    <3>7. QED BY <2>2, <2>3, <2>4, <3>2, <3>3, <3>5, <3>6
  <2>6. CASE task[t].cmd # k
    <3>1. MadeFor(k)' \subseteq MadeFor(k)
      BY <1>11, <1>13, <2>6 DEF MadeFor
    <3>2. Cardinality(MadeFor(k)') <= Cardinality(MadeFor(k)) /\ Cardinality(MadeFor(k)') \in Nat
      BY <2>2, <3>1, FS_Subset, FS_CardinalityType
    <3>3. ASSUME Unspent(k)' PROVE Unspent(k)
      <4>1. ASSUME NEW u \in Pollers, task[u] # Idle, task[u].cmd = k PROVE task[u].at \in Ahead
        <5>1. u # t /\ task'[u] = task[u]
          BY <1>10, <2>6, <4>1 DEF Tasks
        <5>2. QED BY <3>3, <4>1, <5>1 DEF Unspent
      <4>2. k > seen
        BY <1>0, <3>3 DEF Unspent
      <4>3. QED BY <4>1, <4>2 DEF Unspent
    <3>4. QED BY <2>2, <2>3, <2>4, <3>2, <3>3
  <2>7. QED BY <2>5, <2>6
<1>22. Picking'
  <2>1. ~Mapped(c)
    BY <1>3 DEF CommandsInv, Hands
  <2>2. /\ \A d \in PickedUp : d \in Made /\ d \in PickedUp'
        /\ \A d \in PickedUp' : d \in Channels /\ (d \in PickedUp \/ d = c)
        /\ \A d \in PickedUp' : Mapped(d) => d \in PickedUp
        /\ c \in PickedUp' => Kind(t) = "pickup"
    BY <1>11, <1>13, <2>1 DEF PickedUp, Made
  <2>3. ASSUME NEW d \in Channels, NEW e \in Made', d < e PROVE d \in Made'
    <3>1. CASE e \in Made
      BY <1>14, <2>3, <3>1 DEF CommandsInv, Picking
    <3>2. CASE e = c
      <4>1. ~(c <= d)
        BY <1>4, <2>3, <3>2
      <4>2. QED BY <1>3, <1>14, <4>1
    <3>3. QED BY <1>14, <3>1, <3>2
  <2>4. ASSUME NEW d \in PickedUp' PROVE maker'[d].cmd \in 1 .. Len(commands)
    <3>1. CASE d = c
      <4>1. Kind(t) = "pickup"
        BY <2>2, <2>4, <3>1
      <4>2. t \in Pollers
        BY <1>1, <4>1, CreateKinds DEF Tasks
      <4>3. task[t].cmd \in 1 .. Len(commands)
        BY <1>1, <1>2, <4>2, PollPlaces DEF At
      <4>4. QED BY <1>11, <1>13, <3>1, <4>3
    <3>2. CASE d # c
      BY <1>13, <2>2, <3>2 DEF CommandsInv, Picking
    <3>3. QED BY <3>1, <3>2
  <2>5. \A k : Exact(k)' = Exact(k)
    BY <1>0 DEF Exact
  <2>6. \A y : Rebinds(y) => Rebinds(y)'
    BY <1>0, <1>15, <2>2 DEF Rebinds
  <2>7. ASSUME NEW u \in Pollers \ {t} PROVE (Kind(u)' = "pickup" => Picks(task[u])') /\ Rebinds(task[u])'
    <3>0. u \in Tasks
      BY DEF Tasks
    <3>1. PICK y : y = task[u] /\ y = task'[u] /\ Rebinds(y) /\ (y.kind = "pickup" => Picks(y)) /\ HasChannel(y)
      BY <1>10, <3>0 DEF CommandsInv, Picking, Kind, Hands
    <3>2. ASSUME y.kind = "pickup" PROVE Picks(y)'
      <4>1. Picks(y)
        BY <3>1, <3>2
      <4>2. CASE y.at = "ensure"
        <5>1. y # Idle /\ "ensure" \in Places("pickup")
          BY <4>2 DEF Idle, Places
        <5>2. t \notin Pollers
          BY <1>2, <3>1, <5>1 DEF CommandsInv, Stages, SolePoll
        <5>3. c \notin PickedUp'
          BY <1>1, <2>2, <5>2, CreateKinds DEF Tasks
        <5>4. y.ch \in Made
          BY <3>1, <4>2 DEF HasChannel, ChannelPlaces
        <5>5. maker'[y.ch] = maker[y.ch]
          BY <1>13, <5>4
        <5>6. \A d \in PickedUp' : d \in PickedUp
          BY <2>2, <5>3
        <5>7. QED BY <1>0, <1>15, <2>5, <4>1, <4>2, <5>5, <5>6 DEF Picks
      <4>3. CASE y.at # "ensure"
        BY <1>0, <1>15, <2>2, <2>5, <4>1, <4>3 DEF Picks
      <4>4. QED BY <4>2, <4>3
    <3>3. Rebinds(y)'
      BY <2>6, <3>1
    <3>4. QED BY <3>1, <3>2, <3>3 DEF Picks, Rebinds, Kind
  <2>8. ASSUME t \in Pollers PROVE (Kind(t)' = "pickup" => Picks(task[t])') /\ Rebinds(task[t])'
    <3>1. Rebinds(x)'
      BY <1>9 DEF Rebinds
    <3>2. ASSUME x.kind = "pickup" PROVE Picks(x)'
      <4>1. Picks(task[t]) /\ task[t].at = "create"
        BY <1>1, <1>9, <2>8, <3>2 DEF CommandsInv, Picking, Kind, SameCommand, At
      <4>2. x.label \in Threads
        BY <1>9, <4>1 DEF Picks
      <4>3. ASSUME Exact(x.cmd), NEW d \in PickedUp', Mapped(d) PROVE mapping[d].label # x.label
        BY <1>9, <2>2, <4>1, <4>3 DEF Picks, SameCommand
      <4>4. maker'[c].cmd = x.cmd
        BY <1>9, <1>11, <1>13 DEF SameCommand
      <4>5. ASSUME NEW d \in PickedUp' PROVE d <= c
        <5>1. CASE d = c
          BY <1>4, <5>1
        <5>2. CASE d # c
          <6>1. d \in Made /\ d \in Channels /\ d \in Nat
            BY <1>4, <2>2, <5>2
          <6>2. ~(c < d)
            BY <1>3, <6>1 DEF CommandsInv, Picking
          <6>3. QED BY <1>4, <6>1, <6>2
        <5>3. QED BY <5>1, <5>2
      <4>6. QED BY <1>0, <1>9, <1>15, <2>5, <4>2, <4>3, <4>4, <4>5 DEF Picks
    <3>3. QED BY <1>10, <3>1, <3>2 DEF Picks, Rebinds, Kind
  <2>9. ASSUME NEW d \in PickedUp', NEW e \in PickedUp', Mapped(d), Mapped(e), d < e, mapping[d].label = mapping[e].label
        PROVE  ~Exact(maker'[e].cmd)
    <3>1. d \in PickedUp /\ e \in PickedUp /\ e \in Made
      BY <2>2, <2>9
    <3>2. maker'[e] = maker[e]
      BY <1>13, <3>1
    <3>3. QED BY <2>9, <3>1, <3>2 DEF CommandsInv, Picking
  <2>10. \A d \in PickedUp' : Mapped(d) => mapping[d].label \in Threads
    BY <2>2 DEF CommandsInv, Picking
  <2>11. \A u \in Pollers : (Kind(u)' = "pickup" => Picks(task[u])') /\ Rebinds(task[u])'
    BY <2>7, <2>8
  <2>12. QED BY <1>0, <1>15, <2>3, <2>4, <2>5, <2>9, <2>10, <2>11 DEF Picking
<1>23. QED BY <1>17, <1>18, <1>19, <1>20, <1>21, <1>22 DEF CommandsInv
-----------------------------------------------------------------------------
(* The first prompt of a channel, and what operators request.                *)

LEMMA FirstPromptInv == ASSUME CommandsInv, NEW c \in Channels, FirstPrompt(c) PROVE CommandsInv'
<1>1. /\ Mapped(c) /\ mapping[c].label = 0
      /\ UNCHANGED <<channel, polling, task, discord, registryVars, faults, history>>
  BY DEF FirstPrompt
<1>2. PICK l \in Threads : BindChannel(c, l)
  BY DEF FirstPrompt
<1>3. PICK m : Maps(c, m)
  BY <1>2, Bound, CommandsAssumption DEF CommandsAssumption
<1>0. UNCHANGED <<script, commands, runs, workers, maker, cut, left, seen, list, activeRun, polling, task, discord, faults>>
  BY <1>1, <1>3 DEF channel, registryVars, history, Maps
<1>4. c \in Made /\ c \notin PickedUp
  <2>1. 0 \notin Threads
    BY CommandsAssumption DEF CommandsAssumption
  <2>2. QED BY <1>1, <2>1 DEF CommandsInv, Hands, Picking
<1>5. /\ mapping' \in [Channels -> MappingState]
      /\ \A d \in Channels \ {c} : mapping'[d] = mapping[d]
      /\ \A d : Mapped(d)' <=> Mapped(d)
      /\ \A d \in Channels : (Mapped(d)' => d \in Made /\ mapping'[d].short > 0) /\ mapping'[d].short < nextShort'
  BY <1>0, <1>1, <1>3, <1>4, MappingsAfter
<1>6. /\ Made' = Made /\ OfWorkers' = OfWorkers /\ PickedUp' = PickedUp
      /\ \A k : MadeFor(k)' = MadeFor(k)
  BY <1>0 DEF Made, OfWorkers, PickedUp, MadeFor
<1>7. CommandTypes'
  BY <1>0, <1>3, <1>5 DEF CommandsInv, CommandTypes, Maps
<1>8. Stages'
  BY <1>0 DEF CommandsInv, Stages, Polls, Serves, SolePoll
<1>9. Hands'
  <2>1. \A y : HasChannel(y)' = HasChannel(y) /\ HasEntry(y)' = HasEntry(y)
    BY <1>0, <1>6 DEF HasChannel, HasEntry
  <2>2. QED BY <1>0, <1>5, <1>6, <2>1 DEF CommandsInv, Hands
<1>10. Known'
  BY <1>0, <1>5, <1>6 DEF CommandsInv, Known, At, Ch
<1>11. Counted'
  <2>1. \A k : Unspent(k)' = Unspent(k)
    BY <1>0 DEF Unspent
  <2>2. QED BY <1>0, <1>6, <2>1 DEF CommandsInv, Counted
<1>12. Picking'
  <2>1. \A d \in PickedUp : mapping'[d] = mapping[d]
    BY <1>4, <1>5 DEF PickedUp
  <2>2. \A y : Picks(y)' = Picks(y) /\ Rebinds(y)' = Rebinds(y)
    BY <1>0, <1>5, <1>6, <2>1 DEF Picks, Rebinds, Exact
  <2>3. QED BY <1>0, <1>5, <1>6, <2>1, <2>2 DEF CommandsInv, Picking, Exact, Kind
<1>13. QED BY <1>7, <1>8, <1>9, <1>10, <1>11, <1>12 DEF CommandsInv

LEMMA OperatorBegins ==
  ASSUME CommandsInv, NEW t \in Operators, At(t, "idle"),
         NEW x \in TaskState, Serves(x), HasChannel(x), HasEntry(x), x.at \notin {"ensure", "unmap"},
         task' = [task EXCEPT ![t] = x],
         UNCHANGED <<channel, polling, discord, storeVars, registryVars, faults, history>>
  PROVE  CommandsInv'
<1>0. UNCHANGED <<script, commands, runs, workers, maker, cut, left, seen, list, activeRun, polling, mapping, nextShort, discord, faults>>
  BY DEF channel, registryVars, history, storeVars
<1>1. /\ task \in [Tasks -> TaskState] /\ task'[t] = x /\ \A u \in Tasks \ {t} : task'[u] = task[u]
      /\ t \in Tasks
  BY DEF CommandsInv, CommandTypes, Tasks
<1>2. \A u \in Pollers : task'[u] = task[u]
  BY <1>1, CommandsAssumption DEF Tasks, CommandsAssumption
<1>3. CommandTypes'
  BY <1>0, <1>1 DEF CommandsInv, CommandTypes
<1>4. /\ Made' = Made /\ OfWorkers' = OfWorkers /\ PickedUp' = PickedUp
      /\ \A k : MadeFor(k)' = MadeFor(k)
      /\ \A d : Mapped(d)' = Mapped(d)
  BY <1>0 DEF Made, OfWorkers, PickedUp, MadeFor, Mapped
<1>5. Stages'
  <2>1. \A y : Polls(y)' = Polls(y) /\ Serves(y)' = Serves(y)
    BY <1>0 DEF Polls, Serves
  <2>2. \A u \in Operators : Serves(task'[u])
    BY <1>1 DEF CommandsInv, Stages, Tasks
  <2>3. QED BY <1>0, <1>2, <2>1, <2>2 DEF CommandsInv, Stages, SolePoll
<1>6. Hands'
  <2>1. \A y : HasChannel(y)' = HasChannel(y) /\ HasEntry(y)' = HasEntry(y)
    BY <1>0, <1>4 DEF HasChannel, HasEntry
  <2>2. \A u \in Tasks : HasChannel(task'[u]) /\ HasEntry(task'[u])
    BY <1>1 DEF CommandsInv, Hands
  <2>3. QED BY <1>0, <1>4, <2>1, <2>2 DEF CommandsInv, Hands
<1>7. Known'
  <2>1. \A u \in Tasks : At(u, "ensure") => task'[u] = task[u]
    BY <1>1 DEF At
  <2>2. \A u \in Tasks : At(u, "unmap")' => task'[u] = task[u]
    BY <1>1 DEF At
  <2>3. QED BY <1>0, <1>4, <2>1, <2>2 DEF CommandsInv, Known, At, Ch
<1>8. Counted'
  <2>1. \A k : Unspent(k)' = Unspent(k)
    BY <1>0, <1>2 DEF Unspent
  <2>2. QED BY <1>0, <1>4, <2>1 DEF CommandsInv, Counted
<1>9. Picking'
  <2>1. \A y : Picks(y)' = Picks(y) /\ Rebinds(y)' = Rebinds(y)
    BY <1>0, <1>4 DEF Picks, Rebinds, Exact
  <2>2. QED BY <1>0, <1>2, <1>4, <2>1 DEF CommandsInv, Picking, Exact, Kind
<1>10. QED BY <1>3, <1>5, <1>6, <1>7, <1>8, <1>9 DEF CommandsInv

LEMMA OperatorRequestInv ==
  ASSUME CommandsInv, NEW t \in Operators, NEW kind, OperatorRequest(t, kind) PROVE CommandsInv'
<1>1. At(t, "idle") /\ UNCHANGED <<channel, polling, discord, storeVars, registryVars, faults, history>>
  BY DEF OperatorRequest
<1>2. Idle \in TaskState /\ Idle.ch = 0 /\ Idle.todo = {} /\ Idle.cmd = 0
  BY IdleTyped DEF Idle
<1>3. ASSUME NEW k \in {"start thread", "bind channel"}, NEW l \in {0} \cup Titles,
             task' = [task EXCEPT ![t] = [Idle EXCEPT !.at = "create", !.kind = k, !.label = l]]
      PROVE  CommandsInv'
  <2>1. PICK x : x = [Idle EXCEPT !.at = "create", !.kind = k, !.label = l]
    OBVIOUS
  <2>2. x \in TaskState /\ x.at = "create" /\ x.kind = k /\ x.ch = 0 /\ x.todo = {} /\ x.cmd = 0
    BY <1>2, <2>1 DEF TaskState, Spots, Kinds
  <2>3. Serves(x)
    BY <2>2 DEF Serves
  <2>4. HasChannel(x)
    BY <2>2 DEF HasChannel, ChannelPlaces, ThreadPlaces, ClosePlaces
  <2>5. HasEntry(x)
    BY <2>2 DEF HasEntry, RunPlaces
  <2>6. QED BY <1>1, <1>3, <2>1, <2>2, <2>3, <2>4, <2>5, OperatorBegins
<1>4. ASSUME task' = [task EXCEPT ![t] = [Idle EXCEPT !.at = "create", !.kind = "start thread"]] PROVE CommandsInv'
  <2>1. PICK x : x = [Idle EXCEPT !.at = "create", !.kind = "start thread"]
    OBVIOUS
  <2>2. x \in TaskState /\ x.at = "create" /\ x.kind = "start thread" /\ x.ch = 0 /\ x.todo = {} /\ x.cmd = 0
    BY <1>2, <2>1 DEF TaskState, Spots, Kinds
  <2>3. Serves(x)
    BY <2>2 DEF Serves
  <2>4. HasChannel(x)
    BY <2>2 DEF HasChannel, ChannelPlaces, ThreadPlaces, ClosePlaces
  <2>5. HasEntry(x)
    BY <2>2 DEF HasEntry, RunPlaces
  <2>6. QED BY <1>1, <1>4, <2>1, <2>2, <2>3, <2>4, <2>5, OperatorBegins
<1>5. ASSUME NEW c \in Channels, Mapped(c),
             task' = [task EXCEPT ![t] = [Idle EXCEPT !.at = "close", !.kind = "close", !.ch = c, !.todo = {c}]]
      PROVE  CommandsInv'
  <2>1. PICK x : x = [Idle EXCEPT !.at = "close", !.kind = "close", !.ch = c, !.todo = {c}]
    OBVIOUS
  <2>2. x \in TaskState /\ x.at = "close" /\ x.kind = "close" /\ x.ch = c /\ x.todo = {c} /\ x.cmd = 0
    BY <1>2, <2>1 DEF TaskState, Spots, Kinds
  <2>3. Serves(x)
    BY <2>2 DEF Serves, ClosePlaces
  <2>4. HasChannel(x)
    <3>1. c \in Made /\ c # 0
      BY <1>5, CommandsAssumption DEF CommandsInv, Hands, CommandsAssumption
    <3>2. QED BY <2>2, <3>1 DEF HasChannel, MakerKinds, WorkerKinds
  <2>5. HasEntry(x)
    BY <2>2 DEF HasEntry, RunPlaces
  <2>6. QED BY <1>1, <1>5, <2>1, <2>2, <2>3, <2>4, <2>5, OperatorBegins
<1>6. QED BY <1>3, <1>4, <1>5 DEF OperatorRequest

-----------------------------------------------------------------------------
(* Failures.                                                                 *)

Done == [Idle EXCEPT !.at = "done"]

LEMMA DoneTyped == Done \in TaskState /\ Done.at = "done" /\ Done.ch = 0 /\ Serves(Done)' /\ HasChannel(Done)' /\ HasEntry(Done)'
<1>1. PICK x : x = Done
  OBVIOUS
<1>2. x \in TaskState
  BY <1>1, IdleTyped DEF Done, TaskState, Spots
<1>3. x.at = "done" /\ x.ch = 0 /\ x.cmd = 0 /\ x.kind = "none" /\ x.todo = {}
  BY <1>1 DEF Done, Idle
<1>4. Serves(x)'
  BY <1>3 DEF Serves
<1>5. HasChannel(x)' /\ HasEntry(x)'
  BY <1>3 DEF HasChannel, HasEntry, ChannelPlaces, ThreadPlaces, ClosePlaces, MakerKinds, WorkerKinds, RunPlaces
<1>6. Serves(Done)' /\ HasChannel(Done)' /\ HasEntry(Done)'
  BY <1>1, <1>4, <1>5 DEF Serves, HasChannel, HasEntry
<1>7. QED BY <1>1, <1>2, <1>3, <1>6

LEMMA IdleServes == Serves(Idle)' /\ HasChannel(Idle)' /\ HasEntry(Idle)' /\ Idle.at = "idle" /\ Idle.kind = "none"
<1>1. PICK x : x = Idle
  OBVIOUS
<1>2. x.at = "idle" /\ x.ch = 0 /\ x.cmd = 0 /\ x.kind = "none" /\ x.todo = {}
  BY <1>1 DEF Idle
<1>3. Serves(x)'
  BY <1>1, <1>2 DEF Serves
<1>4. HasChannel(x)' /\ HasEntry(x)'
  BY <1>2 DEF HasChannel, HasEntry, ChannelPlaces, ThreadPlaces, ClosePlaces, MakerKinds, WorkerKinds, RunPlaces
<1>5. QED BY <1>1, <1>2, <1>3, <1>4 DEF Serves, HasChannel, HasEntry

LEMMA PollHandles == ASSUME CommandsInv, NEW t \in Pollers, task[t] # Idle PROVE Handling(t)
<1>1. "idle" \notin Places(Kind(t)) /\ "done" \notin Places(Kind(t))
  BY DEF Places, ThreadPlaces, ClosePlaces
<1>2. QED BY <1>1 DEF CommandsInv, Stages, Polls, Handling, Kind
\* The tasks in ts fail: what they had in hand is left, and their commands are cut
\* short.  Those at no place stay there.
LEMMA CutShort ==
  ASSUME CommandsInv, NEW ts \in SUBSET Tasks, task' \in [Tasks -> TaskState],
         \A u \in Tasks : task'[u] = Idle \/ (u \in Operators /\ task'[u] = Done) \/ (u \notin ts /\ task'[u] = task[u]),
         \A u \in Tasks \ ts : Handling(u) => task'[u] = task[u],
         polling' \in BOOLEAN, \A u \in Pollers : task'[u] # Idle => polling',
         seen' \in 0 .. Len(commands), seen <= seen',
         seen' = seen \/ \A u \in Pollers : task'[u] = Idle,
         faults' \in 0 .. MaxFaults, left' = Lets(ts), cut' = Cuts(ts),
         UNCHANGED <<channel, discord, mapping, nextShort, list, activeRun, registryVars, maker>>
  PROVE  CommandsInv'
<1>0. UNCHANGED <<script, commands, runs, workers, maker, mapping, nextShort, list, activeRun, discord>>
  BY DEF channel, registryVars
<1>1. /\ Made' = Made /\ OfWorkers' = OfWorkers /\ PickedUp' = PickedUp
      /\ \A k : MadeFor(k)' = MadeFor(k)
      /\ \A d : Mapped(d)' = Mapped(d)
  BY <1>0 DEF Made, OfWorkers, PickedUp, MadeFor, Mapped
<1>2. task \in [Tasks -> TaskState] /\ cut \in [Numbers -> Nat] /\ left \subseteq Channels
  BY DEF CommandsInv, CommandTypes
<1>3. left' \subseteq Channels /\ left \subseteq left'
  BY <1>2 DEF Lets, TaskState, Ch
<1>4. cut' \in [Numbers -> Nat]
  BY <1>2 DEF Cuts
<1>5. CommandTypes'
  BY <1>0, <1>3, <1>4 DEF CommandsInv, CommandTypes
<1>6. \A u \in Pollers : task'[u] = Idle \/ (u \notin ts /\ task'[u] = task[u])
  BY CommandsAssumption DEF Tasks, CommandsAssumption
<1>7. Stages'
  <2>1. ASSUME NEW u \in Pollers PROVE Polls(task[u])'
    <3>1. CASE task'[u] = Idle
      BY <3>1 DEF Polls
    <3>2. CASE task'[u] # Idle
      <4>1. task'[u] = task[u] /\ seen' = seen
        BY <1>6, <3>2
      <4>2. QED BY <1>0, <4>1 DEF CommandsInv, Stages, Polls
    <3>3. QED BY <3>1, <3>2
  <2>2. ASSUME NEW u \in Operators PROVE Serves(task[u])'
    <3>1. CASE task'[u] = Idle
      BY <3>1, IdleServes DEF Serves
    <3>2. CASE task'[u] = Done
      BY <3>2, DoneTyped DEF Serves
    <3>3. CASE task'[u] = task[u]
      BY <3>3 DEF CommandsInv, Stages, Serves
    <3>4. QED BY <3>1, <3>2, <3>3 DEF Tasks
  <2>3. SolePoll'
    BY <1>6 DEF CommandsInv, Stages, SolePoll
  <2>4. QED BY <2>1, <2>2, <2>3 DEF Stages
<1>8. Hands'
  <2>1. ASSUME NEW u \in Tasks PROVE (HasChannel(task[u]) /\ HasEntry(task[u]))'
    <3>1. CASE task'[u] = Idle
      BY <3>1, IdleServes DEF HasChannel, HasEntry
    <3>2. CASE task'[u] = Done
      BY <3>2, DoneTyped DEF HasChannel, HasEntry
    <3>3. CASE task'[u] = task[u]
      BY <1>0, <1>1, <3>3 DEF CommandsInv, Hands, HasChannel, HasEntry
    <3>4. QED BY <3>1, <3>2, <3>3
  <2>2. QED BY <1>0, <1>1, <2>1 DEF CommandsInv, Hands
<1>9. Known'
  <2>1. ASSUME NEW d \in discord PROVE (Mapped(d) \/ d \in left \/ \E u \in Tasks : At(u, "ensure") /\ Ch(u) = d)'
    <3>1. CASE Mapped(d) \/ d \in left
      BY <1>1, <1>3, <3>1
    <3>2. ASSUME NEW u \in Tasks, At(u, "ensure"), Ch(u) = d
          PROVE  (d \in left \/ \E w \in Tasks : At(w, "ensure") /\ Ch(w) = d)'
      <4>1. CASE u \in ts
        <5>1. d # 0
          BY CommandsAssumption DEF CommandsInv, CommandTypes, CommandsAssumption
        <5>2. QED BY <3>2, <4>1, <5>1 DEF Lets
      <4>2. CASE u \notin ts
        <5>1. Handling(u)
          BY <3>2 DEF Handling, At
        <5>2. task'[u] = task[u]
          BY <4>2, <5>1
        <5>3. QED BY <3>2, <5>2 DEF At, Ch
      <4>3. QED BY <4>1, <4>2
    <3>3. QED BY <3>1, <3>2 DEF CommandsInv, Known
  <2>2. ASSUME NEW u \in Tasks, At(u, "unmap")' PROVE Ch(u)' \notin discord'
    <3>1. task'[u] = task[u]
      BY <2>2, IdleServes, DoneTyped DEF At
    <3>2. QED BY <1>0, <2>2, <3>1 DEF CommandsInv, Known, At, Ch
  <2>3. QED BY <1>0, <1>1, <2>1, <2>2 DEF CommandsInv, Known
<1>10. Counted'
  <2>1. SUFFICES ASSUME NEW k \in Numbers
                 PROVE  /\ Cardinality(MadeFor(k)) <= cut'[k] + 1
                        /\ Unspent(k)' => Cardinality(MadeFor(k)) <= cut'[k]
    BY <1>1 DEF Counted
  <2>2. /\ Cardinality(MadeFor(k)) \in Nat /\ Cardinality(Channels) \in Nat
        /\ Cardinality(MadeFor(k)) <= Cardinality(Channels)
    <3>1. MadeFor(k) \subseteq Channels /\ IsFiniteSet(Channels)
      BY CommandsAssumption DEF MadeFor, CommandsAssumption
    <3>2. QED BY <3>1, FS_Subset, FS_CardinalityType
  <2>3. /\ cut[k] \in Nat /\ k \in Nat
        /\ Cardinality(MadeFor(k)) <= cut[k] + 1
        /\ Unspent(k) => Cardinality(MadeFor(k)) <= cut[k]
    BY <1>2, SeenTyped, CommandsAssumption DEF CommandsInv, Counted
  <2>4. cut'[k] = IF (\E u \in ts : task[u].cmd = k) /\ cut[k] < Cardinality(Channels) THEN cut[k] + 1 ELSE cut[k]
    BY DEF Cuts
  <2>5. CASE \E u \in ts : task[u].cmd = k
    BY <2>2, <2>3, <2>4, <2>5
  <2>6. CASE ~\E u \in ts : task[u].cmd = k
    <3>1. cut'[k] = cut[k]
      BY <2>4, <2>6
    <3>2. ASSUME Unspent(k)' PROVE Unspent(k)
      <4>1. k > seen
        <5>1. seen \in Nat /\ seen' \in Nat /\ k > seen'
          BY <3>2, SeenTyped, CommandsAssumption DEF Unspent
        <5>2. QED BY <2>3, <5>1
      <4>2. ASSUME NEW u \in Pollers, task[u] # Idle, task[u].cmd = k PROVE task[u].at \in Ahead
        <5>1. u \notin ts /\ u \in Tasks
          BY <2>6, <4>2 DEF Tasks
        <5>2. task'[u] = task[u]
          BY <4>2, <5>1, PollHandles
        <5>3. QED BY <3>2, <4>2, <5>2 DEF Unspent
      <4>3. QED BY <4>1, <4>2 DEF Unspent
    <3>3. QED BY <2>3, <3>1, <3>2
  <2>7. QED BY <2>5, <2>6
<1>11. Picking'
  <2>1. \A y : Picks(y)' = Picks(y) /\ Rebinds(y)' = Rebinds(y)
    BY <1>0, <1>1 DEF Picks, Rebinds, Exact
  <2>2. Rebinds(Idle)
    BY IdleServes DEF Rebinds
  <2>3. \A u \in Pollers : (Kind(u)' = "pickup" => Picks(task'[u])) /\ Rebinds(task'[u])
    BY <1>6, <2>2, IdleServes DEF CommandsInv, Picking, Kind
  <2>4. QED BY <1>0, <1>1, <2>1, <2>3 DEF CommandsInv, Picking, Exact
<1>12. QED BY <1>5, <1>7, <1>8, <1>9, <1>10, <1>11 DEF CommandsInv

\* An error of a registry command is reported.
LEMMA FailsCaught ==
  ASSUME CommandsInv, NEW t \in Tasks, Fails(t), Caught(t), faults' \in 0 .. MaxFaults PROVE CommandsInv'
<1>1. /\ Handling(t) /\ GoTo(t, "report") /\ left' = Lets({t})
      /\ UNCHANGED <<channel, discord, storeVars, registryVars, maker, polling, cut>>
      /\ Kind(t) \in OnRegistry
  BY DEF Fails, Caught
<1>0. UNCHANGED <<script, commands, runs, workers, maker, cut, seen, list, activeRun, mapping, nextShort, polling, discord>>
  BY <1>1 DEF channel, registryVars, storeVars
<1>2. task[t] # Idle /\ task[t].at # "done"
  BY <1>1 DEF Handling, Idle
<1>3. t \in Pollers /\ t \notin Operators
  BY <1>1, <1>2, OperatorPlaces DEF Tasks, OnRegistry, OnActiveRun
<1>4. task[t].at \notin {"turns", "told"}
  BY <1>1, TurnKind DEF OnRegistry, OnActiveRun, Kind
<1>5. PICK x \in TaskState :
        MovesOn(t, x) /\ HasEntry(x) /\ x.at = "report" /\ x.ch = Ch(t) /\ task' = [task EXCEPT ![t] = x]
  <2>1. MayGo(t, "report")
    BY <1>3, <1>4 DEF MayGo
  <2>2. "report" \in Spots \ {"idle"} /\ "report" \notin Ahead \cup ChannelPlaces \cup RunPlaces \cup ClosePlaces \cup WorkerPlaces
    BY DEF Spots, Ahead, ChannelPlaces, RunPlaces, ClosePlaces, WorkerPlaces, ThreadPlaces
  <2>3. QED BY <1>1, <1>2, <2>1, <2>2, GoesTo
<1>6. left' \subseteq Channels /\ left \subseteq left'
  <2>1. task[t] \in TaskState /\ left \subseteq Channels
    BY DEF CommandsInv, CommandTypes
  <2>2. QED BY <1>1, <2>1 DEF Lets, TaskState, Ch
<1>7. \A c : Mapped(c)' = Mapped(c)
  BY <1>0 DEF Mapped
<1>8. /\ CommandTypes' /\ Stages' /\ Hands' /\ Counted'
      /\ Made' = Made /\ PickedUp' = PickedUp
      /\ task \in [Tasks -> TaskState] /\ task'[t] = x /\ \A u \in Tasks \ {t} : task'[u] = task[u]
  <2>1. RestTyped' /\ Grows
    <3>1. Len(runs) \in Nat /\ Len(workers) \in Nat
      BY DEF CommandsInv, CommandTypes
    <3>2. OfWorkers' = OfWorkers
      BY <1>0 DEF OfWorkers
    <3>3. QED BY <1>0, <3>1, <3>2, RestKept DEF RestTyped, Grows
  <2>2. HasEntry(x)'
    BY <1>0, <1>5 DEF HasEntry
  <2>3. discord' \subseteq Channels /\ mapping' \in [Channels -> MappingState] /\ nextShort' \in Nat \ {0}
    BY <1>0 DEF CommandsInv, CommandTypes
  <2>4. \A c \in Channels : (Mapped(c)' => c \in Made /\ mapping'[c].short > 0) /\ mapping'[c].short < nextShort'
    BY <1>0, <1>7 DEF CommandsInv, Hands
  <2>5. QED BY <1>0, <1>1, <1>2, <1>5, <1>6, <2>1, <2>2, <2>3, <2>4, Advance
<1>9. Known'
  <2>1. \A u \in Tasks \ {t} : task'[u] = task[u]
    BY <1>8
  <2>2. \A u \in Tasks : At(u, "unmap")' => task'[u] = task[u]
    BY <1>5, <1>8 DEF At
  <2>3. \A d \in Channels : d # 0
    BY CommandsAssumption DEF CommandsAssumption
  <2>4. At(t, "ensure") /\ Ch(t) # 0 => Ch(t) \in left'
    BY <1>1 DEF Lets
  <2>5. discord \subseteq Channels
    BY DEF CommandsInv, CommandTypes
  <2>6. QED BY <1>0, <1>6, <1>7, <1>8, <2>1, <2>2, <2>3, <2>4, <2>5 DEF CommandsInv, Known, At, Ch
<1>10. Picking'
  <2>1. \A y : Picks(y)' = Picks(y) /\ Rebinds(y)' = Rebinds(y)
    BY <1>0, <1>7, <1>8 DEF Picks, Rebinds, Exact
  <2>2. Picks(x) /\ Rebinds(x)
    BY <1>5 DEF Picks, Rebinds
  <2>3. \A u \in Pollers : (Kind(u)' = "pickup" => Picks(task'[u])) /\ Rebinds(task'[u])
    BY <1>8, <2>2 DEF CommandsInv, Picking, Tasks, Kind
  <2>4. QED BY <1>0, <1>7, <1>8, <2>1, <2>3 DEF CommandsInv, Picking, Exact
<1>11. QED BY <1>8, <1>9, <1>10 DEF CommandsInv

LEMMA FailsInv == ASSUME CommandsInv, NEW t \in Tasks, Fails(t) PROVE CommandsInv'
<1>1. faults' \in 0 .. MaxFaults
  <2>1. faults \in 0 .. MaxFaults /\ MaxFaults \in Nat
    BY CommandsAssumption DEF CommandsInv, CommandTypes, CommandsAssumption
  <2>2. CASE Futile(t)
    BY <2>1, <2>2 DEF Fails
  <2>3. CASE ~Futile(t)
    BY <2>1, <2>3 DEF Fails
  <2>4. QED BY <2>2, <2>3
<1>2. CASE ~Caught(t)
  <2>1. /\ left' = Lets({t}) /\ cut' = Cuts({t})
        /\ task' = [task EXCEPT ![t] = IF t \in Pollers THEN Idle ELSE Done]
        /\ polling' = (polling /\ t \notin Pollers)
        /\ UNCHANGED <<channel, discord, storeVars, registryVars, maker>> /\ Handling(t)
    BY <1>2 DEF Fails, Done
  <2>2. task \in [Tasks -> TaskState] /\ polling \in BOOLEAN
    BY DEF CommandsInv, CommandTypes
  <2>3. task[t] # Idle
    BY <2>1 DEF Handling, Idle
  <2>4. PICK y \in TaskState : y = IF t \in Pollers THEN Idle ELSE Done
    BY IdleTyped, DoneTyped
  <2>5. task' = [task EXCEPT ![t] = y]
    BY <2>1, <2>4
  <2>6. task' \in [Tasks -> TaskState] /\ task'[t] = y /\ \A u \in Tasks \ {t} : task'[u] = task[u]
    BY <2>2, <2>5
  <2>7. \A u \in Tasks : task'[u] = Idle \/ (u \in Operators /\ task'[u] = Done) \/ (u \notin {t} /\ task'[u] = task[u])
    BY <2>4, <2>6 DEF Tasks
  <2>8. polling' \in BOOLEAN /\ \A u \in Pollers : task'[u] # Idle => polling'
    <3>1. CASE t \in Pollers
      <4>1. polling' = FALSE
        BY <2>1, <3>1
      <4>2. \A u \in Pollers : task'[u] = Idle
        BY <2>3, <2>4, <2>6, <3>1 DEF CommandsInv, Stages, SolePoll, Tasks
      <4>3. QED BY <4>1, <4>2
    <3>2. CASE t \notin Pollers
      <4>1. polling' = polling
        BY <2>1, <2>2, <3>2
      <4>2. \A u \in Pollers : task'[u] = task[u]
        BY <2>6, <3>2 DEF Tasks
      <4>3. QED BY <2>2, <4>1, <4>2 DEF CommandsInv, Stages, SolePoll
    <3>3. QED BY <3>1, <3>2
  <2>9. seen' = seen /\ seen' \in 0 .. Len(commands) /\ seen <= seen'
    BY <2>1, SeenTyped, CommandsAssumption DEF storeVars
  <2>10. UNCHANGED <<channel, discord, mapping, nextShort, list, activeRun, registryVars, maker>>
    BY <2>1 DEF storeVars
  <2>11. \A u \in Tasks \ {t} : Handling(u) => task'[u] = task[u]
    BY <2>6
  <2>12. QED BY <1>1, <2>1, <2>6, <2>7, <2>8, <2>9, <2>10, <2>11, CutShort
<1>3. QED BY <1>1, <1>2, FailsCaught

LEMMA RestartInv == ASSUME CommandsInv, Restart PROVE CommandsInv'
<1>1. PICK ts \in SUBSET Tasks : ts = {t \in Tasks : Handling(t)}
  OBVIOUS
<1>2. /\ faults < MaxFaults /\ faults' = faults + 1 /\ polling' = FALSE
      /\ task' = [t \in Tasks |-> IF t \in Pollers \/ At(t, "idle") THEN Idle ELSE Done]
      /\ seen' = IF seen = 0 THEN Len(commands) ELSE seen
      /\ left' = Lets(ts) /\ cut' = Cuts(ts)
      /\ UNCHANGED <<channel, discord, mapping, nextShort, list, activeRun, registryVars, maker>>
  BY <1>1 DEF Restart, Done
<1>3. /\ task' \in [Tasks -> TaskState]
      /\ \A u \in Tasks : task'[u] = Idle \/ (u \in Operators /\ task'[u] = Done)
      /\ \A u \in Pollers : task'[u] = Idle
  BY <1>2, IdleTyped, DoneTyped DEF Tasks
<1>4. seen' \in 0 .. Len(commands) /\ seen <= seen'
  BY <1>2, SeenTyped, CommandsAssumption
<1>5. faults' \in 0 .. MaxFaults
  BY <1>2, CommandsAssumption DEF CommandsInv, CommandTypes, CommandsAssumption
<1>6. \A u \in Tasks \ ts : Handling(u) => task'[u] = task[u]
  BY <1>1
<1>7. polling' \in BOOLEAN /\ \A u \in Pollers : task'[u] # Idle => polling'
  BY <1>2, <1>3
<1>8. QED BY <1>2, <1>3, <1>4, <1>5, <1>6, <1>7, CutShort
-----------------------------------------------------------------------------
(* Every step.                                                               *)

LEMMA HandleInv == ASSUME CommandsInv, NEW t \in Tasks, Handle(t) PROVE CommandsInv'
<1>1. CASE Say(t) \/ MarkSeen(t) \/ RecordTurn(t) \/ MarkTurn(t)
  BY <1>1, SayInv, MarkSeenInv, RecordTurnInv, MarkTurnInv
<1>2. CASE ListThreads(t) \/ ResolvePickup(t) \/ FindThread(t) \/ ResolveRefresh(t) \/ InjectNote(t) \/ NoteStatus(t)
  BY <1>2, ListThreadsInv, ResolvePickupInv, FindThreadInv, ResolveRefreshInv, InjectNoteInv, NoteStatusInv
<1>3. CASE CreateChannel(t) \/ EnsureNew(t) \/ Prompt(t) \/ Bind(t)
  BY <1>3, CreateChannelInv, EnsureNewInv, PromptInv, BindInv
<1>4. CASE RenameChannel(t) \/ Renamed(t) \/ EnsureWaiting(t) \/ PostInChannel(t)
  BY <1>4, RenameInv, RenamedInv, EnsureWaitingInv, PostInChannelInv
<1>5. CASE EnsureRefused(t) \/ EnsureKept(t) \/ MarkRefusalSeen(t)
  BY <1>5, EnsureRefusedInv, EnsureKeptInv, MarkRefusalSeenInv
<1>6. CASE LookUpChannel(t) \/ DeleteFromDiscord(t) \/ Unmap(t)
  BY <1>6, LookUpChannelInv, DeleteFromDiscordInv, UnmapInv
<1>7. CASE ActiveRun(t) \/ CreateRun(t) \/ Board(t) \/ SetActiveRun(t) \/ RegisterWorker(t)
  BY <1>7, ActiveRunInv, CreateRunInv, BoardInv, SetActiveRunInv, RegisterWorkerInv
<1>8. CASE GetWorker(t) \/ LookAtMapping(t) \/ Adopt(t) \/ Identify(t)
  BY <1>8, GetWorkerInv, LookAtMappingInv, AdoptInv, IdentifyInv
<1>9. CASE BindWorker(t) \/ CloseWorker(t) \/ ListCompanions(t) \/ ArchiveRun(t) \/ Fails(t)
  BY <1>9, BindWorkerInv, CloseWorkerInv, ListCompanionsInv, ArchiveRunInv, FailsInv
<1>10. QED BY <1>1, <1>2, <1>3, <1>4, <1>5, <1>6, <1>7, <1>8, <1>9 DEF Handle, Proceed

LEMMA CommandsStutter == ASSUME CommandsInv, UNCHANGED commandVars PROVE CommandsInv'
<1>0. UNCHANGED <<script, commands, seen, polling, task, discord, mapping, nextShort, list, activeRun, runs, workers,
                  faults, maker, cut, left>>
  BY DEF commandVars, channel, storeVars, registryVars, history
<1>1. /\ Made' = Made /\ OfWorkers' = OfWorkers /\ PickedUp' = PickedUp
      /\ \A k : MadeFor(k)' = MadeFor(k) /\ Unspent(k)' = Unspent(k)
      /\ \A d : Mapped(d)' = Mapped(d)
  BY <1>0 DEF Made, OfWorkers, PickedUp, MadeFor, Mapped, Unspent
<1>2. CommandTypes' /\ Stages'
  BY <1>0 DEF CommandsInv, CommandTypes, Stages, Polls, Serves, SolePoll
<1>3. Hands'
  BY <1>0, <1>1 DEF CommandsInv, Hands, HasChannel, HasEntry
<1>4. Known' /\ Counted'
  BY <1>0, <1>1 DEF CommandsInv, Known, Counted, At, Ch
<1>5. Picking'
  BY <1>0, <1>1 DEF CommandsInv, Picking, Picks, Rebinds, Exact, Kind
<1>6. QED BY <1>2, <1>3, <1>4, <1>5 DEF CommandsInv

LEMMA NextCommandsInv == CommandsInv /\ [CommandsNext]_commandVars => CommandsInv'
<1> SUFFICES ASSUME CommandsInv, [CommandsNext]_commandVars PROVE CommandsInv'
  OBVIOUS
<1>1. CASE Write
  BY <1>1, WriteInv
<1>2. ASSUME NEW t \in Pollers, Poll(t) \/ PollTurns(t) PROVE CommandsInv'
  BY <1>2, PollInv, PollTurnsInv
<1>3. ASSUME NEW t \in Tasks, Handle(t) PROVE CommandsInv'
  BY <1>3, HandleInv
<1>4. ASSUME NEW t \in Operators, NEW kind \in {"start thread", "bind channel", "close"}, OperatorRequest(t, kind)
      PROVE  CommandsInv'
  BY <1>4, OperatorRequestInv
<1>5. ASSUME NEW c \in Channels, FirstPrompt(c) PROVE CommandsInv'
  BY <1>5, FirstPromptInv
<1>6. CASE Restart
  BY <1>6, RestartInv
<1>7. CASE UNCHANGED commandVars
  BY <1>7, CommandsStutter
<1>8. QED BY <1>1, <1>2, <1>3, <1>4, <1>5, <1>6, <1>7 DEF CommandsNext

\* Whatever the timer, requests to poll, operators, errors and restarts do, a poll is
\* about the command after the cursor, and each task has in hand what its place needs.
THEOREM CommandsInvariant == CommandsSpec => []CommandsInv
BY InitCommandsInv, NextCommandsInv, PTL DEF CommandsSpec

-----------------------------------------------------------------------------
(* The properties.                                                           *)

\* No channel is left on Discord that the relay has forgotten, unless a request
\* failed while it had it in hand (operatorCloseChannel).
THEOREM NoOrphansAlways == CommandsSpec => []NoOrphans
<1>1. CommandsInv => NoOrphans
  <2> SUFFICES ASSUME CommandsInv, NEW c \in discord
               PROVE  Mapped(c) \/ c \in left \/ \E t \in Tasks : Handling(t) /\ Ch(t) = c
    BY DEF NoOrphans
  <2>1. \A t \in Tasks : At(t, "ensure") => Handling(t)
    BY DEF At, Handling
  <2>2. QED BY <2>1 DEF CommandsInv, Known
<1>2. QED BY <1>1, CommandsInvariant, PTL

\* Two pickups give one thread two channels only if the later one spelled the
\* thread otherwise than the desktop does (handlePickup).
THEOREM PickupsShareAlways == CommandsSpec => []PickupsShare
<1>1. CommandsInv => PickupsShare
  BY DEF CommandsInv, Picking, PickupsShare, PickedUp, Exact
<1>2. QED BY <1>1, CommandsInvariant, PTL

LEMMA CommandsAreTyped == CommandsInv => CommandsTyped
<1> SUFFICES ASSUME CommandsInv PROVE CommandsTyped
  OBVIOUS
<1> USE DEF CommandsInv
<1>1. script \in Scripts /\ IsPrefix(commands, script.people) /\ seen \in 0 .. Len(commands)
  <2>1. PICK R : R = [kind : STRING, by : {"title", "number", "none"}, key : Nat, refused : SUBSET STRING]
    OBVIOUS
  <2>2. script.people \in Seq(R) /\ script \in Scripts
    BY <2>1, CommandsAssumption DEF CommandsAssumption, CommandTypes
  <2>3. PICK n \in Nat : n = Len(commands) /\ n <= Len(script.people) /\ Len(script.people) \in Nat
    BY <2>2 DEF CommandTypes
  <2>4. commands = [i \in 1 .. n |-> script.people[i]]
    BY <2>3 DEF CommandTypes
  <2>5. SubSeq(commands, 1, n) = SubSeq(script.people, 1, n)
    BY <2>2, <2>3, <2>4 DEF CommandTypes
  <2>6. QED BY <2>2, <2>3, <2>5 DEF IsPrefix, CommandTypes
<1>2. polling \in BOOLEAN /\ DOMAIN task = Tasks
  BY DEF CommandTypes
<1>3. ASSUME NEW t \in Tasks
      PROVE  /\ DOMAIN task[t] = DOMAIN Idle
             /\ task[t].cmd \in {0} \cup DOMAIN commands
             /\ Ch(t) \in {0} \cup Channels /\ task[t].todo \subseteq Channels
             /\ task[t].label \in {0} \cup Titles
             /\ task[t].sent \in BOOLEAN
  <2>1. task[t] \in TaskState
    BY DEF CommandTypes
  <2>2. DOMAIN task[t] = {"at", "kind", "by", "key", "cmd", "ch", "label", "ref", "sent", "todo"}
    BY <2>1 DEF TaskState
  <2>3. DOMAIN Idle = {"at", "kind", "by", "key", "cmd", "ch", "label", "ref", "sent", "todo"}
    BY DEF Idle
  <2>4. DOMAIN commands = 1 .. Len(commands)
    BY DEF CommandTypes
  <2>5. task[t].cmd \in {0} \cup DOMAIN commands
    <3>1. CASE t \in Pollers
      <4>1. Idle.cmd = 0
        BY DEF Idle
      <4>2. task[t] = Idle \/ task[t].cmd = 0 \/ (task[t].cmd = seen + 1 /\ task[t].cmd <= Len(commands))
        BY <3>1 DEF Stages, Polls
      <4>3. seen \in Nat /\ Len(commands) \in Nat
        BY SeenTyped, CommandsAssumption
      <4>4. task[t].cmd = 0 \/ task[t].cmd \in 1 .. Len(commands)
        BY <4>1, <4>2, <4>3
      <4>5. QED BY <2>4, <4>4
    <3>2. CASE t \in Operators
      BY <3>2 DEF Stages, Serves
    <3>3. QED BY <3>1, <3>2 DEF Tasks
  <2>6. QED BY <2>1, <2>2, <2>3, <2>5 DEF TaskState, Ch
<1>4. discord \subseteq Made /\ list \in Lists /\ faults \in 0 .. MaxFaults /\ left \subseteq Channels
  BY DEF CommandTypes, Known
<1>5. mapping \in [Channels -> [short : 0 .. nextShort - 1, label : {0} \cup Titles]]
  <2>1. mapping \in [Channels -> MappingState] /\ nextShort \in Nat
    BY DEF CommandTypes
  <2>2. ASSUME NEW c \in Channels PROVE mapping[c] \in [short : 0 .. nextShort - 1, label : {0} \cup Titles]
    <3>1. mapping[c] \in MappingState /\ mapping[c].short \in Nat /\ mapping[c].short < nextShort
      BY <2>1 DEF Hands, MappingState
    <3>2. mapping[c].short \in 0 .. nextShort - 1
      BY <2>1, <3>1
    <3>3. QED BY <3>1, <3>2 DEF MappingState
  <2>3. QED BY <2>1, <2>2
<1>6. DOMAIN runs = 1 .. Len(runs) /\ DOMAIN workers = 1 .. Len(workers) /\ Len(runs) \in Nat
  BY DEF CommandTypes
<1>7. activeRun \in {0} \cup DOMAIN runs
  BY <1>6 DEF CommandTypes
<1>8. Range(runs) \subseteq {"open", "archived"}
  BY DEF CommandTypes, Range
<1>9. ASSUME NEW w \in DOMAIN workers
      PROVE  workers[w] \in [run : DOMAIN runs, ch : {0} \cup Channels, label : {0} \cup Titles, open : BOOLEAN]
  BY <1>6, WorkerTyped DEF WorkerState
<1>10. QED BY <1>1, <1>2, <1>3, <1>4, <1>5, <1>7, <1>8, <1>9 DEF CommandsTyped

\* However the timer, POST /api/poll, errors and restarts fall, a command makes one
\* channel, and one more for each time its handling was cut short: the cursor passes
\* it only when it is done with (pollCommandChannel).  The state is of its type.
THEOREM OneEffectPerCommandAlways == CommandsSpec => []OneEffectPerCommand
<1>1. CommandsInv => OneEffectPerCommand
  <2> SUFFICES ASSUME CommandsInv, NEW k \in DOMAIN commands
               PROVE  Cardinality({c \in Channels : maker[c].cmd = k}) <= 1 + cut[k]
    BY CommandsAreTyped DEF OneEffectPerCommand
  <2>1. k \in Numbers
    <3>1. PICK R : R = [kind : STRING, by : {"title", "number", "none"}, key : Nat, refused : SUBSET STRING]
      OBVIOUS
    <3>2. script.people \in Seq(R) /\ script \in Scripts /\ commands \in Seq(CommandState) /\ Len(commands) <= Len(script.people)
      BY <3>1, CommandsAssumption DEF CommandsAssumption, CommandsInv, CommandTypes
    <3>3. k \in DOMAIN script.people
      BY <3>2
    <3>4. QED BY <3>2, <3>3 DEF Numbers
  <2>2. Cardinality(MadeFor(k)) <= cut[k] + 1 /\ cut[k] \in Nat
    BY <2>1 DEF CommandsInv, Counted, CommandTypes
  <2>3. cut[k] + 1 = 1 + cut[k]
    BY <2>2
  <2>4. QED BY <2>2, <2>3 DEF MadeFor
<1>2. QED BY <1>1, CommandsInvariant, PTL

=============================================================================
