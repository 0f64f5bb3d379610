-------------------------- MODULE RunArtifactsProofs --------------------------
(***************************************************************************)
(* Creation, retirement and reconciliation keep a run's row and its        *)
(* evidence together, for every set of transaction ids, any number of      *)
(* closes in flight, and every point at which the service stops.           *)
(*                                                                         *)
(* A committed run has exactly one whole directory (Kept): in its place,   *)
(* or in one transaction, and then no other transaction holds anything.    *)
(* That is what makes restoring directories by run id right.  It is kept   *)
(* because each place in the code has a known picture of both halves       *)
(* (Held), because the two stores never work on a committed run together   *)
(* (Turns), and because nothing is left in a transaction that nobody works *)
(* on (Strays).                                                            *)
(***************************************************************************)
EXTENDS RunArtifacts, FiniteSetTheorems, TLAPS

\* One kind of step fails, once, and an id is not used again while a legacy close
\* of it is in flight.  With two faults, or with ids used again early, TLC finds
\* runs that break what is proved here.
Moderate == MaxFaults <= 1 /\ ReusedEarly = FALSE

Pcs == DOMAIN Catch \cup {"idle", "undo_rows", "delete_rows", "recover_sweep"}

Position == [pc : Pcs, t : Run]

Transaction == [kind : {"unused", "create", "retire"}, store : Stores, dir : BOOLEAN,
                marker : BOOLEAN, staged : Content]

\* What an operation works on is its own, and stays.  Nothing goes on while the
\* service is down, and nothing but the reconciliation while it starts.
Placed ==
  /\ \A s \in Stores :
       /\ op[s].pc = "idle" => op[s] = Idle
       /\ op[s].pc # "idle" =>
            /\ op[s].t \in Transactions
            /\ txn[op[s].t].kind # "unused" /\ txn[op[s].t].dir
            /\ op[s].pc # "recover_sweep" => txn[op[s].t].store = s
       /\ service = "down" => op[s].pc = "idle"
       /\ service = "starting" => op[s].pc = "idle" \/ (op[s].pc = "recover_sweep" /\ s = Creator)
       /\ service = "up" => op[s].pc # "recover_sweep"
  /\ service # "up" => closing = 0
  /\ \A t \in Transactions : txn[t].dir => txn[t].kind # "unused"

Durable == "persist" \notin failed

Faulted == failed # {}

Empty(t) == txn[t].staged = "none"

Kept ==
  disk # "none" =>
    \/ final = disk /\ \A t \in Transactions : Empty(t)
    \/ /\ final = "none"
       /\ \E t \in Transactions :
            /\ txn[t].marker /\ txn[t].staged = disk
            /\ \A u \in Transactions \ {t} : Empty(u)

\* Nothing but a failed removal leaves part of a directory, or the directory of a
\* run of the primary store without its row.
Whole ==
  "remove" \notin failed =>
    /\ final # "partial"
    /\ disk = "none" /\ final \in Transactions =>
         txn[final].store = "legacy" /\ txn[final].kind # "unused"

\* Row and directory are both there, or both are not.
InPlace == disk # "none" /\ final = disk

Vacant == disk = "none" /\ final = "none"

\* The picture each step of a store has of the two halves.
HeldAt(s, pc, t, x) ==
  /\ pc \in {"stage", "fill", "insert", "promote", "sweep", "undo_rows", "undo_final",
             "undo_sweep"} => x.kind = "create"
  /\ s = "legacy" /\ x.kind = "create" => mode = "json" \/ pc = "recover_sweep"
  /\ s = "legacy" => pc \notin {"insert", "undo_rows", "delete_rows", "retire_again"}
  /\ pc \in {"marker", "stage", "retire_move", "unbegin"} => x.staged = "none"
  /\ pc \in {"stage", "fill", "insert", "retire_move"} => x.marker
  /\ pc = "marker" /\ x.kind = "create" => Vacant
  /\ pc \in {"stage", "fill", "insert"} => Vacant
  /\ pc \in {"insert", "promote"} => x.staged = t /\ final = "none"
  /\ pc \in {"undo_rows", "undo_final", "undo_sweep", "retire_again", "restore",
             "restore_sweep"} => Faulted
  /\ pc \in {"undo_rows", "undo_final"} => "remove" \in failed \/ final = "none"
  /\ pc \in {"retire_sweep", "retire_again"} => Vacant
  /\ pc = "restore" => final = "none" /\ (s = "legacy" => "remove" \in failed)
  /\ pc = "recover_sweep" => disk = "none" \/ final = disk
  /\ s = "primary" =>
       /\ pc \in {"promote"} => disk = t
       /\ pc \in {"sweep", "retire_move", "unbegin", "restore_sweep"} => InPlace
       /\ pc = "marker" /\ x.kind # "create" => InPlace
       /\ pc = "undo_rows" => disk # "none"
       /\ pc \in {"undo_final", "undo_sweep"} => disk = "none"
       /\ pc \in {"delete_rows", "restore"} => disk # "none" /\ final = "none" /\ x.staged = disk

Held(s) == op[s].pc # "idle" => HeldAt(s, op[s].pc, op[s].t, txn[op[s].t])

\* The two stores never work on a committed run together.
Turns ==
  op["legacy"].pc # "idle" \/ closing > 0 =>
    disk = "none" /\ op["primary"].pc \in {"idle", "undo_final", "undo_sweep"}

\* What nobody works on is in order.
Strays ==
  service = "up" =>
    /\ \A t \in Transactions : (\A s \in Stores : op[s].t # t) => Empty(t)
    /\ op["primary"].pc = "idle" /\ disk # "none" => final = disk

Rows ==
  /\ service # "down" => memory = disk
  /\ service = "down" => memory = "none"
  /\ mode = "json" => disk = "none" /\ op["primary"].pc = "idle"

Good == Kept /\ Whole /\ Turns /\ Strays /\ Rows /\ \A s \in Stores : Held(s)

ArtifactsInv == TypeOK /\ Placed /\ (Durable => Good)

-----------------------------------------------------------------------------
(* Steps of a store.                                                         *)

\* A store goes from its transaction t to pc and leaves t as x.
Moves(s, pc, t, x) ==
  /\ op[s].pc # "idle" /\ t = op[s].t
  /\ Goes(s, pc)
  /\ txn' = [txn EXCEPT ![op[s].t] = x]
  /\ x.kind = txn[op[s].t].kind /\ x.store = txn[op[s].t].store
  /\ ~x.dir => ~x.marker /\ x.staged = "none"
  /\ pc # "idle" => x.dir /\ (pc = "recover_sweep" <=> op[s].pc = "recover_sweep")
  /\ UNCHANGED <<mode, closing, service>>
  /\ memory' \in Run /\ disk' \in Run /\ final' \in Content
  /\ failed \subseteq failed' /\ failed' \subseteq MayFail

\* What it goes to next has its picture, and the other store keeps its own.
Sound(s, pc, t, x) ==
  /\ memory' = disk'
  /\ Kept' /\ Whole'
  /\ pc # "idle" => HeldAt(s, pc, t, x)'
  /\ pc = "idle" => x.staged = "none" /\ (s = "primary" /\ disk' # "none" => final' = disk')
  /\ s = "legacy" => disk' = disk /\ (mode = "json" \/ "remove" \in failed' \/ final' \in {final, "none"})
  /\ s = "primary" /\ op[s].pc \in {"undo_final", "undo_sweep"} =>
       /\ pc \in {"idle", "undo_final", "undo_sweep"} /\ disk' = disk
       /\ final = "none" => final' = "none"

LEMMA TypeSplit ==
  ASSUME TypeOK
  PROVE  /\ mode \in {"json", "hybrid"}
         /\ memory \in Run /\ disk \in Run /\ final \in Content
         /\ txn \in [Transactions -> Transaction]
         /\ \A t \in Transactions : ~txn[t].dir => ~txn[t].marker /\ txn[t].staged = "none"
         /\ service \in {"down", "starting", "up"}
         /\ op \in [Stores -> Position]
         /\ closing \in 0 .. MaxClosing
         /\ failed \subseteq MayFail
BY DEF TypeOK, Transaction, Position, Pcs

LEMMA GoesTo ==
  ASSUME op \in [Stores -> Position], NEW s \in Stores, NEW pc \in Pcs, Goes(s, pc)
  PROVE  \E o \in Position : /\ op' = [op EXCEPT ![s] = o]
                             /\ (pc = "idle" => o = Idle)
                             /\ (pc # "idle" => o.pc = pc /\ o.t = op[s].t)
<1>1. CASE pc = "idle"
  BY <1>1 DEF Goes, Idle, Position, Run, Pcs
<1>2. CASE pc # "idle"
  <2>1. PICK o : o = [op[s] EXCEPT !.pc = pc]
    OBVIOUS
  <2>2. o \in Position /\ o.pc = pc /\ o.t = op[s].t
    BY <2>1 DEF Position
  <2>3. op' = [op EXCEPT ![s] = o]
    BY <1>2, <2>1 DEF Goes
  <2>4. QED BY <1>2, <2>2, <2>3
<1>3. QED BY <1>1, <1>2

LEMMA MovesKeep ==
  ASSUME ArtifactsInv, NEW s \in Stores, NEW pc \in Pcs, NEW t, NEW x \in Transaction,
         Moves(s, pc, t, x), Durable' => Sound(s, pc, t, x)
  PROVE  ArtifactsInv'
<1>t. TypeOK
  BY DEF ArtifactsInv
<1>o. PICK o \in Position : /\ op' = [op EXCEPT ![s] = o]
                           /\ (pc = "idle" => o = Idle)
                           /\ (pc # "idle" => o.pc = pc /\ o.t = op[s].t)
  BY <1>t, TypeSplit, GoesTo DEF Moves
<1>1. /\ op' \in [Stores -> Position] /\ op'[s] = o /\ o.pc = pc
      /\ \A r \in Stores \ {s} : op'[r] = op[r]
  BY <1>t, <1>o, TypeSplit DEF Idle
<1>2. t = op[s].t /\ t \in Transactions /\ op[s].pc # "idle" /\ txn[t].store \in Stores
  BY <1>t, TypeSplit DEF Moves, ArtifactsInv, Placed, Transaction
<1>3. /\ txn' \in [Transactions -> Transaction] /\ txn'[t] = x
      /\ \A u \in Transactions \ {t} : txn'[u] = txn[u]
  BY <1>t, <1>2, TypeSplit DEF Moves
<1>4. ASSUME NEW r \in Stores \ {s}, op[r].pc # "idle"
      PROVE  op[r].t # t /\ txn'[op[r].t] = txn[op[r].t]
  BY <1>2, <1>3, <1>4 DEF ArtifactsInv, Placed, TypeOK
<1>5. TypeOK'
  <2>1. \A u \in Transactions : ~txn'[u].dir => ~txn'[u].marker /\ txn'[u].staged = "none"
    BY <1>t, <1>3, TypeSplit DEF Moves
  <2>2. QED BY <1>t, <1>o, <1>1, <1>3, <2>1, TypeSplit DEF Moves, TypeOK, Transaction, Position, Pcs
<1>6. Placed'
  BY <1>o, <1>1, <1>2, <1>3, <1>4 DEF Moves, ArtifactsInv, Placed, Idle, Creator
<1>7. ASSUME Durable' PROVE Good'
  <2>1. Good /\ Durable /\ Sound(s, pc, t, x)
    BY <1>7 DEF Moves, Durable, ArtifactsInv
  <2>2. Kept' /\ Whole'
    BY <2>1 DEF Sound
  <2>3. Held(s)'
    BY <1>o, <1>1, <1>3, <2>1 DEF Moves, Sound, Held, Idle
  <2>4. ASSUME NEW r \in Stores \ {s} PROVE Held(r)'
    <3>1. CASE op[r].pc = "idle"
      BY <1>o, <1>1, <3>1 DEF Held
    <3>2. CASE op[r].pc # "idle" /\ s = "legacy"
      <4>1. s # r /\ r = "primary" /\ op["legacy"].pc # "idle"
        BY <2>4, <3>2 DEF Stores, Moves
      <4>2. op["primary"].pc \in {"undo_final", "undo_sweep"} /\ disk' = "none" /\ mode # "json"
        BY <2>1, <3>2, <4>1 DEF Good, Turns, Sound, Rows
      <4>3. HeldAt(r, op[r].pc, op[r].t, txn[op[r].t]) /\ op'[r] = op[r] /\ txn'[op[r].t] = txn[op[r].t]
        BY <1>o, <1>1, <1>4, <2>1, <2>4, <3>2 DEF Good, Held
      <4>4. "remove" \in failed' \/ "remove" \in failed \/ final' \in {final, "none"}
        BY <2>1, <3>2, <4>2 DEF Sound
      <4>5. QED BY <4>1, <4>2, <4>3, <4>4
              DEF Moves, Held, HeldAt, Faulted, InPlace, Vacant
    <3>3. CASE op[r].pc # "idle" /\ s = "primary"
      BY <1>o, <1>1, <1>2, <1>4, <2>1, <2>4, <3>3
         DEF Moves, Sound, Good, Held, HeldAt, Turns, Stores, Faulted, InPlace, Vacant
    <3>4. QED BY <3>1, <3>2, <3>3 DEF Stores
  <2>5. Turns'
    BY <1>o, <1>1, <2>1 DEF Moves, Sound, Good, Turns, Stores, Idle
  <2>6. Strays'
    <3>1. ASSUME service' = "up", NEW u \in Transactions, \A r \in Stores : op'[r].t # u
          PROVE  Empty(u)'
      BY <1>o, <1>1, <1>2, <1>3, <2>1, <3>1 DEF Moves, Sound, Good, Strays, Empty
    <3>2. ASSUME service' = "up", op'["primary"].pc = "idle", disk' # "none"
          PROVE  final' = disk'
      BY <1>o, <1>1, <2>1, <3>2 DEF Moves, Sound, Good, Strays, Stores, Turns
    <3>3. QED BY <3>1, <3>2 DEF Strays
  <2>7. Rows'
    BY <1>o, <1>1, <1>2, <2>1 DEF Moves, Sound, Good, Rows, ArtifactsInv, Placed, Stores
  <2>8. QED BY <2>2, <2>3, <2>4, <2>5, <2>6, <2>7 DEF Good
<1>8. QED BY <1>5, <1>6, <1>7 DEF ArtifactsInv
\* A store changes what its transaction holds, or its marker, or nothing.
LEMMA HoldsThen ==
  ASSUME txn \in [Transactions -> Transaction], NEW s \in Stores, op[s].t \in Transactions,
         NEW held \in Content, Changed(s, "staged", held)
  PROVE  \E x \in Transaction : /\ txn' = [txn EXCEPT ![op[s].t] = x]
                                /\ x.kind = txn[op[s].t].kind /\ x.store = txn[op[s].t].store
                                /\ x.dir = txn[op[s].t].dir /\ x.marker = txn[op[s].t].marker
                                /\ x.staged = held
<1>1. PICK x : x = [txn[op[s].t] EXCEPT !.staged = held]
  OBVIOUS
<1>2. txn[op[s].t] \in Transaction
  OBVIOUS
<1>3. /\ x \in Transaction
      /\ x.kind = txn[op[s].t].kind /\ x.store = txn[op[s].t].store
      /\ x.dir = txn[op[s].t].dir /\ x.marker = txn[op[s].t].marker
      /\ x.staged = held
  BY <1>1, <1>2 DEF Transaction
<1>4. txn' = [txn EXCEPT ![op[s].t] = x]
  BY <1>1 DEF Changed
<1>5. QED BY <1>3, <1>4

LEMMA MarkedThen ==
  ASSUME txn \in [Transactions -> Transaction], NEW s \in Stores, op[s].t \in Transactions,
         NEW marked \in BOOLEAN, Changed(s, "marker", marked)
  PROVE  \E x \in Transaction : /\ txn' = [txn EXCEPT ![op[s].t] = x]
                                /\ x.kind = txn[op[s].t].kind /\ x.store = txn[op[s].t].store
                                /\ x.dir = txn[op[s].t].dir /\ x.marker = marked
                                /\ x.staged = txn[op[s].t].staged
<1>1. PICK x : x = [txn[op[s].t] EXCEPT !.marker = marked]
  OBVIOUS
<1>2. txn[op[s].t] \in Transaction
  OBVIOUS
<1>3. /\ x \in Transaction
      /\ x.kind = txn[op[s].t].kind /\ x.store = txn[op[s].t].store
      /\ x.dir = txn[op[s].t].dir /\ x.marker = marked
      /\ x.staged = txn[op[s].t].staged
  BY <1>1, <1>2 DEF Transaction
<1>4. txn' = [txn EXCEPT ![op[s].t] = x]
  BY <1>1 DEF Changed
<1>5. QED BY <1>3, <1>4

LEMMA RemovedThen ==
  ASSUME txn \in [Transactions -> Transaction], NEW s \in Stores, op[s].t \in Transactions,
         Changed(s, "dir", FALSE)
  PROVE  \E x \in Transaction : /\ txn' = [txn EXCEPT ![op[s].t] = x]
                                /\ x.kind = txn[op[s].t].kind /\ x.store = txn[op[s].t].store
                                /\ x.dir = FALSE /\ x.marker = txn[op[s].t].marker
                                /\ x.staged = txn[op[s].t].staged
<1>1. PICK x : x = [txn[op[s].t] EXCEPT !.dir = FALSE]
  OBVIOUS
<1>2. txn[op[s].t] \in Transaction
  OBVIOUS
<1>3. /\ x \in Transaction
      /\ x.kind = txn[op[s].t].kind /\ x.store = txn[op[s].t].store
      /\ x.dir = FALSE /\ x.marker = txn[op[s].t].marker
      /\ x.staged = txn[op[s].t].staged
  BY <1>1, <1>2 DEF Transaction
<1>4. txn' = [txn EXCEPT ![op[s].t] = x]
  BY <1>1 DEF Changed
<1>5. QED BY <1>3, <1>4

LEMMA HeldStill ==
  ASSUME txn \in [Transactions -> Transaction], NEW t \in Transactions, txn' = txn
  PROVE  txn[t] \in Transaction /\ txn' = [txn EXCEPT ![t] = txn[t]]
OBVIOUS

\* The first failure is the only one.
LEMMA OneFault ==
  ASSUME Moderate, failed \subseteq MayFail, NEW kind, Fault(kind)
  PROVE  failed = {} /\ failed' = {kind} /\ failed' \subseteq MayFail
<1>1. IsFiniteSet({"begin", "write", "reject", "persist", "move", "remove"})
  <2>1. \A S, e : IsFiniteSet(S) => IsFiniteSet(S \cup {e})
    BY FS_AddElement
  <2>2. IsFiniteSet({"begin"}) /\ IsFiniteSet({} \cup {"begin"})
    BY <2>1, FS_EmptySet, FS_Singleton
  <2>3. IsFiniteSet(((((({} \cup {"begin"}) \cup {"write"}) \cup {"reject"}) \cup {"persist"}) \cup {"move"}) \cup {"remove"})
    BY <2>1, <2>2, Zenon
  <2>4. QED BY <2>3
<1>2. IsFiniteSet(failed)
  BY <1>1, FS_Subset, FaultsAssumption
<1>3. Cardinality(failed) = 0
  BY <1>2, FS_CardinalityType, FaultsAssumption DEF Fault, Moderate
<1>4. failed = {}
  BY <1>2, <1>3, FS_EmptySet
<1>5. QED BY <1>4 DEF Fault

\* Where a throw leads.
LEMMA CatchTable ==
  /\ CatchOf("primary") = Catch
  /\ \A s \in Stores :
       /\ CatchOf(s)["marker"] = "idle" /\ CatchOf(s)["stage"] = "idle"
       /\ CatchOf(s)["undo_final"] = "idle" /\ CatchOf(s)["undo_sweep"] = "idle"
       /\ CatchOf(s)["retire_move"] = "unbegin" /\ CatchOf(s)["unbegin"] = "idle"
       /\ CatchOf(s)["retire_again"] = "idle" /\ CatchOf(s)["restore"] = "idle"
       /\ CatchOf(s)["restore_sweep"] = "idle"
  /\ Catch["fill"] = "undo_sweep" /\ Catch["insert"] = "undo_sweep"
  /\ Catch["promote"] = "undo_rows" /\ Catch["sweep"] = "undo_rows"
  /\ Catch["retire_sweep"] = "retire_again"
  /\ CatchOf("legacy")["fill"] = "undo_final" /\ CatchOf("legacy")["promote"] = "undo_final"
  /\ CatchOf("legacy")["sweep"] = "undo_final" /\ CatchOf("legacy")["retire_sweep"] = "restore"
BY DEF Catch, CatchOf, Stores

LEMMA PcsAre ==
  Pcs = {"marker", "stage", "fill", "insert", "promote", "sweep", "undo_final", "undo_sweep",
         "retire_move", "unbegin", "retire_sweep", "retire_again", "restore", "restore_sweep",
         "idle", "undo_rows", "delete_rows", "recover_sweep"}
BY DEF Pcs, Catch

\* What is known where a store stands.
LEMMA Standing ==
  ASSUME ArtifactsInv, NEW s \in Stores, op[s].pc # "idle"
  PROVE  /\ op[s].t \in Transactions /\ op[s].pc \in Pcs
         /\ txn[op[s].t] \in Transaction /\ txn[op[s].t].dir
         /\ txn' = txn => txn' = [txn EXCEPT ![op[s].t] = txn[op[s].t]]
         /\ Durable => HeldAt(s, op[s].pc, op[s].t, txn[op[s].t])
         /\ Durable => Good
<1>1. TypeOK /\ Placed /\ (Durable => Good)
  BY DEF ArtifactsInv
<1>2. op[s].t \in Transactions /\ txn[op[s].t].dir
  BY <1>1 DEF Placed
<1>3. Durable => Held(s)
  BY <1>1 DEF Good
<1>4. op[s] \in Position /\ op[s].pc \in Pcs
  BY <1>1, TypeSplit DEF Position
<1>5. QED BY <1>1, <1>2, <1>3, <1>4, TypeSplit DEF Held

\* A step that throws leads where the catch block goes on, and there the picture
\* is the same.
LEMMA ThrownKeeps ==
  ASSUME ArtifactsInv, NEW s \in Stores, op[s].pc \in DOMAIN Catch,
         Goes(s, CatchOf(s)[op[s].pc]),
         UNCHANGED <<memory, disk, final, txn, service, mode, closing>>,
         failed \subseteq failed', failed' \subseteq MayFail,
         Durable' /\ op[s].pc \in Sweeps => failed = {} /\ failed' = {"remove"},
         Durable' /\ op[s].pc \notin Sweeps \cup {"marker", "stage", "retire_move"} =>
           failed = {} /\ failed' \cap {"reject", "write", "move", "remove"} # {},
         op[s].pc # "insert"
  PROVE  ArtifactsInv'
<1> DEFINE pc == op[s].pc
<1>1. PICK t, x : t = op[s].t /\ x = txn[t]
  OBVIOUS
<1>2. PICK to : to = CatchOf(s)[op[s].pc]
  OBVIOUS
<1>3. /\ pc \in {"marker", "stage", "fill", "promote", "sweep", "undo_final", "undo_sweep",
                 "retire_move", "unbegin", "retire_sweep", "retire_again", "restore", "restore_sweep"}
      /\ pc # "idle" /\ pc # "recover_sweep"
  BY DEF Catch
<1>4. /\ to = "idle" <=> pc \in {"marker", "stage", "undo_sweep", "unbegin", "retire_again", "restore",
                                 "restore_sweep", "undo_final"}
      /\ pc = "fill" => to = IF s = "primary" THEN "undo_sweep" ELSE "undo_final"
      /\ pc \in {"promote", "sweep"} => to = IF s = "primary" THEN "undo_rows" ELSE "undo_final"
      /\ pc = "retire_move" => to = "unbegin"
      /\ pc = "retire_sweep" => to = IF s = "primary" THEN "retire_again" ELSE "restore"
  <2>1. CASE s = "primary"
    BY <1>2, <1>3, <2>1, CatchTable
  <2>2. CASE s = "legacy"
    BY <1>2, <1>3, <2>2, CatchTable
  <2>3. QED BY <2>1, <2>2 DEF Stores
<1>5. to \in Pcs /\ to # "recover_sweep"
  BY <1>3, <1>4, PcsAre
<1>6. x \in Transaction /\ x.dir /\ t \in Transactions /\ TypeOK
  BY <1>1, <1>3, Standing DEF ArtifactsInv
<1>7. Moves(s, to, t, x)
  BY <1>1, <1>2, <1>3, <1>5, <1>6, Standing, TypeSplit DEF Moves
<1>8. ASSUME Durable' PROVE Sound(s, to, t, x)
  <2>1. Durable /\ Good /\ HeldAt(s, pc, t, x)
    BY <1>1, <1>3, <1>8, Standing DEF Durable
  <2>2. memory' = disk' /\ Kept' /\ Whole'
    BY <1>3, <2>1 DEF Good, Rows, Kept, Whole, Empty, ArtifactsInv, Placed
  <2>3. ASSUME to # "idle" PROVE HeldAt(s, to, t, x)'
    <3>1. /\ s = "legacy" => disk = "none"
          /\ pc # "retire_move" => Faulted'
          /\ pc \in {"sweep", "retire_sweep"} => "remove" \in failed'
      BY <1>3, <1>4, <1>8, <2>1, <2>3 DEF Good, Turns, Sweeps, Faulted, Stores
    <3>2. s \in {"primary", "legacy"} /\ UNCHANGED <<final, disk, mode>>
      BY DEF Stores
    <3>3. CASE pc = "fill"
      BY <1>4, <2>1, <3>1, <3>2, <3>3 DEF HeldAt, Vacant, InPlace
    <3>4. CASE pc \in {"promote", "sweep"}
      BY <1>4, <1>6, <2>1, <3>1, <3>2, <3>4, TypeSplit, TransactionsAssumption DEF HeldAt, Vacant, InPlace
    <3>5. CASE pc = "retire_move"
      BY <1>4, <2>1, <3>1, <3>2, <3>5 DEF HeldAt, Vacant, InPlace
    <3>6. CASE pc = "retire_sweep"
      BY <1>4, <2>1, <3>1, <3>2, <3>6 DEF HeldAt, Vacant, InPlace
    <3>7. QED BY <1>3, <1>4, <2>3, <3>3, <3>4, <3>5, <3>6
  <2>4. ASSUME to = "idle"
        PROVE  x.staged = "none" /\ (s = "primary" /\ disk' # "none" => final' = disk')
    BY <1>3, <1>4, <1>8, <2>1, <2>4 DEF HeldAt, Vacant, InPlace, Faulted, Sweeps
  <2>5. s = "primary" /\ op[s].pc \in {"undo_final", "undo_sweep"} => to = "idle"
    BY <1>4
  <2>6. QED BY <2>2, <2>3, <2>4, <2>5 DEF Sound
<1>9. QED BY <1>5, <1>6, <1>7, <1>8, MovesKeep
LEMMA FaultKeeps ==
  ASSUME ArtifactsInv, Moderate, NEW s \in Stores, op[s].pc \in DOMAIN Catch, op[s].pc # "insert",
         NEW kind, Throws(s, kind), UNCHANGED <<mode, closing>>,
         op[s].pc \in Sweeps => kind = "remove",
         op[s].pc \notin {"marker", "stage"} => kind # "begin"
  PROVE  ArtifactsInv'
<1>1. failed = {} /\ failed' = {kind} /\ failed' \subseteq MayFail
  BY OneFault, TypeSplit DEF Throws, ArtifactsInv
<1>2. kind = "persist" => ~Durable'
  BY <1>1 DEF Durable
<1>3. op[s].pc \notin Sweeps \cup {"marker", "stage", "retire_move"} /\ Durable' =>
        kind \in {"reject", "write", "move", "remove"}
  BY <1>1, <1>2, FaultsAssumption
<1>4. UNCHANGED <<memory, disk, final, txn, service, mode, closing>> /\ Goes(s, CatchOf(s)[op[s].pc])
  BY DEF Throws
<1>5. /\ failed \subseteq failed'
      /\ Durable' /\ op[s].pc \in Sweeps => failed = {} /\ failed' = {"remove"}
      /\ Durable' /\ op[s].pc \notin Sweeps \cup {"marker", "stage", "retire_move"} =>
           failed = {} /\ failed' \cap {"reject", "write", "move", "remove"} # {}
  BY <1>1, <1>3
<1>6. QED BY <1>1, <1>4, <1>5, ThrownKeeps

\* The same picture of the row, the directory and what the transactions hold.
LEMMA SamePicture ==
  ASSUME UNCHANGED <<disk, final, failed>>, \A t \in Transactions :
           /\ txn'[t].staged = txn[t].staged /\ (txn[t].marker => txn'[t].marker)
           /\ txn'[t].store = txn[t].store /\ txn'[t].kind = txn[t].kind,
         Kept, Whole
  PROVE  Kept' /\ Whole'
<1>1. \A t \in Transactions : Empty(t)' <=> Empty(t)
  BY DEF Empty
<1>2. Kept'
  BY <1>1 DEF Kept
<1>3. QED BY <1>2 DEF Whole

LEMMA WriteMarkerStep ==
  ASSUME ArtifactsInv, Moderate, NEW s \in Stores, WriteMarker(s), UNCHANGED <<mode, closing>>
  PROVE  ArtifactsInv'
<1>1. op[s].pc = "marker" /\ op[s].pc # "idle" /\ TypeOK
  BY DEF WriteMarker, At, ArtifactsInv
<1>2. CASE Throws(s, "begin")
  <2>1. op[s].pc \in DOMAIN Catch /\ op[s].pc \notin Sweeps
    BY <1>1 DEF Catch, Sweeps
  <2>2. QED BY <1>1, <1>2, <2>1, FaultKeeps
<1>3. CASE /\ Changed(s, "marker", TRUE)
           /\ Goes(s, IF Mine(s).kind = "create" THEN "stage" ELSE "retire_move")
           /\ UNCHANGED <<memory, disk, final, service, failed>>
  <2>0. op[s].t \in Transactions /\ txn \in [Transactions -> Transaction]
    BY <1>1, Standing, TypeSplit
  <2>1. PICK t : t = op[s].t
    OBVIOUS
  <2>2. PICK x \in Transaction :
          /\ txn' = [txn EXCEPT ![op[s].t] = x]
          /\ x.kind = txn[op[s].t].kind /\ x.store = txn[op[s].t].store
          /\ x.dir = txn[op[s].t].dir /\ x.marker = TRUE
          /\ x.staged = txn[op[s].t].staged
    BY <1>3, <2>0, MarkedThen
  <2>3. PICK to : to = IF Mine(s).kind = "create" THEN "stage" ELSE "retire_move"
    OBVIOUS
  <2>4. to \in Pcs /\ to \in {"stage", "retire_move"}
    BY <2>3, PcsAre
  <2>5. Moves(s, to, t, x)
    BY <1>1, <1>3, <2>0, <2>1, <2>2, <2>3, <2>4, Standing, TypeSplit DEF Moves
  <2>6. ASSUME Durable' PROVE Sound(s, to, t, x)
    <3>1. Good /\ HeldAt(s, "marker", t, txn[t])
      BY <1>1, <1>3, <2>1, <2>6, Standing DEF Durable
    <3>2. Kept' /\ Whole'
      BY <1>3, <2>0, <2>1, <2>2, <3>1, SamePicture DEF Good
    <3>3. HeldAt(s, to, t, x)'
      BY <1>3, <2>1, <2>2, <2>3, <2>4, <3>1 DEF HeldAt, Mine, Vacant, InPlace
    <3>4. memory' = disk'
      BY <1>1, <1>3, <3>1 DEF Good, Rows, ArtifactsInv, Placed
    <3>5. QED BY <1>1, <1>3, <2>4, <3>2, <3>3, <3>4 DEF Sound
  <2>7. QED BY <2>4, <2>5, <2>6, MovesKeep
<1>4. QED BY <1>2, <1>3 DEF WriteMarker

LEMMA StageStep ==
  ASSUME ArtifactsInv, Moderate, NEW s \in Stores, Stage(s), UNCHANGED <<mode, closing>>
  PROVE  ArtifactsInv'
<1>1. op[s].pc = "stage" /\ op[s].pc # "idle" /\ TypeOK
  BY DEF Stage, At, ArtifactsInv
<1>2. CASE Throws(s, "begin")
  <2>1. op[s].pc \in DOMAIN Catch /\ op[s].pc \notin Sweeps
    BY <1>1 DEF Catch, Sweeps
  <2>2. QED BY <1>1, <1>2, <2>1, FaultKeeps
<1>3. CASE /\ Changed(s, "staged", "partial") /\ Goes(s, "fill")
           /\ UNCHANGED <<memory, disk, final, service, failed>>
  <2>0. op[s].t \in Transactions /\ txn \in [Transactions -> Transaction] /\ "partial" \in Content
    BY <1>1, Standing, TypeSplit DEF Content
  <2>1. PICK t : t = op[s].t
    OBVIOUS
  <2>2. PICK x \in Transaction :
          /\ txn' = [txn EXCEPT ![op[s].t] = x]
          /\ x.kind = txn[op[s].t].kind /\ x.store = txn[op[s].t].store
          /\ x.dir = txn[op[s].t].dir /\ x.marker = txn[op[s].t].marker
          /\ x.staged = "partial"
    BY <1>3, <2>0, HoldsThen
  <2>3. Moves(s, "fill", t, x) /\ "fill" \in Pcs
    BY <1>1, <1>3, <2>0, <2>1, <2>2, PcsAre, Standing, TypeSplit DEF Moves
  <2>4. ASSUME Durable' PROVE Sound(s, "fill", t, x)
    <3>1. Good /\ HeldAt(s, "stage", t, txn[t])
      BY <1>1, <1>3, <2>1, <2>4, Standing DEF Durable
    <3>2. Kept' /\ Whole'
      BY <1>3, <2>0, <2>1, <2>2, <3>1 DEF Good, HeldAt, Vacant, Kept, Whole, TypeOK
    <3>3. HeldAt(s, "fill", t, x)'
      BY <1>3, <2>1, <2>2, <3>1 DEF HeldAt, Vacant
    <3>4. memory' = disk'
      BY <1>1, <1>3, <3>1 DEF Good, Rows, ArtifactsInv, Placed
    <3>5. QED BY <1>1, <1>3, <3>2, <3>3, <3>4 DEF Sound
  <2>5. QED BY <2>3, <2>4, MovesKeep
<1>4. QED BY <1>2, <1>3 DEF Stage
\* While the primary store creates or retires a run, all that is not its own is
\* empty.
LEMMA OthersEmpty ==
  ASSUME ArtifactsInv, Good,
         op["primary"].pc \notin {"idle", "undo_final", "undo_sweep", "recover_sweep"}
  PROVE  \A u \in Transactions \ {op["primary"].t} : Empty(u)
<1>1. op["legacy"] = Idle /\ Idle.t \notin Transactions
  BY TransactionsAssumption DEF Good, Turns, ArtifactsInv, Placed, Idle, Stores
<1>2. service = "up"
  BY TypeSplit DEF ArtifactsInv, Placed, Stores
<1>3. QED BY <1>1, <1>2 DEF Good, Strays, Stores

LEMMA FillStep ==
  ASSUME ArtifactsInv, Moderate, NEW s \in Stores, Fill(s), UNCHANGED <<mode, closing>>
  PROVE  ArtifactsInv'
<1>1. op[s].pc = "fill" /\ op[s].pc # "idle" /\ TypeOK
  BY DEF Fill, At, ArtifactsInv
<1>2. CASE Throws(s, "write")
  <2>1. op[s].pc \in DOMAIN Catch /\ op[s].pc \notin Sweeps
    BY <1>1 DEF Catch, Sweeps
  <2>2. QED BY <1>1, <1>2, <2>1, FaultKeeps
<1>3. CASE /\ Changed(s, "staged", op[s].t)
           /\ Goes(s, IF s = "primary" THEN "insert" ELSE "promote")
           /\ UNCHANGED <<memory, disk, final, service, failed>>
  <2>1. PICK t : t = op[s].t
    OBVIOUS
  <2>2. /\ op[s].t \in Transactions /\ txn \in [Transactions -> Transaction] /\ t \in Content
        /\ Changed(s, "staged", t)
    BY <1>1, <1>3, <2>1, Standing, TypeSplit DEF Content, Run
  <2>3. PICK x \in Transaction :
          /\ txn' = [txn EXCEPT ![op[s].t] = x]
          /\ x.kind = txn[op[s].t].kind /\ x.store = txn[op[s].t].store
          /\ x.dir = txn[op[s].t].dir /\ x.marker = txn[op[s].t].marker
          /\ x.staged = t
    BY <2>2, HoldsThen
  <2>4. PICK to : to = IF s = "primary" THEN "insert" ELSE "promote"
    OBVIOUS
  <2>5. Moves(s, to, t, x) /\ to \in Pcs
    BY <1>1, <1>3, <2>1, <2>2, <2>3, <2>4, PcsAre, Standing, TypeSplit DEF Moves
  <2>6. ASSUME Durable' PROVE Sound(s, to, t, x)
    <3>1. Good /\ HeldAt(s, "fill", t, txn[t])
      BY <1>1, <1>3, <2>1, <2>6, Standing DEF Durable
    <3>2. Kept' /\ Whole'
      BY <1>3, <2>1, <2>2, <2>3, <3>1 DEF Good, HeldAt, Vacant, Kept, Whole, TypeOK
    <3>3. HeldAt(s, to, t, x)'
      BY <1>3, <2>1, <2>3, <2>4, <3>1 DEF HeldAt, Vacant, Stores
    <3>4. memory' = disk'
      BY <1>1, <1>3, <3>1 DEF Good, Rows, ArtifactsInv, Placed
    <3>5. QED BY <1>1, <1>3, <2>4, <3>2, <3>3, <3>4 DEF Sound
  <2>7. QED BY <2>5, <2>6, MovesKeep
<1>4. QED BY <1>2, <1>3 DEF Fill

\* The transaction of the primary store stays as it is.
LEMMA WriteMoves ==
  ASSUME ArtifactsInv, op["primary"].pc \notin {"idle", "recover_sweep"},
         NEW to \in Pcs, to \notin {"idle", "recover_sweep"},
         Goes("primary", to), UNCHANGED <<final, txn, service, mode, closing>>,
         memory' \in Run, disk' \in Run, failed \subseteq failed', failed' \subseteq MayFail,
         Durable' => /\ memory' = disk' /\ Kept' /\ Whole'
                     /\ \A t, x : t = op["primary"].t /\ x = txn[t] => HeldAt("primary", to, t, x)'
                     /\ op["primary"].pc \notin {"undo_final", "undo_sweep"}
  PROVE  ArtifactsInv'
<1>1. PICK t, x : t = op["primary"].t /\ x = txn[t]
  OBVIOUS
<1>2. x \in Transaction /\ Moves("primary", to, t, x)
  BY <1>1, Standing, TypeSplit DEF Moves, Stores, ArtifactsInv
<1>3. Durable' => Sound("primary", to, t, x)
  BY <1>1 DEF Sound
<1>4. QED BY <1>2, <1>3, MovesKeep DEF Stores

LEMMA InsertStep ==
  ASSUME ArtifactsInv, Moderate, Insert, UNCHANGED <<mode, closing>>
  PROVE  ArtifactsInv'
<1>1. /\ op["primary"].pc = "insert" /\ TypeOK /\ UNCHANGED <<final, txn, service>>
      /\ "primary" \in Stores /\ op["primary"].t \in Transactions
  BY Standing DEF Insert, At, ArtifactsInv, Stores
<1>2. ASSUME Durable'
      PROVE  /\ Durable => Good /\ HeldAt("primary", "insert", op["primary"].t, txn[op["primary"].t])
             /\ Durable => \A u \in Transactions \ {op["primary"].t} : Empty(u)
             /\ Durable => memory = disk
  BY <1>1, Standing, OthersEmpty DEF Good, Rows, ArtifactsInv, Placed
<1>3. CASE /\ memory' = op["primary"].t /\ disk' = op["primary"].t
           /\ Goes("primary", "promote") /\ UNCHANGED failed
  <2>1. ASSUME Durable'
        PROVE  /\ Kept' /\ Whole'
               /\ \A t, x : t = op["primary"].t /\ x = txn[t] => HeldAt("primary", "promote", t, x)'
    <3>1. /\ HeldAt("primary", "insert", op["primary"].t, txn[op["primary"].t]) /\ Good
          /\ \A u \in Transactions \ {op["primary"].t} : Empty(u)
      BY <1>2, <1>3, <2>1 DEF Durable
    <3>2. Kept'
      BY <1>1, <1>3, <3>1, TransactionsAssumption DEF HeldAt, Vacant, Kept, Empty
    <3>3. Whole'
      BY <1>1, <1>3, <3>1, TransactionsAssumption DEF HeldAt, Vacant, Whole
    <3>4. QED BY <1>1, <1>3, <3>1, <3>2, <3>3 DEF HeldAt, Vacant
  <2>2. op["primary"].t \in Run /\ "promote" \in Pcs /\ failed' \subseteq MayFail
    BY <1>1, <1>3, PcsAre, TypeSplit DEF Run
  <2>3. QED BY <1>1, <1>3, <2>1, <2>2, WriteMoves
<1>4. CASE Fault("reject") /\ UNCHANGED <<memory, disk>> /\ Goes("primary", Catch["insert"])
  <2>1. failed = {} /\ failed' = {"reject"} /\ failed' \subseteq MayFail
    BY <1>1, <1>4, OneFault, TypeSplit
  <2>2. ASSUME Durable'
        PROVE  /\ Kept' /\ Whole' /\ memory' = disk'
               /\ \A t, x : t = op["primary"].t /\ x = txn[t] => HeldAt("primary", "undo_sweep", t, x)'
    <3>1. HeldAt("primary", "insert", op["primary"].t, txn[op["primary"].t]) /\ Good /\ memory = disk
      BY <1>2, <2>1, <2>2 DEF Durable
    <3>2. Kept' /\ Whole'
      BY <1>1, <1>4, <2>1, <3>1 DEF HeldAt, Vacant, Kept, Whole, Good
    <3>3. QED BY <1>1, <1>4, <2>1, <3>1, <3>2 DEF HeldAt, Vacant, Faulted
  <2>3. "undo_sweep" \in Pcs /\ Catch["insert"] = "undo_sweep" /\ disk \in Run /\ memory \in Run
    BY <1>1, PcsAre, CatchTable, TypeSplit
  <2>4. QED BY <1>1, <1>4, <2>1, <2>2, <2>3, WriteMoves
<1>5. CASE /\ Fault("persist") /\ memory' = op["primary"].t /\ UNCHANGED disk
           /\ Goes("primary", "undo_rows")
  <2>1. failed = {} /\ failed' = {"persist"} /\ failed' \subseteq MayFail
    BY <1>1, <1>5, OneFault, TypeSplit
  <2>2. "undo_rows" \in Pcs /\ disk \in Run /\ op["primary"].t \in Run /\ ~Durable'
    BY <1>1, <2>1, PcsAre, TypeSplit DEF Run, Durable
  <2>3. QED BY <1>1, <1>5, <2>1, <2>2, WriteMoves
<1>6. QED BY <1>3, <1>4, <1>5 DEF Insert, Writes
\* The directory that holds the run in the database file is the only one.
LEMMA OnlyOne ==
  ASSUME Kept, disk # "none", NEW t \in Transactions, txn[t].staged # "none"
  PROVE  /\ final = "none" /\ txn[t].staged = disk /\ txn[t].marker
         /\ \A u \in Transactions \ {t} : Empty(u)
BY DEF Kept, Empty

LEMMA PromoteStep ==
  ASSUME ArtifactsInv, Moderate, NEW s \in Stores, Promote(s), UNCHANGED <<mode, closing>>
  PROVE  ArtifactsInv'
<1>1. op[s].pc = "promote" /\ op[s].pc # "idle" /\ TypeOK
  BY DEF Promote, At, ArtifactsInv
<1>2. op[s].pc \in DOMAIN Catch /\ op[s].pc \notin Sweeps
  BY <1>1 DEF Catch, Sweeps
<1>3. CASE Throws(s, "move")
  BY <1>1, <1>2, <1>3, FaultKeeps
<1>4. CASE final # "none" /\ Throw(s) /\ UNCHANGED <<memory, disk, final, txn, service>>
  <2>1. ~Durable'
    BY <1>1, <1>4, Standing DEF HeldAt, Throw, Durable
  <2>2. failed' \subseteq MayFail /\ failed \subseteq failed'
    BY <1>1, <1>4, TypeSplit DEF Throw
  <2>3. QED BY <1>1, <1>2, <1>4, <2>1, <2>2, ThrownKeeps DEF Throw
<1>5. CASE /\ final = "none" /\ final' = Mine(s).staged
           /\ Changed(s, "staged", "none") /\ Goes(s, "sweep")
           /\ UNCHANGED <<memory, disk, service, failed>>
  <2>1. PICK t : t = op[s].t
    OBVIOUS
  <2>2. /\ op[s].t \in Transactions /\ txn \in [Transactions -> Transaction] /\ "none" \in Content
        /\ final' = txn[t].staged /\ final' \in Content
    BY <1>1, <1>5, <2>1, Standing, TypeSplit DEF Content, Run, Mine, Transaction
  <2>3. PICK x \in Transaction :
          /\ txn' = [txn EXCEPT ![op[s].t] = x]
          /\ x.kind = txn[op[s].t].kind /\ x.store = txn[op[s].t].store
          /\ x.dir = txn[op[s].t].dir /\ x.marker = txn[op[s].t].marker
          /\ x.staged = "none"
    BY <1>5, <2>2, HoldsThen
  <2>4. Moves(s, "sweep", t, x) /\ "sweep" \in Pcs
    BY <1>1, <1>5, <2>1, <2>2, <2>3, PcsAre, Standing, TypeSplit DEF Moves
  <2>5. ASSUME Durable' PROVE Sound(s, "sweep", t, x)
    <3>1. /\ Good /\ HeldAt(s, "promote", t, txn[t]) /\ txn[t].store = s /\ txn[t].kind # "unused"
          /\ t \notin {"none", "partial"} /\ disk \in Run
      BY <1>1, <1>5, <2>1, <2>5, Standing, TypeSplit, TransactionsAssumption
         DEF Durable, ArtifactsInv, Placed
    <3>2. final' = t /\ txn'[t] = x /\ \A u \in Transactions \ {t} : txn'[u] = txn[u]
      BY <2>1, <2>2, <2>3, <3>1 DEF HeldAt
    <3>3. s = "legacy" => disk = "none" /\ mode = "json"
      BY <1>1, <2>1, <3>1 DEF Good, Turns, HeldAt, Stores
    <3>4. s = "primary" => disk = t /\ \A u \in Transactions \ {t} : Empty(u)
      BY <2>1, <2>2, <3>1, OnlyOne DEF Good, HeldAt
    <3>5. Kept'
      BY <1>5, <2>3, <3>2, <3>3, <3>4 DEF Kept, Empty, Stores
    <3>6. Whole'
      BY <1>5, <2>1, <2>2, <2>3, <3>1, <3>2, <3>3, <3>4 DEF Whole, Stores
    <3>7. HeldAt(s, "sweep", t, x)'
      BY <1>5, <2>1, <2>3, <3>1, <3>2, <3>3, <3>4 DEF HeldAt, InPlace
    <3>8. memory' = disk'
      BY <1>1, <1>5, <3>1 DEF Good, Rows, ArtifactsInv, Placed
    <3>9. QED BY <1>1, <1>5, <3>3, <3>5, <3>6, <3>7, <3>8 DEF Sound
  <2>6. QED BY <2>4, <2>5, MovesKeep
<1>6. QED BY <1>3, <1>4, <1>5 DEF Promote

LEMMA UndoRowsStep ==
  ASSUME ArtifactsInv, Moderate, UndoRows, UNCHANGED <<mode, closing>>
  PROVE  ArtifactsInv'
<1>1. /\ op["primary"].pc = "undo_rows" /\ TypeOK /\ UNCHANGED <<final, txn, service>>
      /\ "primary" \in Stores /\ op["primary"].t \in Transactions
  BY Standing DEF UndoRows, At, ArtifactsInv, Stores
<1>2. /\ "none" \in Run /\ disk \in Run /\ memory \in Run /\ failed \subseteq MayFail
      /\ "undo_final" \in Pcs
  BY <1>1, PcsAre, TypeSplit DEF Run
<1>3. Durable => /\ Good /\ HeldAt("primary", "undo_rows", op["primary"].t, txn[op["primary"].t])
                 /\ failed # {}
  BY <1>1, Standing DEF HeldAt, Faulted
<1>4. CASE memory' = "none" /\ disk' = "none" /\ Goes("primary", "undo_final") /\ UNCHANGED failed
  <2>1. ASSUME Durable'
        PROVE  /\ Kept' /\ Whole'
               /\ \A t, x : t = op["primary"].t /\ x = txn[t] => HeldAt("primary", "undo_final", t, x)'
    <3>1. HeldAt("primary", "undo_rows", op["primary"].t, txn[op["primary"].t])
      BY <1>3, <1>4, <2>1 DEF Durable
    <3>2. Kept' /\ Whole'
      BY <1>1, <1>4, <3>1, TransactionsAssumption DEF HeldAt, Kept, Whole
    <3>3. QED BY <1>1, <1>4, <3>1, <3>2 DEF HeldAt, Faulted
  <2>2. QED BY <1>1, <1>2, <1>4, <2>1, WriteMoves
<1>5. CASE Fault("reject") /\ UNCHANGED <<memory, disk>> /\ Goes("primary", "undo_final")
  <2>1. failed = {} /\ failed' = {"reject"} /\ failed' \subseteq MayFail
    BY <1>2, <1>5, OneFault
  <2>2. ~Durable'
    BY <1>3, <2>1 DEF Durable
  <2>3. QED BY <1>1, <1>2, <1>5, <2>1, <2>2, WriteMoves
<1>6. CASE Fault("persist") /\ memory' = "none" /\ UNCHANGED disk /\ Goes("primary", "undo_final")
  <2>1. failed = {} /\ failed' = {"persist"} /\ failed' \subseteq MayFail
    BY <1>2, <1>6, OneFault
  <2>2. ~Durable'
    BY <2>1 DEF Durable
  <2>3. QED BY <1>1, <1>2, <1>6, <2>1, <2>2, WriteMoves
<1>7. QED BY <1>4, <1>5, <1>6 DEF UndoRows, Writes

LEMMA UndoFinalStep ==
  ASSUME ArtifactsInv, Moderate, NEW s \in Stores, UndoFinal(s), UNCHANGED <<mode, closing>>
  PROVE  ArtifactsInv'
<1>1. op[s].pc = "undo_final" /\ op[s].pc # "idle" /\ TypeOK
  BY DEF UndoFinal, At, ArtifactsInv
<1>2. op[s].pc \in DOMAIN Catch /\ op[s].pc \notin Sweeps
  BY <1>1 DEF Catch, Sweeps
<1>3. CASE Throws(s, "remove")
  BY <1>1, <1>2, <1>3, FaultKeeps
<1>4. CASE /\ final' = (IF final \in {"none", "partial"} THEN "none" ELSE "partial")
           /\ Goes(s, IF final' = "none" THEN "undo_sweep" ELSE "undo_final")
           /\ UNCHANGED <<memory, disk, txn, service, failed>>
  <2>1. PICK t, x : t = op[s].t /\ x = txn[t]
    OBVIOUS
  <2>2. PICK to : to = IF final' = "none" THEN "undo_sweep" ELSE "undo_final"
    OBVIOUS
  <2>3. /\ t \in Transactions /\ x \in Transaction /\ to \in Pcs
        /\ to \in {"undo_sweep", "undo_final"} /\ final' \in {"none", "partial"}
        /\ final = "none" => final' = "none"
        /\ to = "undo_final" => final # "none"
    BY <1>1, <1>4, <2>1, <2>2, PcsAre, Standing
  <2>4. Moves(s, to, t, x)
    BY <1>1, <1>4, <2>1, <2>2, <2>3, Standing, TypeSplit DEF Moves, Content, Run
  <2>5. ASSUME Durable' PROVE Sound(s, to, t, x)
    <3>1. Good /\ HeldAt(s, "undo_final", t, x)
      BY <1>1, <1>4, <2>1, <2>5, Standing DEF Durable
    <3>2. disk = "none" /\ (s = "legacy" => mode = "json")
      BY <1>1, <2>1, <3>1 DEF Good, Turns, HeldAt, Stores
    <3>3. Kept' /\ Whole'
      BY <1>4, <2>3, <3>1, <3>2, TransactionsAssumption DEF Kept, Whole, HeldAt
    <3>4. HeldAt(s, to, t, x)'
      BY <1>4, <2>3, <3>1, <3>2 DEF HeldAt, Faulted
    <3>5. memory' = disk'
      BY <1>1, <1>4, <3>1 DEF Good, Rows, ArtifactsInv, Placed
    <3>6. QED BY <1>1, <1>4, <2>3, <3>2, <3>3, <3>4, <3>5 DEF Sound
  <2>6. QED BY <2>3, <2>4, <2>5, MovesKeep
<1>5. QED BY <1>3, <1>4 DEF UndoFinal
LEMMA RetireMoveStep ==
  ASSUME ArtifactsInv, Moderate, NEW s \in Stores, RetireMove(s), UNCHANGED <<mode, closing>>
  PROVE  ArtifactsInv'
<1>1. op[s].pc = "retire_move" /\ op[s].pc # "idle" /\ TypeOK
  BY DEF RetireMove, At, ArtifactsInv
<1>2. op[s].pc \in DOMAIN Catch /\ op[s].pc \notin Sweeps
  BY <1>1 DEF Catch, Sweeps
<1>3. CASE Throws(s, "move")
  BY <1>1, <1>2, <1>3, FaultKeeps
<1>4. CASE final = "none" /\ Throw(s) /\ UNCHANGED <<memory, disk, final, txn, service>>
  <2>1. failed' \subseteq MayFail /\ failed \subseteq failed'
    BY <1>1, <1>4, TypeSplit DEF Throw
  <2>2. QED BY <1>1, <1>2, <1>4, <2>1, ThrownKeeps DEF Throw
<1>5. CASE /\ final # "none" /\ Changed(s, "staged", final) /\ final' = "none"
           /\ Goes(s, IF s = "primary" THEN "delete_rows" ELSE "retire_sweep")
           /\ UNCHANGED <<memory, disk, service, failed>>
  <2>1. PICK t, held : t = op[s].t /\ held = final
    OBVIOUS
  <2>2. /\ op[s].t \in Transactions /\ txn \in [Transactions -> Transaction] /\ held \in Content
        /\ Changed(s, "staged", held) /\ "none" \in Content
    BY <1>1, <1>5, <2>1, Standing, TypeSplit DEF Content, Run
  <2>3. PICK x \in Transaction :
          /\ txn' = [txn EXCEPT ![op[s].t] = x]
          /\ x.kind = txn[op[s].t].kind /\ x.store = txn[op[s].t].store
          /\ x.dir = txn[op[s].t].dir /\ x.marker = txn[op[s].t].marker
          /\ x.staged = held
    BY <2>2, HoldsThen
  <2>4. PICK to : to = IF s = "primary" THEN "delete_rows" ELSE "retire_sweep"
    OBVIOUS
  <2>5. Moves(s, to, t, x) /\ to \in Pcs
    BY <1>1, <1>5, <2>1, <2>2, <2>3, <2>4, PcsAre, Standing, TypeSplit DEF Moves
  <2>6. ASSUME Durable' PROVE Sound(s, to, t, x)
    <3>1. Good /\ HeldAt(s, "retire_move", t, txn[t])
      BY <1>1, <1>5, <2>1, <2>6, Standing DEF Durable
    <3>2. txn'[t] = x /\ \A u \in Transactions \ {t} : txn'[u] = txn[u]
      BY <2>1, <2>2, <2>3
    <3>3. s = "legacy" => disk = "none"
      BY <1>1, <3>1 DEF Good, Turns
    <3>4. s = "primary" => held = disk /\ disk # "none" /\ \A u \in Transactions : Empty(u)
      BY <1>5, <2>1, <3>1 DEF Good, HeldAt, InPlace, Kept
    <3>5. Kept'
      BY <1>5, <2>1, <2>2, <2>3, <3>1, <3>2, <3>3, <3>4 DEF Kept, Empty, Stores, HeldAt
    <3>6. Whole'
      BY <1>5, TransactionsAssumption DEF Whole
    <3>7. HeldAt(s, to, t, x)'
      BY <1>5, <2>1, <2>3, <2>4, <3>1, <3>3, <3>4 DEF HeldAt, Vacant, Stores
    <3>8. memory' = disk'
      BY <1>1, <1>5, <3>1 DEF Good, Rows, ArtifactsInv, Placed
    <3>9. QED BY <1>1, <1>5, <2>4, <3>3, <3>5, <3>6, <3>7, <3>8 DEF Sound
  <2>7. QED BY <2>5, <2>6, MovesKeep
<1>6. QED BY <1>3, <1>4, <1>5 DEF RetireMove

LEMMA DeleteRowsStep ==
  ASSUME ArtifactsInv, Moderate, DeleteRows, UNCHANGED <<mode, closing>>
  PROVE  ArtifactsInv'
<1>1. /\ op["primary"].pc = "delete_rows" /\ TypeOK /\ UNCHANGED <<final, txn, service>>
      /\ "primary" \in Stores /\ op["primary"].t \in Transactions
  BY Standing DEF DeleteRows, At, ArtifactsInv, Stores
<1>2. /\ "none" \in Run /\ disk \in Run /\ memory \in Run /\ failed \subseteq MayFail
      /\ {"retire_sweep", "retire_again", "restore"} \subseteq Pcs
  BY <1>1, PcsAre, TypeSplit DEF Run
<1>3. Durable => /\ Good /\ HeldAt("primary", "delete_rows", op["primary"].t, txn[op["primary"].t])
                 /\ memory = disk
  BY <1>1, Standing DEF Good, Rows, ArtifactsInv, Placed
<1>4. CASE memory' = "none" /\ disk' = "none" /\ Goes("primary", "retire_sweep") /\ UNCHANGED failed
  <2>1. ASSUME Durable'
        PROVE  /\ Kept' /\ Whole'
               /\ \A t, x : t = op["primary"].t /\ x = txn[t] => HeldAt("primary", "retire_sweep", t, x)'
    <3>1. HeldAt("primary", "delete_rows", op["primary"].t, txn[op["primary"].t])
      BY <1>3, <1>4, <2>1 DEF Durable
    <3>2. Kept' /\ Whole'
      BY <1>1, <1>4, <3>1, TransactionsAssumption DEF HeldAt, Kept, Whole
    <3>3. QED BY <1>1, <1>4, <3>1, <3>2 DEF HeldAt, Vacant
  <2>2. QED BY <1>1, <1>2, <1>4, <2>1, WriteMoves
<1>5. CASE Fault("reject") /\ UNCHANGED <<memory, disk>> /\ Goes("primary", "restore")
  <2>1. failed = {} /\ failed' = {"reject"} /\ failed' \subseteq MayFail
    BY <1>2, <1>5, OneFault
  <2>2. ASSUME Durable'
        PROVE  /\ Kept' /\ Whole' /\ memory' = disk'
               /\ \A t, x : t = op["primary"].t /\ x = txn[t] => HeldAt("primary", "restore", t, x)'
    <3>1. /\ HeldAt("primary", "delete_rows", op["primary"].t, txn[op["primary"].t])
          /\ Good /\ memory = disk
      BY <1>3, <2>1 DEF Durable
    <3>2. Kept' /\ Whole'
      BY <1>1, <1>5, <2>1, <3>1 DEF HeldAt, Kept, Empty, Whole, Good
    <3>3. QED BY <1>1, <1>5, <2>1, <3>1, <3>2 DEF HeldAt, Faulted
  <2>3. QED BY <1>1, <1>2, <1>5, <2>1, <2>2, WriteMoves
<1>6. CASE Fault("persist") /\ memory' = "none" /\ UNCHANGED disk /\ Goes("primary", "retire_again")
  <2>1. failed = {} /\ failed' = {"persist"} /\ failed' \subseteq MayFail
    BY <1>2, <1>6, OneFault
  <2>2. ~Durable'
    BY <2>1 DEF Durable
  <2>3. QED BY <1>1, <1>2, <1>6, <2>1, <2>2, WriteMoves
<1>7. QED BY <1>4, <1>5, <1>6 DEF DeleteRows, Writes

LEMMA RestoreStep ==
  ASSUME ArtifactsInv, Moderate, NEW s \in Stores, Restore(s), UNCHANGED <<mode, closing>>
  PROVE  ArtifactsInv'
<1>1. op[s].pc = "restore" /\ op[s].pc # "idle" /\ TypeOK
  BY DEF Restore, At, ArtifactsInv
<1>2. op[s].pc \in DOMAIN Catch /\ op[s].pc \notin Sweeps
  BY <1>1 DEF Catch, Sweeps
<1>3. CASE Throws(s, "move")
  BY <1>1, <1>2, <1>3, FaultKeeps
<1>4. CASE final # "none" /\ Throw(s) /\ UNCHANGED <<memory, disk, final, txn, service>>
  <2>1. ~Durable'
    BY <1>1, <1>4, Standing DEF HeldAt, Throw, Durable
  <2>2. failed' \subseteq MayFail /\ failed \subseteq failed'
    BY <1>1, <1>4, TypeSplit DEF Throw
  <2>3. QED BY <1>1, <1>2, <1>4, <2>1, <2>2, ThrownKeeps DEF Throw
<1>5. CASE /\ final' = (IF final = "none" THEN Mine(s).staged ELSE final)
           /\ Changed(s, "staged", "none") /\ Goes(s, "restore_sweep")
           /\ UNCHANGED <<memory, disk, service, failed>>
  <2>1. PICK t : t = op[s].t
    OBVIOUS
  <2>2. /\ op[s].t \in Transactions /\ txn \in [Transactions -> Transaction] /\ "none" \in Content
        /\ final' = (IF final = "none" THEN txn[t].staged ELSE final) /\ final' \in Content
    BY <1>1, <1>5, <2>1, Standing, TypeSplit DEF Content, Run, Mine, Transaction
  <2>3. PICK x \in Transaction :
          /\ txn' = [txn EXCEPT ![op[s].t] = x]
          /\ x.kind = txn[op[s].t].kind /\ x.store = txn[op[s].t].store
          /\ x.dir = txn[op[s].t].dir /\ x.marker = txn[op[s].t].marker
          /\ x.staged = "none"
    BY <1>5, <2>2, HoldsThen
  <2>4. Moves(s, "restore_sweep", t, x) /\ "restore_sweep" \in Pcs
    BY <1>1, <1>5, <2>1, <2>2, <2>3, PcsAre, Standing, TypeSplit DEF Moves
  <2>5. ASSUME Durable' PROVE Sound(s, "restore_sweep", t, x)
    <3>1. Good /\ HeldAt(s, "restore", t, txn[t]) /\ disk \in Run
      BY <1>1, <1>5, <2>1, <2>5, Standing, TypeSplit DEF Durable
    <3>2. /\ final' = txn[t].staged /\ txn'[t] = x
          /\ \A u \in Transactions \ {t} : txn'[u] = txn[u]
      BY <2>1, <2>2, <2>3, <3>1 DEF HeldAt
    <3>3. s = "legacy" => disk = "none" /\ "remove" \in failed
      BY <1>1, <2>1, <3>1 DEF Good, Turns, HeldAt, Stores
    <3>4. s = "primary" => /\ final' = disk /\ disk \notin {"none", "partial"}
                           /\ \A u \in Transactions \ {t} : Empty(u)
      BY <2>1, <2>2, <3>1, <3>2, OnlyOne, TransactionsAssumption DEF Good, HeldAt, Run
    <3>5. Kept'
      BY <1>5, <2>3, <3>2, <3>3, <3>4 DEF Kept, Empty, Stores
    <3>6. Whole'
      BY <1>5, <3>3, <3>4 DEF Whole, Stores
    <3>7. HeldAt(s, "restore_sweep", t, x)'
      BY <1>5, <2>1, <2>3, <3>1, <3>2, <3>3, <3>4 DEF HeldAt, InPlace, Faulted
    <3>8. memory' = disk'
      BY <1>1, <1>5, <3>1 DEF Good, Rows, ArtifactsInv, Placed
    <3>9. QED BY <1>1, <1>5, <3>3, <3>5, <3>6, <3>7, <3>8 DEF Sound
  <2>6. QED BY <2>4, <2>5, MovesKeep
<1>6. QED BY <1>3, <1>4, <1>5 DEF Restore
\* What a recursive removal takes is not the run in the database file.
LEMMA SweptIsNotKept ==
  ASSUME Good, NEW s \in Stores, op[s].pc \in Sweeps, NEW t, NEW x, HeldAt(s, op[s].pc, t, x)
  PROVE  disk = "none" \/ (final = disk /\ \A u \in Transactions : Empty(u))
<1>1. s = "legacy" => disk = "none"
  BY DEF Good, Turns, Sweeps
<1>2. s = "primary" => disk = "none" \/ final = disk
  BY DEF HeldAt, Sweeps, Vacant, InPlace
<1>3. QED BY <1>1, <1>2 DEF Good, Kept, Stores

LEMMA StaysWhere ==
  ASSUME TypeOK, NEW s \in Stores, op[s].pc # "idle", UNCHANGED op
  PROVE  Goes(s, op[s].pc)
<1>1. PICK o \in Position : o = op[s]
  BY TypeSplit
<1>2. [o EXCEPT !.pc = o.pc] = o
  BY DEF Position
<1>3. op' = [op EXCEPT ![s] = [op[s] EXCEPT !.pc = op[s].pc]]
  BY <1>1, <1>2, TypeSplit
<1>4. QED BY <1>3 DEF Goes

LEMMA RemovePartStep ==
  ASSUME ArtifactsInv, NEW s \in Stores, RemovePart(s), UNCHANGED <<mode, closing>>
  PROVE  ArtifactsInv'
<1>1. /\ op[s].pc \in Sweeps /\ op[s].pc # "idle" /\ TypeOK
      /\ UNCHANGED <<memory, disk, final, service, op, failed, mode, closing>>
  BY DEF RemovePart, Sweeps, ArtifactsInv
<1>2. PICK t, pc : t = op[s].t /\ pc = op[s].pc
  OBVIOUS
<1>3. /\ op[s].t \in Transactions /\ txn \in [Transactions -> Transaction] /\ pc \in Pcs
      /\ Goes(s, pc) /\ txn[t] \in Transaction
  BY <1>1, <1>2, Standing, StaysWhere, TypeSplit
<1>4. PICK x \in Transaction :
        /\ txn' = [txn EXCEPT ![op[s].t] = x]
        /\ x.kind = txn[op[s].t].kind /\ x.store = txn[op[s].t].store
        /\ x.dir = txn[op[s].t].dir
        /\ \/ txn[op[s].t].staged # "none"
           \/ x.staged = txn[op[s].t].staged
  <2>1. CASE /\ Mine(s).staged # "none"
             /\ Changed(s, "staged", IF Mine(s).staged = "partial" THEN "none" ELSE "partial")
    <3>1. PICK held \in Content : held = IF Mine(s).staged = "partial" THEN "none" ELSE "partial"
      BY DEF Content, Run
    <3>2. QED BY <1>3, <2>1, <3>1, HoldsThen DEF Mine
  <2>2. CASE Changed(s, "marker", FALSE)
    <3>1. PICK marked \in BOOLEAN : marked = FALSE
      OBVIOUS
    <3>2. QED BY <1>3, <2>2, <3>1, MarkedThen
  <2>3. QED BY <2>1, <2>2 DEF RemovePart
<1>5. Moves(s, pc, t, x)
  BY <1>1, <1>2, <1>3, <1>4, Standing, TypeSplit DEF Moves
<1>6. ASSUME Durable' PROVE Sound(s, pc, t, x)
  <2>1. Good /\ HeldAt(s, pc, t, txn[t])
    BY <1>1, <1>2, <1>6, Standing DEF Durable
  <2>2. disk = "none" \/ (final = disk /\ \A u \in Transactions : Empty(u))
    BY <1>1, <1>2, <2>1, SweptIsNotKept
  <2>3. disk # "none" => \A u \in Transactions : Empty(u)'
    BY <1>1, <1>2, <1>3, <1>4, <2>2 DEF Empty
  <2>4. Kept'
    BY <1>1, <2>2, <2>3 DEF Kept
  <2>5. Whole'
    BY <1>1, <1>3, <1>4, <2>1 DEF Good, Whole
  <2>6. HeldAt(s, pc, t, x)'
    BY <1>1, <1>2, <1>4, <2>1 DEF HeldAt, Sweeps, Faulted, Vacant, InPlace
  <2>7. memory' = disk'
    BY <1>1, <2>1 DEF Good, Rows, ArtifactsInv, Placed
  <2>8. QED BY <1>1, <1>2, <2>4, <2>5, <2>6, <2>7 DEF Sound
<1>7. QED BY <1>3, <1>4, <1>5, <1>6, MovesKeep

LEMMA RemoveDirStep ==
  ASSUME ArtifactsInv, NEW s \in Stores, RemoveDir(s), UNCHANGED <<mode, closing>>
  PROVE  ArtifactsInv'
<1>1. /\ op[s].pc \in Sweeps /\ op[s].pc # "idle" /\ TypeOK /\ Goes(s, "idle")
      /\ UNCHANGED <<memory, disk, final, service, failed, mode, closing>>
      /\ txn[op[s].t].staged = "none" /\ ~txn[op[s].t].marker
  BY DEF RemoveDir, Sweeps, ArtifactsInv, Mine
<1>2. PICK t : t = op[s].t
  OBVIOUS
<1>3. /\ op[s].t \in Transactions /\ txn \in [Transactions -> Transaction] /\ "idle" \in Pcs
  BY <1>1, Standing, TypeSplit, PcsAre
<1>4. PICK x \in Transaction :
        /\ txn' = [txn EXCEPT ![op[s].t] = x]
        /\ x.kind = txn[op[s].t].kind /\ x.store = txn[op[s].t].store
        /\ x.dir = FALSE /\ x.marker = txn[op[s].t].marker
        /\ x.staged = txn[op[s].t].staged
  BY <1>3, RemovedThen DEF RemoveDir
<1>5. Moves(s, "idle", t, x)
  BY <1>1, <1>2, <1>3, <1>4, TypeSplit DEF Moves
<1>6. ASSUME Durable' PROVE Sound(s, "idle", t, x)
  <2>1. Good /\ HeldAt(s, op[s].pc, t, txn[t])
    BY <1>1, <1>2, <1>6, Standing DEF Durable
  <2>2. disk = "none" \/ final = disk
    BY <1>1, <2>1, SweptIsNotKept
  <2>3. \A u \in Transactions :
           /\ txn'[u].staged = txn[u].staged /\ (txn[u].marker => txn'[u].marker)
           /\ txn'[u].store = txn[u].store /\ txn'[u].kind = txn[u].kind
    BY <1>1, <1>3, <1>4
  <2>4. Kept' /\ Whole'
    BY <1>1, <2>1, <2>3, SamePicture DEF Good
  <2>5. memory' = disk'
    BY <1>1, <2>1 DEF Good, Rows, ArtifactsInv, Placed
  <2>6. QED BY <1>1, <1>4, <2>2, <2>4, <2>5 DEF Sound
<1>7. QED BY <1>3, <1>4, <1>5, <1>6, MovesKeep

LEMMA StoreStep ==
  ASSUME ArtifactsInv, Moderate, NEW s \in Stores, Step(s)
  PROVE  ArtifactsInv'
<1>1. UNCHANGED <<mode, closing>>
  BY DEF Step
<1>2. CASE RemoveFails(s)
  <2>1. /\ Throws(s, "remove") /\ op[s].pc \in DOMAIN Catch /\ op[s].pc # "insert"
    BY <1>2 DEF RemoveFails, Sweeps, Catch
  <2>2. QED BY <1>1, <2>1, FaultKeeps
<1>3. QED BY <1>1, <1>2, WriteMarkerStep, StageStep, FillStep, PromoteStep, UndoFinalStep, InsertStep,
             UndoRowsStep, DeleteRowsStep, RetireMoveStep, RestoreStep, RemovePartStep, RemoveDirStep
             DEF Step
-----------------------------------------------------------------------------
(* What begins, and the service.                                            *)

LEMMA BeginKeeps ==
  ASSUME ArtifactsInv, NEW s \in Stores, NEW kind \in {"create", "retire"}, NEW t \in Transactions,
         Begin(s, kind, t), closing' \in 0 .. MaxClosing, closing' <= closing,
         Durable /\ kind = "create" => /\ Vacant /\ (s = "legacy" <=> mode = "json")
                                       /\ closing' = 0 /\ op["legacy"].pc = "idle",
         Durable /\ kind = "retire" => IF s = "primary" THEN disk # "none" ELSE closing > 0
  PROVE  ArtifactsInv'
<1>1. /\ TypeOK /\ Placed /\ service = "up" /\ op[s].pc = "idle" /\ txn[t].kind = "unused"
      /\ UNCHANGED <<mode, memory, disk, final, service, failed>>
      /\ txn[t] \in Transaction /\ closing \in Nat
  BY TypeSplit DEF ArtifactsInv, Begin, At
<1>2. PICK o : o = [pc |-> "marker", t |-> t]
  OBVIOUS
<1>3. PICK x : x = [txn[t] EXCEPT !.kind = kind, !.store = s, !.dir = TRUE]
  OBVIOUS
<1>4. o \in Position /\ o.pc = "marker" /\ o.t = t
  BY <1>2, PcsAre DEF Position, Run
<1>5. /\ x \in Transaction /\ x.kind = kind /\ x.store = s /\ x.dir = TRUE
      /\ x.marker = txn[t].marker /\ x.staged = txn[t].staged
  BY <1>1, <1>3 DEF Transaction
<1>6. /\ op' \in [Stores -> Position] /\ op'[s] = o /\ \A r \in Stores \ {s} : op'[r] = op[r]
  BY <1>1, <1>2, <1>4, TypeSplit DEF Begin
<1>7. /\ txn' \in [Transactions -> Transaction] /\ txn'[t] = x
      /\ \A u \in Transactions \ {t} : txn'[u] = txn[u]
  BY <1>1, <1>3, <1>5, TypeSplit DEF Begin
<1>8. \A r \in Stores \ {s} : op[r].pc # "idle" => op[r].t # t /\ txn'[op[r].t] = txn[op[r].t]
  BY <1>1, <1>7 DEF Placed
<1>9. TypeOK'
  <2>1. \A u \in Transactions : ~txn'[u].dir => ~txn'[u].marker /\ txn'[u].staged = "none"
    BY <1>1, <1>5, <1>7, TypeSplit
  <2>2. QED BY <1>1, <1>6, <1>7, <2>1, TypeSplit DEF TypeOK, Transaction, Position, Pcs
<1>10. Placed'
  BY <1>1, <1>4, <1>5, <1>6, <1>7, <1>8 DEF Placed
<1>11. ASSUME Durable' PROVE Good'
  <2>1. Good /\ Durable /\ memory = disk
    BY <1>1, <1>11 DEF Durable, ArtifactsInv, Good, Rows
  <2>2. \A r \in Stores : op[r].t # t
    BY <1>1, TransactionsAssumption DEF Placed, Idle
  <2>3. x.staged = "none"
    BY <1>1, <1>5, <2>1, <2>2 DEF Good, Strays, Empty
  <2>4. \A u \in Transactions : Empty(u)' <=> Empty(u)
    BY <1>5, <1>7 DEF Empty
  <2>5. Kept'
    BY <1>1, <1>5, <1>7, <2>1, <2>4 DEF Good, Kept
  <2>6. Whole'
    BY <1>1, <1>5, <1>7, <2>1 DEF Good, Whole
  <2>7. Turns'
    BY <1>1, <1>4, <1>6, <2>1 DEF Good, Turns, Rows, Stores, Vacant
  <2>8. Strays'
    <3>1. ASSUME NEW u \in Transactions, \A r \in Stores : op'[r].t # u
          PROVE  Empty(u)'
      <4>1. op[s].t # u
        BY <1>1, TransactionsAssumption DEF Placed, Idle
      <4>2. \A r \in Stores : op[r].t # u
        BY <1>6, <3>1, <4>1
      <4>3. QED BY <1>1, <2>1, <2>4, <4>2 DEF Good, Strays
    <3>2. op'["primary"].pc = "idle" /\ disk' # "none" => final' = disk'
      BY <1>1, <1>4, <1>6, <2>1 DEF Good, Strays, Stores
    <3>3. QED BY <3>1, <3>2 DEF Strays
  <2>9. Rows'
    BY <1>1, <1>4, <1>6, <2>1 DEF Good, Rows, Stores, Vacant, Turns
  <2>10. Held(s)'
    <3>1. s = "primary" /\ kind # "create" => InPlace
      BY <1>1, <2>1 DEF Good, Strays, InPlace
    <3>2. HeldAt(s, "marker", t, x)'
      BY <1>1, <1>5, <2>1, <2>3, <3>1 DEF HeldAt, Vacant, InPlace
    <3>3. QED BY <1>4, <1>6, <1>7, <3>2 DEF Held
  <2>11. ASSUME NEW r \in Stores \ {s} PROVE Held(r)'
    BY <1>1, <1>6, <1>8, <2>1 DEF Good, Held, HeldAt, Faulted, InPlace, Vacant
  <2>12. QED BY <2>5, <2>6, <2>7, <2>8, <2>9, <2>10, <2>11 DEF Good
<1>12. QED BY <1>9, <1>10, <1>11 DEF ArtifactsInv

LEMMA BeginSteps ==
  ASSUME ArtifactsInv, Moderate, NEW t \in Transactions,
         BeginCreate(t) \/ BeginRetire(t) \/ BeginLegacyRetire(t)
  PROVE  ArtifactsInv'
<1>1. TypeOK /\ closing \in 0 .. MaxClosing /\ MaxClosing \in Nat
  BY FaultsAssumption, TypeSplit DEF ArtifactsInv
<1>2. Durable /\ service = "up" => memory = disk
  BY DEF ArtifactsInv, Good, Rows
<1>3. CASE BeginCreate(t)
  <2>1. PICK s \in Stores : s = Creator
    BY DEF Creator, Stores
  <2>2. Begin(s, "create", t) /\ closing' = closing /\ service = "up"
    BY <1>3, <2>1 DEF BeginCreate, Begin
  <2>3. closing = 0 /\ op["legacy"].pc = "idle"
    BY <1>3 DEF BeginCreate, Moderate, At
  <2>4. Durable => Vacant
    BY <1>2, <1>3, <2>2 DEF BeginCreate, CanCreate, Vacant
  <2>5. s = "legacy" <=> mode = "json"
    BY <1>1, <2>1 DEF Creator, TypeOK
  <2>6. QED BY <1>1, <2>2, <2>3, <2>4, <2>5, BeginKeeps
<1>4. CASE BeginRetire(t)
  <2>1. "primary" \in Stores /\ Begin("primary", "retire", t) /\ closing' = closing
        /\ (Durable => disk # "none")
    BY <1>2, <1>4 DEF BeginRetire, Begin, Stores
  <2>2. QED BY <1>1, <2>1, BeginKeeps
<1>5. CASE BeginLegacyRetire(t)
  <2>1. /\ "legacy" \in Stores /\ Begin("legacy", "retire", t) /\ closing > 0
        /\ closing' \in 0 .. MaxClosing /\ closing' <= closing
    BY <1>1, <1>5 DEF BeginLegacyRetire, Stores
  <2>2. QED BY <2>1, BeginKeeps
<1>6. QED BY <1>3, <1>4, <1>5

LEMMA CloseSteps ==
  ASSUME ArtifactsInv, CloseLegacy \/ LegacyRetireMissing \/ OtherWrite
  PROVE  ArtifactsInv'
<1>1. TypeOK /\ Placed /\ (Durable => Good) /\ closing \in 0 .. MaxClosing /\ MaxClosing \in Nat
      /\ (service = "up" /\ Durable => memory = disk)
  BY FaultsAssumption, TypeSplit DEF ArtifactsInv, Good, Rows
<1>2. CASE CloseLegacy
  <2>1. /\ UNCHANGED <<mode, memory, disk, final, txn, service, op, failed>> /\ service = "up"
        /\ closing' \in 0 .. MaxClosing
    BY <1>1, <1>2 DEF CloseLegacy
  <2>2. TypeOK' /\ Placed'
    BY <1>1, <2>1 DEF TypeOK, Placed, Creator
  <2>3. ASSUME Durable' PROVE Good'
    <3>1. Good /\ Durable /\ memory = disk
      BY <1>1, <2>1, <2>3 DEF Durable
    <3>2. disk = "none"
      BY <1>1, <1>2, <3>1 DEF CloseLegacy, Dispatch, Good, Rows, TypeOK
    <3>3. op["primary"].pc \in {"idle", "undo_final", "undo_sweep"}
      <4>1. CASE op["primary"].pc # "idle"
        <5>1. /\ HeldAt("primary", op["primary"].pc, op["primary"].t, txn[op["primary"].t])
              /\ op["primary"].pc \in Pcs /\ op["primary"].pc # "recover_sweep" /\ final # "none"
          BY <1>1, <1>2, <2>1, <3>1, <4>1, Standing DEF Placed, Stores, CloseLegacy
        <5>2. QED BY <3>2, <5>1, PcsAre DEF HeldAt, Vacant, InPlace
      <4>2. QED BY <4>1
    <3>4. Turns'
      BY <2>1, <3>2, <3>3 DEF Turns
    <3>5. QED BY <2>1, <3>1, <3>4
            DEF Good, Kept, Whole, Strays, Rows, Held, HeldAt, Empty, Vacant, InPlace, Faulted
  <2>4. QED BY <2>2, <2>3 DEF ArtifactsInv
<1>3. CASE LegacyRetireMissing
  <2>1. /\ UNCHANGED <<mode, memory, disk, final, txn, service, op, failed>>
        /\ closing > 0 /\ closing' = closing - 1 /\ closing' \in 0 .. MaxClosing
    BY <1>1, <1>3 DEF LegacyRetireMissing
  <2>2. TypeOK' /\ Placed'
    BY <1>1, <2>1 DEF TypeOK, Placed, Creator
  <2>3. Durable' => Good'
    BY <1>1, <2>1
       DEF Durable, Good, Kept, Whole, Turns, Strays, Rows, Held, HeldAt, Empty, Vacant, InPlace, Faulted
  <2>4. QED BY <2>2, <2>3 DEF ArtifactsInv
<1>4. CASE OtherWrite
  <2>1. /\ UNCHANGED <<mode, memory, final, txn, service, op, closing, failed>>
        /\ disk' = memory /\ disk # memory /\ service = "up"
    BY <1>4 DEF OtherWrite
  <2>2. TypeOK' /\ Placed' /\ ~Durable'
    BY <1>1, <2>1 DEF TypeOK, Placed, Creator, Durable
  <2>3. QED BY <2>2 DEF ArtifactsInv
<1>5. QED BY <1>2, <1>3, <1>4
LEMMA StopsKeeps ==
  ASSUME ArtifactsInv, Stops, UNCHANGED <<mode, disk, final, txn>>,
         failed \subseteq failed', failed' \subseteq MayFail
  PROVE  ArtifactsInv'
<1>1. /\ TypeOK /\ Placed /\ (Durable => Good) /\ MaxClosing \in Nat
      /\ service' = "down" /\ memory' = "none" /\ closing' = 0
      /\ \A s \in Stores : op'[s] = Idle
      /\ op' \in [Stores -> Position]
  BY FaultsAssumption, PcsAre DEF ArtifactsInv, Stops, Idle, Position, Run
<1>2. TypeOK'
  BY <1>1, TypeSplit DEF TypeOK, Transaction, Position, Pcs, Run
<1>3. Placed'
  BY <1>1 DEF Placed, Idle
<1>4. ASSUME Durable' PROVE Good'
  <2>1. Good
    BY <1>1, <1>4 DEF Durable
  <2>2. Kept' /\ Whole'
    BY <2>1 DEF Good, Kept, Whole, Empty
  <2>3. Turns' /\ Strays' /\ \A s \in Stores : Held(s)'
    BY <1>1 DEF Turns, Strays, Held, Idle, Stores
  <2>4. Rows'
    BY <1>1, <2>1 DEF Good, Rows, Idle, Stores
  <2>5. QED BY <2>2, <2>3, <2>4 DEF Good
<1>5. QED BY <1>2, <1>3, <1>4 DEF ArtifactsInv

LEMMA StopSteps ==
  ASSUME ArtifactsInv, Moderate, Crash \/ RefuseStart \/ RecoverFails
  PROVE  ArtifactsInv'
<1>1. failed \subseteq MayFail
  BY TypeSplit DEF ArtifactsInv
<1>2. CASE Crash \/ RefuseStart
  BY <1>1, <1>2, StopsKeeps DEF Crash, RefuseStart
<1>3. CASE RecoverFails
  <2>1. Stops /\ UNCHANGED <<mode, disk, final, txn>> /\ (Fault("move") \/ Fault("remove"))
    BY <1>3 DEF RecoverFails
  <2>2. failed \subseteq failed' /\ failed' \subseteq MayFail
    BY <1>1, <2>1, OneFault
  <2>3. QED BY <2>1, <2>2, StopsKeeps
<1>4. QED BY <1>2, <1>3

LEMMA StartStep ==
  ASSUME ArtifactsInv, Start
  PROVE  ArtifactsInv'
<1>1. /\ TypeOK /\ Placed /\ (Durable => Good) /\ service = "down" /\ service' = "starting"
      /\ mode' \in {mode, "hybrid"} /\ memory' = disk
      /\ UNCHANGED <<disk, final, txn, op, closing, failed>>
  BY DEF ArtifactsInv, Start
<1>2. \A s \in Stores : op[s] = Idle /\ op'[s] = Idle
  BY <1>1 DEF Placed
<1>3. TypeOK'
  BY <1>1 DEF TypeOK
<1>4. Placed'
  BY <1>1, <1>2 DEF Placed, Idle
<1>5. ASSUME Durable' PROVE Good'
  <2>1. Good
    BY <1>1, <1>5 DEF Durable
  <2>2. Kept' /\ Whole'
    BY <1>1, <2>1 DEF Good, Kept, Whole, Empty
  <2>3. Turns'
    BY <1>1, <1>2 DEF Turns, Idle, Stores, Placed
  <2>4. Strays' /\ \A s \in Stores : Held(s)'
    BY <1>1, <1>2 DEF Strays, Held, Idle
  <2>5. Rows'
    BY <1>1, <1>2, <2>1 DEF Good, Rows, Idle, Stores
  <2>6. QED BY <2>2, <2>3, <2>4, <2>5 DEF Good
<1>6. QED BY <1>3, <1>4, <1>5 DEF ArtifactsInv

LEMMA ReadyStep ==
  ASSUME ArtifactsInv, Ready
  PROVE  ArtifactsInv'
<1>1. /\ TypeOK /\ Placed /\ (Durable => Good) /\ service = "starting" /\ service' = "up"
      /\ op[Creator].pc = "idle" /\ Left = {}
      /\ UNCHANGED <<mode, memory, disk, final, txn, op, closing, failed>>
  BY DEF ArtifactsInv, Ready, Reconciling, At
<1>2. \A s \in Stores : op[s] = Idle
  BY <1>1 DEF Placed
<1>3. \A t \in Transactions : Empty(t)
  BY <1>1, TypeSplit DEF Left, Empty
<1>4. TypeOK'
  BY <1>1 DEF TypeOK
<1>5. Placed'
  BY <1>1, <1>2 DEF Placed, Idle
<1>6. ASSUME Durable' PROVE Good'
  <2>1. Good
    BY <1>1, <1>6 DEF Durable
  <2>2. Kept' /\ Whole' /\ Turns'
    BY <1>1, <2>1 DEF Good, Kept, Whole, Turns, Empty
  <2>3. disk # "none" => final = disk
    <3>1. ASSUME NEW t \in Transactions, disk # "none", txn[t].staged = disk
          PROVE  FALSE
      BY <1>3, <3>1 DEF Empty
    <3>2. QED BY <2>1, <3>1 DEF Good, Kept
  <2>4. Strays' /\ Rows' /\ \A s \in Stores : Held(s)'
    BY <1>1, <1>2, <1>3, <2>1, <2>3 DEF Good, Strays, Rows, Held, Idle, Empty
  <2>5. QED BY <2>2, <2>4 DEF Good
<1>7. QED BY <1>4, <1>5, <1>6 DEF ArtifactsInv

\* The directory restored for a committed run is its own: no other is left.
LEMMA RecoverStep ==
  ASSUME ArtifactsInv, NEW t \in Transactions, Recover(t)
  PROVE  ArtifactsInv'
<1>1. /\ TypeOK /\ Placed /\ (Durable => Good) /\ service = "starting" /\ op[Creator].pc = "idle"
      /\ txn[t].dir /\ ~Refuses(t) /\ txn[t] \in Transaction /\ Creator \in Stores
      /\ op' = [op EXCEPT ![Creator] = [pc |-> "recover_sweep", t |-> t]]
      /\ UNCHANGED <<mode, memory, disk, service, closing, failed>>
  BY TypeSplit DEF ArtifactsInv, Recover, Reconciling, At, Left, Creator, Stores
<1>2. PICK s \in Stores : s = Creator
  BY <1>1
<1>3. PICK o : o = [pc |-> "recover_sweep", t |-> t]
  OBVIOUS
<1>4. o \in Position /\ o.pc = "recover_sweep" /\ o.t = t
  BY <1>3, PcsAre DEF Position, Run
<1>5. /\ op' \in [Stores -> Position] /\ op'[s] = o /\ \A r \in Stores \ {s} : op'[r] = op[r]
      /\ \A r \in Stores : op[r] = Idle
      /\ s = "legacy" <=> mode = "json"
  BY <1>1, <1>2, <1>3, <1>4, TypeSplit DEF Placed, Creator, Stores
<1>6. PICK x \in Transaction :
        /\ txn' = [txn EXCEPT ![t] = x]
        /\ x.kind = txn[t].kind /\ x.store = txn[t].store /\ x.dir = txn[t].dir
        /\ x.marker = txn[t].marker
        /\ x.staged = (IF Unfinished(t) THEN "none" ELSE txn[t].staged)
        /\ final' = (IF Unfinished(t) THEN txn[t].staged ELSE final)
  <2>1. CASE Unfinished(t)
    <3>1. PICK x : x = [txn[t] EXCEPT !.staged = "none"]
      OBVIOUS
    <3>2. /\ x \in Transaction
          /\ x.kind = txn[t].kind /\ x.store = txn[t].store /\ x.dir = txn[t].dir
          /\ x.marker = txn[t].marker /\ x.staged = "none"
      BY <1>1, <3>1 DEF Transaction, Content, Run
    <3>3. txn' = [txn EXCEPT ![t] = x] /\ final' = txn[t].staged
      BY <2>1, <3>1 DEF Recover
    <3>4. QED BY <2>1, <3>2, <3>3
  <2>2. CASE ~Unfinished(t)
    <3>1. txn' = [txn EXCEPT ![t] = txn[t]] /\ final' = final
      BY <1>1, <2>2, TypeSplit DEF Recover
    <3>2. QED BY <1>1, <2>2, <3>1
  <2>3. QED BY <2>1, <2>2
<1>7. /\ txn' \in [Transactions -> Transaction] /\ txn'[t] = x
      /\ \A u \in Transactions \ {t} : txn'[u] = txn[u]
  BY <1>1, <1>6, TypeSplit
<1>8. TypeOK'
  <2>1. \A u \in Transactions : ~txn'[u].dir => ~txn'[u].marker /\ txn'[u].staged = "none"
    BY <1>1, <1>6, <1>7, TypeSplit
  <2>2. final' \in Content
    BY <1>1, <1>6, TypeSplit DEF Transaction
  <2>3. QED BY <1>1, <1>5, <1>7, <2>1, <2>2, TypeSplit DEF TypeOK, Transaction, Position, Pcs
<1>9. Placed'
  <2>1. x.kind # "unused" /\ \A u \in Transactions : txn'[u].dir => txn'[u].kind # "unused"
    BY <1>1, <1>6, <1>7 DEF Placed
  <2>2. \A r \in Stores \ {s} : op'[r] = Idle
    BY <1>5
  <2>3. Creator' = s
    BY <1>1, <1>2 DEF Creator
  <2>4. QED BY <1>1, <1>4, <1>5, <1>6, <1>7, <2>1, <2>2, <2>3 DEF Placed, Idle
<1>10. ASSUME Durable' PROVE Good'
  <2>1. Good /\ memory = disk /\ disk \in Run
    BY <1>1, <1>10, TypeSplit DEF Durable, Good, Rows
  <2>2. CASE Unfinished(t)
    <3>1. disk # "none" /\ final = "none" /\ txn[t].staged # "none"
      BY <1>1, <2>1, <2>2 DEF Unfinished, Refuses, Committed
    <3>2. txn[t].staged = disk /\ \A u \in Transactions \ {t} : Empty(u)
      BY <2>1, <3>1, OnlyOne DEF Good
    <3>3. final' = disk /\ \A u \in Transactions : Empty(u)'
      BY <1>6, <1>7, <2>2, <3>2 DEF Empty
    <3>4. Kept' /\ Whole'
      BY <1>1, <2>1, <3>1, <3>3, TransactionsAssumption DEF Kept, Whole, Run
    <3>5. mode # "json"
      BY <2>1, <3>1 DEF Good, Rows
    <3>6. Turns' /\ Strays' /\ Rows'
      BY <1>1, <1>5, <2>1, <3>5 DEF Good, Turns, Strays, Rows, Stores, Placed, Idle
    <3>7. HeldAt(s, "recover_sweep", t, x)'
      BY <1>1, <1>5, <3>3, <3>5 DEF HeldAt
    <3>8. \A r \in Stores : Held(r)'
      BY <1>4, <1>5, <1>7, <3>7 DEF Held, Idle
    <3>9. QED BY <3>4, <3>6, <3>8 DEF Good
  <2>3. CASE ~Unfinished(t)
    <3>1. UNCHANGED final /\ x.staged = txn[t].staged
      BY <1>6, <2>3
    <3>2. disk = "none" \/ final = disk
      BY <1>1, <2>1, <2>3 DEF Unfinished, Committed, Good, Kept
    <3>3. \A u \in Transactions :
           /\ txn'[u].staged = txn[u].staged /\ (txn[u].marker => txn'[u].marker)
           /\ txn'[u].store = txn[u].store /\ txn'[u].kind = txn[u].kind
      BY <1>6, <1>7, <3>1
    <3>4. Kept' /\ Whole'
      BY <1>1, <2>1, <3>1, <3>3, SamePicture DEF Good
    <3>5. Turns' /\ Strays' /\ Rows'
      BY <1>1, <1>5, <2>1 DEF Good, Turns, Strays, Rows, Stores, Placed, Idle
    <3>6. HeldAt(s, "recover_sweep", t, x)'
      BY <1>1, <3>1, <3>2 DEF HeldAt
    <3>7. \A r \in Stores : Held(r)'
      BY <1>4, <1>5, <1>7, <3>6 DEF Held, Idle
    <3>8. QED BY <3>4, <3>5, <3>7 DEF Good
  <2>4. QED BY <2>2, <2>3
<1>11. QED BY <1>8, <1>9, <1>10 DEF ArtifactsInv

-----------------------------------------------------------------------------
(* The theorems.                                                             *)

LEMMA InitArtifacts == Init => ArtifactsInv
<1> SUFFICES ASSUME Init PROVE ArtifactsInv
  OBVIOUS
<1>1. /\ \A t \in Transactions : txn[t] = Unused
      /\ Unused \in Transaction
      /\ txn \in [Transactions -> Transaction]
      /\ Idle \in Position /\ op \in [Stores -> Position]
      /\ \A s \in Stores : op[s] = Idle
  BY PcsAre DEF Init, Unused, Transaction, Stores, Content, Run, Idle, Position
<1>2. TypeOK
  BY <1>1, FaultsAssumption DEF Init, TypeOK, Transaction, Position, Pcs, Unused, Content, Run
<1>3. Placed
  BY <1>1 DEF Init, Placed, Unused, Idle
<1>4. Kept /\ Whole /\ Turns /\ Strays /\ Rows
  BY <1>1, TransactionsAssumption
     DEF Init, Kept, Whole, Turns, Strays, Rows, Stores, Idle
<1>5. \A s \in Stores : Held(s)
  BY <1>1 DEF Held, Idle
<1>6. QED BY <1>2, <1>3, <1>4, <1>5 DEF ArtifactsInv, Good

LEMMA StepArtifacts == Moderate /\ ArtifactsInv /\ [Next]_vars => ArtifactsInv'
<1> SUFFICES ASSUME Moderate, ArtifactsInv, [Next]_vars PROVE ArtifactsInv'
  OBVIOUS
<1>1. CASE UNCHANGED vars
  BY <1>1 DEF vars, ArtifactsInv, TypeOK, Placed, Durable, Good, Kept, Whole, Turns, Strays, Rows,
              Held, HeldAt, Empty, Vacant, InPlace, Faulted, Creator
<1>2. CASE \E t \in Transactions :
             BeginCreate(t) \/ BeginRetire(t) \/ BeginLegacyRetire(t) \/ Recover(t)
  BY <1>2, BeginSteps, RecoverStep
<1>3. CASE Next
  BY <1>2, <1>3, CloseSteps, StoreStep, StopSteps, StartStep, ReadyStep DEF Next
<1>4. QED BY <1>1, <1>3

LEMMA ArtifactsAlways == ASSUME Moderate PROVE Spec => []ArtifactsInv
<1>1. ArtifactsInv /\ [Next]_vars => ArtifactsInv'
  BY StepArtifacts
<1>2. QED BY <1>1, InitArtifacts, PTL DEF Spec

\* A committed run never loses its evidence, wherever the service stops and
\* whichever step fails.
THEOREM NothingLostAlways == ASSUME Moderate PROVE Spec => []NothingLost
<1>1. ArtifactsInv => NothingLost
  <2> SUFFICES ASSUME ArtifactsInv, Durable, disk # "none"
               PROVE  final = disk \/ \E t \in Left : txn[t].marker /\ txn[t].staged = disk
    BY DEF NothingLost, Durable, ArtifactsInv
  <2>1. CASE final = disk
    BY <2>1
  <2>2. CASE final # disk
    <3>1. PICK t \in Transactions : txn[t].marker /\ txn[t].staged = disk
      BY <2>2 DEF ArtifactsInv, Good, Kept
    <3>2. t \in Left
      BY <3>1, TypeSplit DEF ArtifactsInv, Left
    <3>3. QED BY <3>1, <3>2
  <2>3. QED BY <2>1, <2>2
<1>2. QED BY <1>1, ArtifactsAlways, PTL

\* Row and directory agree whenever the service is up and has nothing in progress.
THEOREM AgreementAlways == ASSUME Moderate PROVE Spec => []Agreement
<1>1. ArtifactsInv => Agreement
  <2> SUFFICES ASSUME ArtifactsInv, {"persist", "remove"} \cap failed = {}, Quiet
               PROVE  memory = disk /\ (final = memory \/ (memory = "none" /\ final \in Legacy))
    BY DEF Agreement
  <2>1. Good /\ memory = disk /\ service = "up" /\ op["primary"].pc = "idle"
    BY DEF ArtifactsInv, Durable, Good, Rows, Quiet, At, Stores
  <2>2. disk # "none" => final = disk
    BY <2>1 DEF Good, Strays
  <2>3. disk = "none" => final = "none" \/ final \in Legacy
    BY <2>1, TypeSplit DEF Good, Whole, Legacy, ArtifactsInv, Content, Run
  <2>4. QED BY <2>1, <2>2, <2>3
<1>2. QED BY <1>1, ArtifactsAlways, PTL

\* A run is never given the evidence of an earlier run with its id.
THEOREM OwnEvidenceAlways == ASSUME Moderate PROVE Spec => []OwnEvidence
<1>1. ArtifactsInv => OwnEvidence
  <2> SUFFICES ASSUME ArtifactsInv, Durable, memory # "none", final \in Transactions
               PROVE  final = memory
    BY DEF OwnEvidence, Durable
  <2>1. Good /\ memory = disk
    BY TypeSplit DEF ArtifactsInv, Good, Rows
  <2>2. QED BY <2>1, TransactionsAssumption DEF Good, Kept
<1>2. QED BY <1>1, ArtifactsAlways, PTL
===============================================================================
