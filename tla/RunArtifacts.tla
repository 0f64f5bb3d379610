---------------------------- MODULE RunArtifacts ----------------------------
(***************************************************************************)
(* A run's two halves in protocol-runner-api: its row in SQLite and its    *)
(* directory of evidence.  Creating and retiring a run goes through an     *)
(* artifact transaction (run-artifact-lifecycle.ts): a directory under     *)
(* .transactions with a marker file and the staged run directory.  The     *)
(* service can stop between any two steps, and reconciles what it finds    *)
(* when it starts, before its listener opens.                              *)
(*                                                                         *)
(* SQLite lives in memory (sql.js) and is written to its file as a whole:  *)
(* `memory` is the row the process sees, `disk` the row in the file.       *)
(*                                                                         *)
(* One run id is modelled, created and retired again and again: a row or a *)
(* directory is named after the transaction that created it, so that the   *)
(* evidence of one run is told from that of a later run with the same id.  *)
(*                                                                         *)
(* main.ts serves the runs root with one of two stores.  "json": the       *)
(* JsonRunnerStore, a run is its directory.  "hybrid": the SqliteRunner-   *)
(* Store creates and owns runs that have a row (the primary store), and    *)
(* runs without one, made under "json" before the switch, are left to the  *)
(* JsonRunnerStore (the legacy store).  Each store serialises its own      *)
(* creations and retirements, and knows nothing of the other's.            *)
(***************************************************************************)
EXTENDS Naturals, FiniteSets

CONSTANTS
  Transactions, \* the transaction ids (random UUIDs)
  MayFail,      \* the kinds of step that can fail: "begin" (making a transaction),
                \*   "write" (a staged file), "reject" (an SQL statement), "persist"
                \*   (writing the database file), "move", "remove"
  MaxFaults,    \* bound: how many kinds of step fail, each once
  MaxClosing,   \* bound: legacy closes in flight
  ReusedEarly   \* whether an id is used again before a legacy close of it has ended

ASSUME TransactionsAssumption == {"none", "partial"} \cap Transactions = {}
ASSUME FaultsAssumption ==
  /\ MayFail \subseteq {"begin", "write", "reject", "persist", "move", "remove"}
  /\ MaxFaults \in Nat
  /\ MaxClosing \in Nat \ {0}
  /\ ReusedEarly \in BOOLEAN

VARIABLES
  mode,    \* the store the service is configured with: "json" or "hybrid"
  memory,  \* the run's row in the process: the run, or "none"
  disk,    \* the run's row in the database file
  final,   \* the run directory: the run it holds, "partial" or "none"
  txn,     \* the transaction directories
  service, \* "down", "starting" (reconciling) or "up"
  op,      \* the create, retire or reconcile each store is at: its next step, its transaction
  closing, \* the closes of the run handed to the legacy store and not begun
  failed   \* the kinds of step that have failed

vars == <<mode, memory, disk, final, txn, service, op, closing, failed>>

Stores == {"primary", "legacy"}

Run == Transactions \cup {"none"}

Content == Run \cup {"partial"}

Unused == [kind |-> "unused", store |-> "primary", dir |-> FALSE, marker |-> FALSE, staged |-> "none"]

Idle == [pc |-> "idle", t |-> "none"]

Init ==
  /\ mode \in {"json", "hybrid"}
  /\ memory = "none" /\ disk = "none" /\ final = "none"
  /\ txn = [t \in Transactions |-> Unused]
  /\ service = "down"
  /\ op = [s \in Stores |-> Idle]
  /\ closing = 0
  /\ failed = {}

-----------------------------------------------------------------------------
\* The transaction a store is at, and its operation at its next step.
Mine(s) == txn[op[s].t]

At(s, pc) == op[s].pc = pc

Goes(s, pc) == op' = [op EXCEPT ![s] = IF pc = "idle" THEN Idle ELSE [@ EXCEPT !.pc = pc]]

Changed(s, field, value) == txn' = [txn EXCEPT ![op[s].t][field] = value]

\* Where a thrown error leads: nowhere when the step is outside the try block or
\* in the cleanup itself, else to the catch block.
Catch ==
  [marker |-> "idle", stage |-> "idle", fill |-> "undo_sweep", insert |-> "undo_sweep",
   promote |-> "undo_rows", sweep |-> "undo_rows",
   undo_final |-> "idle", undo_sweep |-> "idle",
   retire_move |-> "unbegin", unbegin |-> "idle", retire_sweep |-> "retire_again",
   retire_again |-> "idle", restore |-> "idle", restore_sweep |-> "idle"]

\* JsonRunnerStore has no rows to undo, and puts the run back when the retired
\* directory could not be removed.
CatchOf(s) ==
  IF s = "primary" THEN Catch
  ELSE [Catch EXCEPT !["fill"] = "undo_final", !["promote"] = "undo_final",
                     !["sweep"] = "undo_final", !["retire_sweep"] = "restore"]

Fault(kind) ==
  /\ kind \in MayFail \ failed
  /\ Cardinality(failed) < MaxFaults
  /\ failed' = failed \cup {kind}

\* A step of this kind throws before it has changed anything.
Throws(s, kind) ==
  /\ Fault(kind)
  /\ Goes(s, CatchOf(s)[op[s].pc])
  /\ UNCHANGED <<memory, disk, final, txn, service>>

Throw(s) == Goes(s, CatchOf(s)[op[s].pc]) /\ UNCHANGED failed

\* withWrite: COMMIT in memory, then the whole database goes to its file.
Writes(row, ok, rejected, unpersisted) ==
  \/ memory' = row /\ disk' = row /\ Goes("primary", ok) /\ UNCHANGED failed
  \/ Fault("reject") /\ UNCHANGED <<memory, disk>> /\ Goes("primary", rejected)
  \/ Fault("persist") /\ memory' = row /\ UNCHANGED disk /\ Goes("primary", unpersisted)

-----------------------------------------------------------------------------
(* createTransaction, the beginning of both operations.                     *)

\* Mutant: a directory left in the run's place is not looked for.
CreateByRow == memory = "none"

CanCreate == memory = "none" /\ final = "none"

\* A run with a row is the primary store's, every other the legacy store's.
Dispatch == IF mode = "hybrid" /\ memory # "none" THEN "primary" ELSE "legacy"

Creator == IF mode = "hybrid" THEN "primary" ELSE "legacy"

Begin(s, kind, t) ==
  /\ service = "up" /\ At(s, "idle")
  /\ txn[t].kind = "unused"
  /\ txn' = [txn EXCEPT ![t] = [@ EXCEPT !.kind = kind, !.store = s, !.dir = TRUE]]
  /\ op' = [op EXCEPT ![s] = [pc |-> "marker", t |-> t]]
  /\ UNCHANGED <<mode, memory, disk, final, service, failed>>

BeginCreate(t) ==
  /\ CanCreate
  /\ ReusedEarly \/ (closing = 0 /\ At("legacy", "idle"))
  /\ Begin(Creator, "create", t)
  /\ UNCHANGED closing

BeginRetire(t) == memory # "none" /\ Begin("primary", "retire", t) /\ UNCHANGED closing

\* The close of a run without a row waits for its turn in the legacy store.
CloseLegacy ==
  /\ service = "up"
  /\ Dispatch = "legacy" /\ final # "none"
  /\ closing + (IF op["legacy"] # Idle THEN 1 ELSE 0) < MaxClosing
  /\ closing' = closing + 1
  /\ UNCHANGED <<mode, memory, disk, final, txn, service, op, failed>>

\* Its turn: the legacy store finds the directory by the run's id.
BeginLegacyRetire(t) ==
  /\ closing > 0 /\ final # "none"
  /\ Begin("legacy", "retire", t)
  /\ closing' = closing - 1

LegacyRetireMissing ==
  /\ closing > 0 /\ final = "none"
  /\ At("legacy", "idle")
  /\ closing' = closing - 1
  /\ UNCHANGED <<mode, memory, disk, final, txn, service, op, failed>>

WriteMarker(s) ==
  /\ At(s, "marker")
  /\ \/ /\ Changed(s, "marker", TRUE)
        /\ Goes(s, IF Mine(s).kind = "create" THEN "stage" ELSE "retire_move")
        /\ UNCHANGED <<memory, disk, final, service, failed>>
     \/ Throws(s, "begin")

(* createRun.                                                               *)

Stage(s) ==
  /\ At(s, "stage")
  /\ \/ /\ Changed(s, "staged", "partial")
        /\ Goes(s, "fill")
        /\ UNCHANGED <<memory, disk, final, service, failed>>
     \/ Throws(s, "begin")

Fill(s) ==
  /\ At(s, "fill")
  /\ \/ /\ Changed(s, "staged", op[s].t)
        /\ Goes(s, IF s = "primary" THEN "insert" ELSE "promote")
        /\ UNCHANGED <<memory, disk, final, service, failed>>
     \/ Throws(s, "write")

Insert ==
  /\ At("primary", "insert")
  /\ Writes(op["primary"].t, "promote", Catch["insert"], "undo_rows")
  /\ UNCHANGED <<final, txn, service>>

Promote(s) ==
  /\ At(s, "promote")
  /\ \/ /\ final = "none"
        /\ final' = Mine(s).staged
        /\ Changed(s, "staged", "none")
        /\ Goes(s, "sweep")
        /\ UNCHANGED <<memory, disk, service, failed>>
     \/ /\ final # "none" /\ Throw(s)
        /\ UNCHANGED <<memory, disk, final, txn, service>>
     \/ Throws(s, "move")

\* The catch block: the rows, then the run directory, then the transaction.
UndoRows ==
  /\ At("primary", "undo_rows")
  /\ Writes("none", "undo_final", "undo_final", "undo_final")
  /\ UNCHANGED <<final, txn, service>>

UndoFinal(s) ==
  /\ At(s, "undo_final")
  /\ \/ /\ final' = IF final \in {"none", "partial"} THEN "none" ELSE "partial"
        /\ Goes(s, IF final' = "none" THEN "undo_sweep" ELSE "undo_final")
        /\ UNCHANGED <<memory, disk, txn, service, failed>>
     \/ final # "none" /\ Throws(s, "remove")

(* deleteRun.                                                               *)

RetireMove(s) ==
  /\ At(s, "retire_move")
  /\ \/ /\ final # "none"
        /\ Changed(s, "staged", final)
        /\ final' = "none"
        /\ Goes(s, IF s = "primary" THEN "delete_rows" ELSE "retire_sweep")
        /\ UNCHANGED <<memory, disk, service, failed>>
     \/ /\ final = "none" /\ Throw(s)
        /\ UNCHANGED <<memory, disk, final, txn, service>>
     \/ Throws(s, "move")

\* When the rows could not be deleted the directory is put back.  hasRun
\* looks at the database in memory: rows whose deletion did not reach the file
\* count as deleted, and the retirement is finished.
DeleteRows ==
  /\ At("primary", "delete_rows")
  /\ Writes("none", "retire_sweep", "restore", "retire_again")
  /\ UNCHANGED <<final, txn, service>>

\* rollbackRetire: what is left of the directory goes back to its place, unless
\* that is taken.
Restore(s) ==
  /\ At(s, "restore")
  /\ \/ /\ final # "none" => Mine(s).staged = "none"
        /\ final' = IF final = "none" THEN Mine(s).staged ELSE final
        /\ Changed(s, "staged", "none")
        /\ Goes(s, "restore_sweep")
        /\ UNCHANGED <<memory, disk, service, failed>>
     \/ /\ final # "none" /\ Mine(s).staged # "none" /\ Throw(s)
        /\ UNCHANGED <<memory, disk, final, txn, service>>
     \/ final = "none" /\ Throws(s, "move")

-----------------------------------------------------------------------------
(* removeTransactionDir: a recursive removal, in no particular order, that   *)
(* can stop half-way.                                                        *)

Sweeps == {"sweep", "undo_sweep", "unbegin", "retire_sweep", "retire_again",
           "restore_sweep", "recover_sweep"}

RemovePart(s) ==
  /\ op[s].pc \in Sweeps
  /\ \/ /\ Mine(s).staged # "none"
        /\ Changed(s, "staged", IF Mine(s).staged = "partial" THEN "none" ELSE "partial")
     \/ Mine(s).marker /\ Changed(s, "marker", FALSE)
  /\ UNCHANGED <<memory, disk, final, service, op, failed>>

RemoveDir(s) ==
  /\ op[s].pc \in Sweeps
  /\ Mine(s).staged = "none" /\ ~Mine(s).marker
  /\ Changed(s, "dir", FALSE)
  /\ Goes(s, "idle")
  /\ UNCHANGED <<memory, disk, final, service, failed>>

RemoveFails(s) ==
  /\ op[s].pc \in Sweeps \ {"recover_sweep"}
  /\ Throws(s, "remove")

\* Another request's transaction writes the database file.
OtherWrite ==
  /\ service = "up"
  /\ disk # memory
  /\ disk' = memory
  /\ UNCHANGED <<mode, memory, final, txn, service, op, closing, failed>>

-----------------------------------------------------------------------------
(* The service stops, starts and reconciles (openDb, reconcile).            *)

Stops ==
  /\ service' = "down"
  /\ memory' = "none"
  /\ op' = [s \in Stores |-> Idle]
  /\ closing' = 0

Crash ==
  /\ service # "down"
  /\ Stops
  /\ UNCHANGED <<mode, disk, final, txn, failed>>

\* The database is read.  The service may have been switched to SQLite meanwhile.
Start ==
  /\ service = "down"
  /\ service' = "starting"
  /\ mode' \in {mode, "hybrid"}
  /\ memory' = disk
  /\ UNCHANGED <<disk, final, txn, op, closing, failed>>

\* Mutant: reconciliation does not ask which runs are committed.
NeverCommitted == FALSE

\* hasRun; to JsonRunnerStore no run is committed, and it has no row.
Committed == memory # "none"

Left == {t \in Transactions : txn[t].dir}

\* The transaction directories the service does not start over: without a marker,
\* or a committed run with two directories or with none.
Refuses(t) ==
  \/ ~txn[t].marker
  \/ Committed /\ ((final = "none") <=> (txn[t].staged = "none"))

\* Nothing else is done before the reconciliation has ended (in "hybrid" the primary
\* store's; then the legacy store's finds nothing).
Reconciling == service = "starting" /\ At(Creator, "idle")

RefuseStart ==
  /\ Reconciling
  /\ \E t \in Left : Refuses(t)
  /\ Stops
  /\ UNCHANGED <<mode, disk, final, txn, failed>>

\* Mutant: a committed run is restored from a retirement but not from a creation.
RetiredOnly(t) == Committed /\ final = "none" /\ txn[t].kind = "retire"

Unfinished(t) == Committed /\ final = "none"

\* The committed run gets its directory back; in every other case the staged
\* directory goes with the transaction.
Recover(t) ==
  /\ Reconciling
  /\ t \in Left /\ ~Refuses(t)
  /\ IF Unfinished(t)
     THEN final' = txn[t].staged /\ txn' = [txn EXCEPT ![t].staged = "none"]
     ELSE UNCHANGED <<final, txn>>
  /\ op' = [op EXCEPT ![Creator] = [pc |-> "recover_sweep", t |-> t]]
  /\ UNCHANGED <<mode, memory, disk, service, closing, failed>>

\* A file operation of the reconciliation fails: the service does not start.
RecoverFails ==
  /\ service = "starting"
  /\ \/ Reconciling /\ (\E t \in Left : ~Refuses(t) /\ Unfinished(t)) /\ Fault("move")
     \/ At(Creator, "recover_sweep") /\ Fault("remove")
  /\ Stops
  /\ UNCHANGED <<mode, disk, final, txn>>

Ready ==
  /\ Reconciling
  /\ Left = {}
  /\ service' = "up"
  /\ UNCHANGED <<mode, memory, disk, final, txn, op, closing, failed>>

Step(s) ==
  /\ \/ WriteMarker(s) \/ Stage(s) \/ Fill(s) \/ Promote(s) \/ UndoFinal(s)
     \/ s = "primary" /\ (Insert \/ UndoRows \/ DeleteRows)
     \/ RetireMove(s) \/ Restore(s)
     \/ RemovePart(s) \/ RemoveDir(s) \/ RemoveFails(s)
  /\ UNCHANGED <<mode, closing>>

Next ==
  \/ \E t \in Transactions :
       BeginCreate(t) \/ BeginRetire(t) \/ BeginLegacyRetire(t) \/ Recover(t)
  \/ CloseLegacy \/ LegacyRetireMissing
  \/ \E s \in Stores : Step(s)
  \/ OtherWrite
  \/ Crash \/ Start \/ RefuseStart \/ RecoverFails \/ Ready

Spec == Init /\ [][Next]_vars

-----------------------------------------------------------------------------
(* Properties.                                                              *)

\* Every part holds what it may hold, and a transaction directory that is gone
\* has taken its marker and its staged run with it.
TypeOK ==
  /\ mode \in {"json", "hybrid"}
  /\ memory \in Run /\ disk \in Run /\ final \in Content
  /\ txn \in [Transactions -> [kind : {"unused", "create", "retire"}, store : Stores, dir : BOOLEAN,
                               marker : BOOLEAN, staged : Content]]
  /\ \A t \in Transactions : ~txn[t].dir => ~txn[t].marker /\ txn[t].staged = "none"
  /\ service \in {"down", "starting", "up"}
  /\ op \in [Stores -> [pc : DOMAIN Catch \cup {"idle", "undo_rows", "delete_rows",
                                               "recover_sweep"}, t : Run]]
  /\ closing \in 0 .. MaxClosing
  /\ failed \subseteq MayFail

\* A committed run never loses its evidence: at every instant, and so wherever the
\* service stops, the whole directory of the run in the database file is in its
\* place or in a transaction from which the next start restores it.  A database
\* file that could not be written is the exception (RetiredAfterDurableDeletion).
NothingLost ==
  /\ TypeOK
  /\ "persist" \notin failed /\ disk # "none" =>
       \/ final = disk
       \/ \E t \in Left : txn[t].marker /\ txn[t].staged = disk

Quiet == service = "up" /\ (\A s \in Stores : At(s, "idle")) /\ closing = 0

Legacy == {t \in Transactions : txn[t].store = "legacy"}

\* When the service is up, nothing is in progress and no transaction is left over,
\* row and directory agree: a run has both, its own and whole, or neither, but for
\* a legacy run that is whole and has no row.  So it is after every crash and every
\* failed step, but for the two kinds named here.
Agreement ==
  {"persist", "remove"} \cap failed = {} /\ Quiet /\ Left = {}
    => /\ memory = disk
       /\ final = memory \/ (memory = "none" /\ final \in Legacy)

\* A run never gets the evidence of an earlier run with the same id, although
\* recovery restores directories by run id alone.
OwnEvidence ==
  "persist" \notin failed /\ memory # "none" /\ final \in Transactions => final = memory

\* "A failed creation leaves no discoverable run or owned partial state"
\* (contracts/protocol-runner.openapi.yaml): a service that is up with nothing in
\* progress has no transaction directory and no run directory without its row.
FailedCreateLeavesNothing ==
  Quiet => Left = {} /\ (memory = "none" => final \in Legacy \cup {"none"})

\* "finishes SQLite retirement after durable DB deletion" (store.test.ts): the
\* retired directory is removed only when the row is gone from the database file.
RetiredAfterDurableDeletion ==
  [][\A t \in Transactions :
       txn[t].kind = "retire" /\ txn[t].staged # "none" /\ txn'[t].staged = "partial"
         => disk = "none"]_vars
=============================================================================
