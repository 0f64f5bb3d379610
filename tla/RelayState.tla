------------------------------ MODULE RelayState ------------------------------
(***************************************************************************)
(* The state file of the Discord desktop relay (RelayStateStore in         *)
(* services/codex-discord-desktop-relay/src/state-store.ts).               *)
(*                                                                         *)
(* state.json holds the whole state, state.previous.json the one it        *)
(* replaced.  Mutations queue behind one another (enqueue); each reads the *)
(* primary, computes the next state, and replaces first the previous file  *)
(* and then the primary through a staged file: write and sync, read back,  *)
(* rename, read back.  Every file system call is awaited, may fail, and is *)
(* a point where the process may die.                                      *)
(*                                                                         *)
(* A state is abstracted to the sequence of mutations applied to it.       *)
(***************************************************************************)
EXTENDS Naturals, Sequences, FiniteSets

CONSTANTS
  Ops,   \* the mutations the relay and the operator ask for
  Boot   \* the operation queued by initialize() when the process starts

ASSUME OpsAssumption == IsFiniteSet(Ops) /\ Boot \notin Ops

VARIABLES
  process,   \* "down", "starting" (in initialize) or "up"
  queue,     \* the operations chained on operationTail, the running one first
  pc,        \* where each operation is, or how it was answered
  target,    \* the file a running operation is replacing
  loaded,    \* what it read
  staged,    \* the content of its staging file
  file,      \* the contents of state.json and state.previous.json
  installed, \* history: the last two states renamed onto state.json
  damages    \* history: which files the world has damaged and nobody rewrote

vars == <<process, queue, pc, target, loaded, staged, file, installed, damages>>

Requests == Ops \cup {Boot}

Files == {"primary", "previous"}

\* A file is absent, unreadable as a state, or holds a state.
Absent == [is |-> "absent", log |-> <<>>]
Torn == [is |-> "torn", log |-> <<>>]
State(s) == [is |-> "state", log |-> s]

Committing == {"stage", "verify", "rename", "confirm"}

Answered == {"ok", "unchanged", "failed", "lost"}

Running(o) == queue # <<>> /\ Head(queue) = o

\* The state the operation computes from the one it loaded.
Candidate(o) == IF o = Boot THEN loaded[o].log ELSE Append(loaded[o].log, o)

\* Mutant: the previous file is given the new state, not the one read.
IntendedAlwaysNext(o) == State(Candidate(o))

\* What the file being replaced is to contain.
Intended(o) == IF target[o] = "previous" THEN loaded[o] ELSE State(Candidate(o))

Init ==
  /\ process = "down"
  /\ queue = <<>>
  /\ pc = [o \in Requests |-> "new"]
  /\ target = [o \in Requests |-> "previous"]
  /\ loaded = [o \in Requests |-> Absent]
  /\ staged = [o \in Requests |-> Absent]
  /\ file = [f \in Files |-> Absent]
  /\ installed = [last |-> <<>>, before |-> <<>>]
  /\ damages = {}

-----------------------------------------------------------------------------
(* The process and its queue.                                               *)

\* main() calls initialize() before anything else may use the store.
Start ==
  /\ process = "down"
  /\ process' = "starting"
  /\ queue' = <<Boot>>
  /\ pc' = [pc EXCEPT ![Boot] = "queued"]
  /\ UNCHANGED <<target, loaded, staged, file, installed, damages>>

Request(o) ==
  /\ process = "up" /\ pc[o] = "new"
  /\ queue' = Append(queue, o)
  /\ pc' = [pc EXCEPT ![o] = "queued"]
  /\ UNCHANGED <<process, target, loaded, staged, file, installed, damages>>

\* Mutant: then(operation) instead of then(operation, operation), with the
\* rejection kept in operationTail: what queues behind a failure never runs.
SettleOnlySuccess(o, said) ==
  /\ pc' = [pc EXCEPT ![o] = said]
  /\ queue' = IF said = "failed" THEN queue ELSE Tail(queue)
  /\ staged' = [staged EXCEPT ![o] = Absent]
  /\ process' = IF o # Boot THEN process ELSE IF said = "failed" THEN "down" ELSE "up"

\* An operation settles: the next one in the chain may run whatever came of it.
\* A failed initialize ends main(); a good one lets the relay start.
Settle(o, said) ==
  /\ pc' = [pc EXCEPT ![o] = said]
  /\ queue' = Tail(queue)
  /\ staged' = [staged EXCEPT ![o] = Absent]
  /\ process' = IF o # Boot THEN process ELSE IF said = "failed" THEN "down" ELSE "up"

Crash ==
  /\ process # "down"
  /\ process' = "down"
  /\ queue' = <<>>
  /\ pc' = [o \in Requests |-> IF pc[o] \in {"queued"} \cup Committing THEN "lost" ELSE pc[o]]
  /\ staged' = [o \in Requests |-> Absent]
  /\ UNCHANGED <<target, loaded, file, installed, damages>>

-----------------------------------------------------------------------------
(* readPrimaryUnlocked.  A missing primary means a fresh install only when  *)
(* there is no previous state either; otherwise the store refuses to guess. *)

\* Mutant: a missing primary is always a fresh install.
FreshWhenPrimaryMissing == file["primary"] = Absent

FreshInstall == file["primary"] = Absent /\ file["previous"] = Absent

Readable == file["primary"].is = "state" \/ FreshInstall

\* The operation's own function ran: it changed nothing, or there is a state
\* to commit.  initialize writes only when there was no file.
Load(o) ==
  /\ Running(o) /\ pc[o] = "queued"
  /\ Readable
  /\ loaded' = [loaded EXCEPT ![o] = file["primary"]]
  /\ \/ /\ file["primary"] # Absent
        /\ Settle(o, "unchanged")
        /\ UNCHANGED target
     \/ /\ o = Boot => file["primary"] = Absent
        /\ target' = [target EXCEPT ![o] =
             IF file["primary"] = Absent THEN "primary" ELSE "previous"]
        /\ pc' = [pc EXCEPT ![o] = "stage"]
        /\ UNCHANGED <<process, queue, staged>>
  /\ UNCHANGED <<file, installed, damages>>

-----------------------------------------------------------------------------
(* replaceDurably, once for the previous file and once for the primary.     *)

\* Open, write, sync and close the staging file; the disk may keep less than
\* what was written.
Stage(o) ==
  /\ Running(o) /\ pc[o] = "stage"
  /\ \E kept \in {Intended(o), Torn} : staged' = [staged EXCEPT ![o] = kept]
  /\ pc' = [pc EXCEPT ![o] = "verify"]
  /\ UNCHANGED <<process, queue, target, loaded, file, installed, damages>>

StagedAsIntended(o) == staged[o] = Intended(o)

VerifyStaged(o) ==
  /\ Running(o) /\ pc[o] = "verify"
  /\ StagedAsIntended(o)
  /\ pc' = [pc EXCEPT ![o] = "rename"]
  /\ UNCHANGED <<process, queue, target, loaded, staged, file, installed, damages>>

Rename(o) ==
  /\ Running(o) /\ pc[o] = "rename"
  /\ file' = [file EXCEPT ![target[o]] = staged[o]]
  /\ staged' = [staged EXCEPT ![o] = Absent]
  /\ installed' = IF target[o] = "primary" /\ o # Boot
                  THEN [last |-> Candidate(o), before |-> installed.last]
                  ELSE installed
  /\ damages' = damages \ {target[o]}
  /\ pc' = [pc EXCEPT ![o] = "confirm"]
  /\ UNCHANGED <<process, queue, target, loaded>>

\* commitUnlocked: the primary follows the previous file.
NextTarget(o) == IF target[o] = "previous" THEN "primary" ELSE "none"

Confirm(o) ==
  /\ Running(o) /\ pc[o] = "confirm"
  /\ file[target[o]] = Intended(o)
  /\ IF NextTarget(o) # "none"
     THEN /\ target' = [target EXCEPT ![o] = NextTarget(o)]
          /\ pc' = [pc EXCEPT ![o] = "stage"]
          /\ UNCHANGED <<process, queue, staged>>
     ELSE Settle(o, "ok") /\ UNCHANGED target
  /\ UNCHANGED <<loaded, file, installed, damages>>

\* A call throws, a read-back differs, or the primary cannot be used.
Throw(o) ==
  /\ Running(o) /\ pc[o] \in {"queued"} \cup Committing
  /\ Settle(o, "failed")
  /\ UNCHANGED <<target, loaded, file, installed, damages>>

-----------------------------------------------------------------------------
(* The world: one file at a time is lost or corrupted behind the relay's     *)
(* back (bound: never both, since nothing could be told apart then).         *)

Damage(f) ==
  /\ damages = {}
  /\ \A g \in Files \ {f} : file[g].is = "state"
  /\ \E c \in {Absent, Torn} : file' = [file EXCEPT ![f] = c]
  /\ damages' = {f}
  /\ UNCHANGED <<process, queue, pc, target, loaded, staged, installed>>

Step(o) == Load(o) \/ Stage(o) \/ VerifyStaged(o) \/ Rename(o) \/ Confirm(o) \/ Throw(o)

Next ==
  \/ Start
  \/ Crash
  \/ \E o \in Ops : Request(o)
  \/ \E o \in Requests : Step(o)
  \/ \E f \in Files : Damage(f)

\* A file system call that was made returns or throws.
Fairness == \A o \in Requests : WF_vars(Step(o))

Spec == Init /\ [][Next]_vars /\ Fairness

-----------------------------------------------------------------------------
(* Properties.                                                              *)

\* The statuses of operations and the contents of files; what is queued or
\* running is in the chain, and nothing else is.
TypeOK ==
  /\ process \in {"down", "starting", "up"}
  /\ pc \in [Requests -> {"new", "queued"} \cup Committing \cup Answered]
  /\ \A o \in Requests : pc[o] \in {"queued"} \cup Committing <=> \E k \in 1 .. Len(queue) : queue[k] = o
  /\ target \in [Requests -> Files]
  /\ \A f \in Files : file[f].is \in {"absent", "torn", "state"}
  /\ damages \subseteq Files

\* "preserves the primary and recovers its queue after replacement failure":
\* at every moment of every commit, state.json is the newest installed state,
\* whole, unless the world damaged it; and the previous file is never more than
\* one state behind, so that an operator who restores it loses at most the
\* last mutation.  The type invariant is the first conjunct.
FilesRecoverable ==
  /\ TypeOK
  /\ installed.last # <<>> /\ "primary" \notin damages =>
       file["primary"] = State(installed.last)
  /\ file["previous"].is = "state" =>
       file["previous"].log \in {installed.last, installed.before}

\* The store implements the durable register: what is committed extends the newest
\* state ever installed, so that no crash, failed call, lost or corrupted file makes
\* the relay go on from an older state, or from an empty one ("automatic recovery is
\* disabled to prevent command or binding replay").
Register == INSTANCE DurableRegister WITH
  log    <- installed.last,
  answer <- [o \in Ops |->
               IF pc[o] \in {"queued"} \cup Committing THEN "pending" ELSE pc[o]]

ImplementsRegister == Register!Spec

\* The chain is never wedged: whatever fails before it, an operation that was
\* requested is answered, unless the process dies first.
EveryRequestAnswered == \A o \in Ops : pc[o] = "queued" ~> pc[o] \in Answered
=============================================================================
