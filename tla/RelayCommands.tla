----------------------------- MODULE RelayCommands -----------------------------
(***************************************************************************)
(* The command side of the Discord desktop relay                           *)
(* (services/codex-discord-desktop-relay): the commands people write in    *)
(* its command channel, which make, find and delete companion channels and *)
(* drive an orchestration registry, beside the requests of operators.      *)
(*                                                                         *)
(* A poll handles one command after the other; a timer and POST /api/poll  *)
(* both start polls, of which one runs at a time.  Operators' HTTP requests *)
(* run concurrently.  Each await is a step, and each may throw.            *)
(*                                                                         *)
(* Several channels, each known by its mapping's thread and short label:   *)
(* statuses, bindings and cursors of one channel, and what its users write, *)
(* are Relay's.  The messages of bots, which only move the cursor, answers *)
(* that name no channel, and what a turn state is are left out.  What the  *)
(* desktop shows is asked anew each time and may be anything.              *)
(***************************************************************************)
EXTENDS Naturals, Sequences, FiniteSets, SequencesExt

CONSTANTS
  Threads,     \* the visible labels of desktop threads, numbered
  Titles,      \* how people may write a label: the threads, and other spellings
  ThreadOf,    \* the thread whose label compares equal to a title
  Channels,    \* the Discord channels that may be made, numbered in that order
  Scripts,     \* bound: what people write, in which order, which calls of Discord and the
               \* desktop a command has refused for good, and what operators request
  Pollers,     \* who starts polls: the timer, POST /api/poll
  Operators,   \* the HTTP requests of operators
  MaxFaults    \* bound: crashes, and calls that fail

ASSUME CommandsAssumption ==
  /\ Threads \subseteq Titles /\ Titles \subseteq Nat \ {0} /\ IsFiniteSet(Titles)
  /\ ThreadOf \in [Titles -> Threads] /\ \A l \in Threads : ThreadOf[l] = l
  /\ Channels \subseteq Nat \ {0} /\ IsFiniteSet(Channels)
  /\ \A s \in Scripts :
       /\ s.people \in Seq([kind : STRING, by : {"title", "number", "none"}, key : Nat, refused : SUBSET STRING])
       /\ \A k \in DOMAIN s.people :
            /\ s.people[k].by = "title" => s.people[k].key \in Titles
            /\ s.people[k].kind = "pickup" => s.people[k].by # "none"
  /\ Pollers \cap Operators = {}
  /\ MaxFaults \in Nat

VARIABLES
  script,    \* the script of this behaviour
  commands,  \* the command channel's messages
  seen,      \* how many of them the stored cursor is past; 0 when it is null
  polling,   \* whether a poll runs
  task,      \* what each poller and operator request is doing
  discord,   \* the Discord channels that exist
  mapping,   \* the relay's mappings
  nextShort, \* nextShortLabel
  list,      \* lastDesktopThreadList
  activeRun, \* the active orchestration run, 0 for none
  runs,      \* the registry's runs: whether each is open or archived
  workers,   \* the registry's workers
  faults,    \* how many faults there were
  maker,     \* history: the command, or 0, and the kind of request that made each channel
  cut,       \* history: how often the handling of each command was cut short
  left       \* history: channels that a request was dealing with when it failed

storeVars    == <<seen, mapping, nextShort, list, activeRun>>
registryVars == <<runs, workers>>
history      == <<maker, cut, left>>
channel      == <<script, commands>>
commandVars == <<channel, polling, task, discord, storeVars, registryVars, faults, history>>

Tasks == Pollers \cup Operators

\* The commands, by their number.
Numbers == UNION {DOMAIN s.people : s \in Scripts}

Unmapped == [short |-> 0, label |-> 0]

Mapped(c) == c # 0 /\ mapping[c] # Unmapped

\* A task: where it is, the request or command it handles, the channel, thread
\* and registry entry it deals with, and the channels it has yet to close.
Idle == [at |-> "idle", kind |-> "none", by |-> "none", key |-> 0, cmd |-> 0,
         ch |-> 0, label |-> 0, ref |-> 0, sent |-> FALSE, todo |-> {}]

CommandsInit ==
  /\ script \in Scripts /\ commands = <<>> /\ seen = 0
  /\ polling = FALSE
  /\ task = [t \in Tasks |-> Idle]
  /\ discord = {}
  /\ mapping = [c \in Channels |-> Unmapped]
  /\ nextShort = 1
  /\ list = <<>>
  /\ activeRun = 0
  /\ runs = <<>> /\ workers = <<>>
  /\ faults = 0
  /\ maker = [c \in Channels |-> [cmd |-> 0, kind |-> "none"]]
  /\ cut = [k \in Numbers |-> 0]
  /\ left = {}

At(t, place) == task[t].at = place
Kind(t) == task[t].kind
Ch(t) == task[t].ch

FirstOf(cs) == CHOOSE c \in cs : \A d \in cs : c <= d

GoTo(t, place) == task' = [task EXCEPT ![t].at = place]

-----------------------------------------------------------------------------
(* The commands.                                                            *)

OnActiveRun == {"start worker", "identity", "close worker", "cleanup worker", "archive run", "cleanup run"}

OnRegistry == OnActiveRun \cup {"start run", "switch run", "clear run"}

\* handleCommandMessage and handleOrchestrationCommand: the first await.
First(kind) ==
  CASE kind = "list"       -> "threads"
    [] kind = "new"        -> "create"
    [] kind \in {"pickup", "refresh"} -> "resolve"
    [] kind = "start run"  -> "create run"
    [] kind = "switch run" -> "board"
    [] kind = "clear run"  -> "clear"
    [] kind \in OnActiveRun -> "active"
    [] OTHER               -> "say"

Write ==
  /\ Len(commands) < Len(script.people)
  /\ commands' = Append(commands, script.people[Len(commands) + 1])
  /\ UNCHANGED <<script, polling, task, discord, storeVars, registryVars, faults, history>>

\* Mutant: a poll starts whether or not another one runs.
PollAnyway == TRUE

\* pollOnce and pollCommandChannel: a poll that finds another one running
\* returns at once.
MayPoll == ~polling

Poll(t) ==
  /\ At(t, "idle") /\ MayPoll /\ seen < Len(commands)
  /\ polling' = TRUE
  /\ LET command == commands[seen + 1]
     IN  task' = [task EXCEPT ![t] = [Idle EXCEPT !.at = First(command.kind), !.kind = command.kind,
                    !.by = command.by, !.key = command.key, !.cmd = seen + 1]]
  /\ UNCHANGED <<channel, discord, storeVars, registryVars, faults, history>>

\* pollDesktopTurnStates: the channels with a thread, as they are when it begins.
Labelled == {c \in Channels : Mapped(c) /\ mapping[c].label # 0}

Observes(t) ==
  /\ Labelled # {}
  /\ polling' = TRUE
  /\ task' = [task EXCEPT ![t] = [Idle EXCEPT !.at = "turns", !.todo = Labelled]]

\* The poll is done with the turn state of a channel: the next one, or its end.
Observed(t) ==
  LET rest == task[t].todo \ {FirstOf(task[t].todo)}
  IN  /\ polling' = (rest # {})
      /\ task' = [task EXCEPT ![t] =
           IF rest = {} THEN Idle ELSE [@ EXCEPT !.at = "turns", !.todo = rest]]

\* The answer in the command channel, or the report of an error there.
Say(t) ==
  /\ task[t].at \in {"say", "report"}
  /\ GoTo(t, "mark")
  /\ UNCHANGED <<channel, polling, discord, storeVars, registryVars, faults, history>>

\* markCommandSeen comes after the whole command.  The poll ends, because its
\* messages or its mapped channels do, or goes on to the turn states.
MarkSeen(t) ==
  /\ At(t, "mark")
  /\ seen' = task[t].cmd
  /\ \/ Observes(t)
     \/ polling' = FALSE /\ task' = [task EXCEPT ![t] = Idle]
  /\ UNCHANGED <<channel, discord, mapping, nextShort, list, activeRun, registryVars, faults, history>>

\* A poll that finds no command.
PollTurns(t) ==
  /\ At(t, "idle") /\ MayPoll /\ seen = Len(commands)
  /\ Observes(t)
  /\ UNCHANGED <<channel, discord, storeVars, registryVars, faults, history>>

\* recordChannelTurnState; then, if it is due, the registry is told.
RecordTurn(t) ==
  /\ At(t, "turns") /\ Mapped(FirstOf(task[t].todo))
  /\ \/ Observed(t)
     \/ GoTo(t, "told") /\ UNCHANGED polling
  /\ UNCHANGED <<channel, discord, storeVars, registryVars, faults, history>>

\* markChannelTurnStateRegistrySynced, unless the registry gave an error other
\* than that it knows no such worker: errors are only logged.
MarkTurn(t) ==
  /\ At(t, "told")
  /\ Observed(t)
  /\ UNCHANGED <<channel, discord, storeVars, registryVars, faults, history>>

-----------------------------------------------------------------------------
(* The desktop's threads.                                                    *)

\* What the desktop may show: threads in some order, each once.
Lists == {l \in SeqOf(Threads, Cardinality(Threads)) : IsInjective(l)}

\* show threads: the desktop is unavailable, or the list is recorded.
ListThreads(t) ==
  /\ At(t, "threads")
  /\ list' \in Lists
  /\ GoTo(t, "say")
  /\ UNCHANGED <<channel, polling, discord, seen, mapping, nextShort, activeRun, registryVars, faults, history>>

\* The thread with a number in the last list, or 0.
Listed(n) == IF n \in DOMAIN list THEN list[n] ELSE 0

WithShort(n) == {c \in Channels : Mapped(c) /\ mapping[c].short = n}

WithLabel(l) == {c \in Channels : Mapped(c) /\ mapping[c].label = l}

\* Mutant: the mapping of a thread is found by the number it had in the list.
OfNumber(l) == {c \in Channels : Mapped(c) /\ mapping[c].short = l}

OfThread(l) == WithLabel(l)

\* handlePickup: a title, a number of the list, or a short label.  Whoever has
\* a channel is told of it.
ResolvePickup(t) ==
  LET title == IF task[t].by = "title" THEN task[t].key ELSE Listed(task[t].key)
      known == \/ task[t].by = "number" /\ title = 0
               \/ OfThread(title) # {}
  IN  /\ At(t, "resolve") /\ Kind(t) = "pickup"
      /\ task' = [task EXCEPT ![t].at = IF known THEN "say" ELSE "find", ![t].label = title]
      /\ UNCHANGED <<channel, polling, discord, storeVars, registryVars, faults, history>>

\* findVisibleDesktopThread, which compares without accents and case.
FindThread(t) ==
  /\ At(t, "find")
  /\ \/ GoTo(t, "say")
     \/ task' = [task EXCEPT ![t].at = "create", ![t].label = ThreadOf[@]]
  /\ UNCHANGED <<channel, polling, discord, storeVars, registryVars, faults, history>>

\* refresh binding: the mapping of a title, of a listed thread, or with a short
\* label.
ResolveRefresh(t) ==
  LET n == task[t].key
      found == IF task[t].by = "title" THEN WithLabel(n)
               ELSE IF Listed(n) # 0 THEN WithLabel(Listed(n)) ELSE WithShort(n)
      c == FirstOf(found)
  IN  /\ At(t, "resolve") /\ Kind(t) = "refresh"
      /\ task' = IF found = {} THEN [task EXCEPT ![t].at = "say"]
                 ELSE [task EXCEPT ![t].at = "note", ![t].ch = c, ![t].label = mapping[c].label]
      /\ UNCHANGED <<channel, polling, discord, storeVars, registryVars, faults, history>>

\* injectBindingNoteIfIdle, with the mapping as it was read.
InjectNote(t) ==
  /\ At(t, "note")
  /\ \/ GoTo(t, "noted")
     \/ task[t].label # 0 /\ task' = [task EXCEPT ![t].at = "bind", ![t].label = ThreadOf[@]]
  /\ UNCHANGED <<channel, polling, discord, storeVars, registryVars, faults, history>>

NoteStatus(t) ==
  /\ At(t, "noted") /\ Mapped(Ch(t))
  /\ GoTo(t, "say")
  /\ UNCHANGED <<channel, polling, discord, storeVars, registryVars, faults, history>>

-----------------------------------------------------------------------------
(* Making a channel: start new thread, pickup, start thread, start worker,   *)
(* bind channel.                                                             *)

Made == {c \in Channels : maker[c].kind # "none"}

CreateChannel(t) ==
  /\ At(t, "create") /\ Made # Channels
  /\ LET c == FirstOf(Channels \ Made)
     IN  /\ discord' = discord \cup {c}
         /\ task' = [task EXCEPT ![t].at = "ensure", ![t].ch = c]
         /\ maker' = [maker EXCEPT ![c] = [cmd |-> task[t].cmd, kind |-> Kind(t)]]
  /\ UNCHANGED <<channel, polling, storeVars, registryVars, faults, cut, left>>

\* Mutant: a short label is used twice.
EnsureSameShort(c, label) ==
  /\ mapping' = [mapping EXCEPT ![c] =
       [short |-> IF Mapped(c) THEN @.short ELSE nextShort, label |-> IF label # 0 THEN label ELSE @.label]]
  /\ UNCHANGED <<nextShort, seen, list, activeRun>>

\* ensureChannel: a new mapping, or an old one with another label if one is given.
EnsureChannel(c, label) ==
  /\ mapping' = [mapping EXCEPT ![c] =
       [short |-> IF Mapped(c) THEN @.short ELSE nextShort, label |-> IF label # 0 THEN label ELSE @.label]]
  /\ nextShort' = IF Mapped(c) THEN nextShort ELSE nextShort + 1
  /\ UNCHANGED <<seen, list, activeRun>>

\* bindChannel: the channel must be mapped.
BindChannel(c, label) ==
  /\ Mapped(c)
  /\ mapping' = [mapping EXCEPT ![c].label = label]
  /\ UNCHANGED <<seen, nextShort, list, activeRun>>

\* Where the task goes when it is done with its channel.
AfterChannel(kind) ==
  CASE kind \in {"start worker", "identity"} -> "bind worker"
    [] kind \in {"start thread", "bind channel", "close"} -> "done"
    [] OTHER -> "say"

\* The welcome message, then the mapping.
EnsureNew(t) ==
  /\ At(t, "ensure")
  /\ EnsureChannel(Ch(t), task[t].label)
  /\ \/ GoTo(t, CASE Kind(t) = "pickup" -> "note"
                  [] Kind(t) \in {"start thread", "start worker"} -> "prompt"
                  [] OTHER -> AfterChannel(Kind(t)))
     \/ Kind(t) = "start thread" /\ GoTo(t, "done")   \* without a prompt
  /\ UNCHANGED <<channel, polling, discord, registryVars, faults, history>>

\* createThread and the readback of the new thread's label.
Prompt(t) ==
  /\ At(t, "prompt")
  /\ \/ \E l \in Threads :
          task' = [task EXCEPT ![t].at = "bind", ![t].label = l, ![t].sent = TRUE]
     \/ task' = [task EXCEPT ![t].at = "waiting", ![t].sent = TRUE]
     \/ GoTo(t, "refusal")
  /\ UNCHANGED <<channel, polling, discord, storeVars, registryVars, faults, history>>

Bind(t) ==
  /\ At(t, "bind")
  /\ BindChannel(Ch(t), task[t].label)
  /\ IF Kind(t) \in {"pickup", "refresh"} THEN GoTo(t, "noted")
     ELSE \/ GoTo(t, "rename")
          \/ Kind(t) = "identity" /\ GoTo(t, "waiting")   \* it was waiting for Codex
  /\ UNCHANGED <<channel, polling, discord, registryVars, faults, history>>

\* syncDiscordChannelName: any error is only logged.
AfterRename(kind) == IF kind = "identity" THEN "bind worker" ELSE "waiting"

RenameChannel(t) ==
  /\ At(t, "rename")
  /\ \/ Ch(t) \in discord /\ GoTo(t, "renamed")
     \/ GoTo(t, AfterRename(Kind(t)))
  /\ UNCHANGED <<channel, polling, discord, storeVars, registryVars, faults, history>>

Renamed(t) ==
  /\ At(t, "renamed")
  /\ EnsureChannel(Ch(t), 0)
  /\ GoTo(t, AfterRename(Kind(t)))
  /\ UNCHANGED <<channel, polling, discord, registryVars, faults, history>>

\* The mapping waits for Codex; then the acknowledgement and its cursor.
EnsureWaiting(t) ==
  /\ At(t, "waiting")
  /\ EnsureChannel(Ch(t), 0)
  /\ GoTo(t, IF Kind(t) = "identity" THEN "rename" ELSE "acknowledge")
  /\ UNCHANGED <<channel, polling, discord, registryVars, faults, history>>

\* The desktop refused: the channel is told, and its mapping marked.
PostInChannel(t) ==
  /\ task[t].at \in {"acknowledge", "refusal"} /\ Ch(t) \in discord
  /\ GoTo(t, IF At(t, "refusal") THEN "refuse" ELSE "keep")
  /\ UNCHANGED <<channel, polling, discord, storeVars, registryVars, faults, history>>

EnsureRefused(t) ==
  /\ At(t, "refuse")
  /\ EnsureChannel(Ch(t), 0)
  /\ GoTo(t, "keep")
  /\ UNCHANGED <<channel, polling, discord, registryVars, faults, history>>

EnsureKept(t) ==
  /\ At(t, "keep")
  /\ EnsureChannel(Ch(t), 0)
  /\ GoTo(t, IF task[t].sent THEN AfterChannel(Kind(t)) ELSE "cursor")
  /\ UNCHANGED <<channel, polling, discord, registryVars, faults, history>>

MarkRefusalSeen(t) ==
  /\ At(t, "cursor") /\ Mapped(Ch(t))
  /\ GoTo(t, AfterChannel(Kind(t)))
  /\ UNCHANGED <<channel, polling, discord, storeVars, registryVars, faults, history>>

-----------------------------------------------------------------------------
(* Closing a channel: operatorCloseChannel, also for the companions of       *)
(* workers.  It has three outcomes; none of them is an exception, unless the *)
(* store's own.                                                              *)

\* The task is done with a channel: the next one, or what follows.
Closed(t) ==
  LET rest == task[t].todo \ {Ch(t)}
  IN  task' = [task EXCEPT ![t].todo = rest,
        ![t].ch = IF rest = {} THEN 0 ELSE FirstOf(rest),
        ![t].at = IF rest # {} THEN "close"
                  ELSE CASE Kind(t) = "cleanup worker" -> "close worker"
                         [] Kind(t) = "cleanup run"    -> "archive"
                         [] OTHER                      -> "done"]

\* An operator's close may be refused, because the channel waits for Codex.
LookUpChannel(t) ==
  /\ At(t, "close")
  /\ \/ Mapped(Ch(t)) /\ GoTo(t, "delete")
     \/ (~Mapped(Ch(t)) \/ Kind(t) = "close") /\ Closed(t)
  /\ UNCHANGED <<channel, polling, discord, storeVars, registryVars, faults, history>>

\* Mutant: the mapping is removed whether or not Discord deleted the channel.
DeleteAnyway(t) ==
  /\ At(t, "delete")
  /\ \/ /\ discord' = discord \ {Ch(t)}
        /\ UNCHANGED faults
     \/ /\ faults < MaxFaults
        /\ faults' = faults + 1
        /\ UNCHANGED discord
  /\ GoTo(t, "unmap")
  /\ UNCHANGED <<channel, polling, storeVars, registryVars, history>>

\* A channel that is already missing counts as deleted; any other error ends
\* the close and leaves the mapping.
DeleteFromDiscord(t) ==
  /\ At(t, "delete")
  /\ \/ /\ discord' = discord \ {Ch(t)}
        /\ GoTo(t, "unmap")
        /\ UNCHANGED faults
     \/ /\ faults < MaxFaults
        /\ faults' = faults + 1
        /\ Closed(t)
        /\ UNCHANGED discord
  /\ UNCHANGED <<channel, polling, storeVars, registryVars, history>>

Unmap(t) ==
  /\ At(t, "unmap")
  /\ mapping' = [mapping EXCEPT ![Ch(t)] = Unmapped]
  /\ Closed(t)
  /\ UNCHANGED <<channel, polling, discord, seen, nextShort, list, activeRun, registryVars, faults, history>>

-----------------------------------------------------------------------------
(* The registry's commands.  The registry is a command line tool, and a call  *)
(* of it that comes back as an error may have been carried out: that is then  *)
(* a failure of the step after it.                                            *)

StartedWorker(r) == Append(workers, [run |-> r, ch |-> 0, label |-> 0, open |-> TRUE])

BoundWorker(w, c, l) == [workers EXCEPT ![w].ch = c, ![w].label = l]

ClosedWorker(w) == [workers EXCEPT ![w].open = FALSE]

\* The run that is active when the command begins.
ActiveRun(t) ==
  /\ At(t, "active")
  /\ task' = [task EXCEPT ![t].ref = activeRun, ![t].at =
       IF activeRun = 0 THEN "say"
       ELSE CASE Kind(t) = "start worker" -> "register"
              [] Kind(t) = "archive run"  -> "archive"
              [] Kind(t) = "cleanup run"  -> "companions"
              [] OTHER                    -> "worker"]
  /\ UNCHANGED <<channel, polling, discord, storeVars, registryVars, faults, history>>

CreateRun(t) ==
  /\ At(t, "create run")
  /\ runs' = Append(runs, "open")
  /\ task' = [task EXCEPT ![t].at = "set run", ![t].ref = Len(runs) + 1]
  /\ UNCHANGED <<channel, polling, discord, storeVars, workers, faults, history>>

\* The board of a run that exists shows that it does.
Board(t) ==
  /\ At(t, "board") /\ task[t].key \in DOMAIN runs
  /\ task' = [task EXCEPT ![t].at = "set run", ![t].ref = task[t].key]
  /\ UNCHANGED <<channel, polling, discord, storeVars, registryVars, faults, history>>

SetActiveRun(t) ==
  /\ task[t].at \in {"set run", "clear"}
  /\ activeRun' = IF At(t, "clear") THEN 0 ELSE task[t].ref
  /\ GoTo(t, "say")
  /\ UNCHANGED <<channel, polling, discord, seen, mapping, nextShort, list, registryVars, faults, history>>

\* The registry may also refuse what concerns an archived run.
RegisterWorker(t) ==
  /\ At(t, "register")
  /\ workers' = StartedWorker(task[t].ref)
  /\ task' = [task EXCEPT ![t].at = "create", ![t].ref = Len(workers) + 1]
  /\ UNCHANGED <<channel, polling, discord, storeVars, runs, faults, history>>

WorkersOf(run) == {w \in DOMAIN workers : workers[w].run = run}

\* resolveWorkerSelector and getWorker: the number counts the run's workers.
GetWorker(t) ==
  LET named == {w \in WorkersOf(task[t].ref) : Cardinality({v \in WorkersOf(task[t].ref) : v <= w}) = task[t].key}
      w     == FirstOf(named)
      c     == workers[w].ch
  IN  /\ At(t, "worker") /\ named # {}
      /\ task' = [task EXCEPT ![t].ref = w, ![t].ch = c, ![t].todo = {c} \ {0}, ![t].at =
           CASE Kind(t) = "identity" -> IF c = 0 THEN "say" ELSE "look"
             [] Kind(t) = "cleanup worker" /\ c # 0 -> "close"
             [] OTHER -> "close worker"]
      /\ UNCHANGED <<channel, polling, discord, storeVars, registryVars, faults, history>>

\* refreshOrchestrationWorkerIdentity: the mapping of the worker's channel, made
\* anew if there is none; then the label of mapping, registry or desktop.
LookAtMapping(t) ==
  /\ At(t, "look")
  /\ task' = [task EXCEPT ![t].at = IF Mapped(Ch(t)) THEN "identify" ELSE "adopt",
       ![t].label = IF mapping[Ch(t)].label # 0 THEN mapping[Ch(t)].label ELSE workers[task[t].ref].label]
  /\ UNCHANGED <<channel, polling, discord, storeVars, registryVars, faults, history>>

Adopt(t) ==
  /\ At(t, "adopt")
  /\ EnsureChannel(Ch(t), task[t].label)
  /\ GoTo(t, "identify")
  /\ UNCHANGED <<channel, polling, discord, registryVars, faults, history>>

\* Without a label anywhere: the thread selected on the desktop, if it tells.
Identify(t) ==
  /\ At(t, "identify")
  /\ IF task[t].label # 0 THEN GoTo(t, "bind")
     ELSE \/ GoTo(t, "say")
          \/ \E l \in Threads : task' = [task EXCEPT ![t].at = "bind", ![t].label = l]
  /\ UNCHANGED <<channel, polling, discord, storeVars, registryVars, faults, history>>

BindWorker(t) ==
  /\ At(t, "bind worker")
  /\ workers' = BoundWorker(task[t].ref, Ch(t), task[t].label)
  /\ GoTo(t, "say")
  /\ UNCHANGED <<channel, polling, discord, storeVars, runs, faults, history>>

CloseWorker(t) ==
  /\ At(t, "close worker")
  /\ workers' = ClosedWorker(task[t].ref)
  /\ GoTo(t, "say")
  /\ UNCHANGED <<channel, polling, discord, storeVars, runs, faults, history>>

\* cleanup run: the companions of all its workers, one after the other.
ListCompanions(t) ==
  LET cs == {workers[w].ch : w \in WorkersOf(task[t].ref)} \ {0}
  IN  /\ At(t, "companions")
      /\ task' = IF cs = {} THEN [task EXCEPT ![t].at = "archive"]
                 ELSE [task EXCEPT ![t].at = "close", ![t].todo = cs, ![t].ch = FirstOf(cs)]
      /\ UNCHANGED <<channel, polling, discord, storeVars, registryVars, faults, history>>

ArchiveRun(t) ==
  /\ At(t, "archive")
  /\ runs' = [runs EXCEPT ![task[t].ref] = "archived"]
  /\ GoTo(t, "clear")
  /\ UNCHANGED <<channel, polling, discord, storeVars, workers, faults, history>>

-----------------------------------------------------------------------------
(* Operators' requests, and what the mapped channels do meanwhile.           *)

OperatorRequest(t, kind) ==
  /\ At(t, "idle") /\ kind \in script.operators
  /\ \/ /\ kind = "start thread"
        /\ task' = [task EXCEPT ![t] = [Idle EXCEPT !.at = "create", !.kind = kind]]
     \/ /\ kind = "bind channel"
        /\ \E title \in Titles :
             task' = [task EXCEPT ![t] = [Idle EXCEPT !.at = "create", !.kind = kind, !.label = title]]
     \/ /\ kind = "close"
        /\ \E c \in Channels : Mapped(c) /\
             task' = [task EXCEPT ![t] = [Idle EXCEPT !.at = "close", !.kind = kind, !.ch = c, !.todo = {c}]]
  /\ UNCHANGED <<channel, polling, discord, storeVars, registryVars, faults, history>>

\* A poll of the mapped channels forwards a channel's first prompt, which makes
\* its thread.
FirstPrompt(c) ==
  /\ ~polling /\ Mapped(c) /\ mapping[c].label = 0 /\ c \in discord
  /\ \E l \in Threads : BindChannel(c, l)
  /\ UNCHANGED <<channel, polling, task, discord, registryVars, faults, history>>

-----------------------------------------------------------------------------
(* Failures.                                                                 *)

\* Mutant: an error while switching to another run is not caught.
SwitchUncaught(t) == Kind(t) \in OnRegistry \ {"switch run"} /\ task[t].at \notin {"report", "mark"}

\* Errors of registry commands are caught and reported in the command channel.
Caught(t) == Kind(t) \in OnRegistry /\ task[t].at \notin {"report", "mark"}

\* What it has in hand stays as it is.
Lets(ts) == left \cup ({Ch(t) : t \in ts} \ {0})

\* Counted as far as there are channels.
Cuts(ts) == [k \in Numbers |->
  IF (\E t \in ts : task[t].cmd = k) /\ cut[k] < Cardinality(Channels) THEN cut[k] + 1 ELSE cut[k]]

Handling(t) == task[t].at \notin {"idle", "done"}

\* The calls a command may have refused whenever it makes them: the desktop's
\* list, thread and note, a channel above the server's limit, an answer that
\* quotes a long title and is sent in one piece (handlePickup).
Refusable == {"threads", "find", "note", "create", "say"}

Refused(t) == task[t].cmd # 0 /\ task[t].at \in Refusable \cap commands[task[t].cmd].refused

\* The call at hand cannot succeed, or the registry may refuse it.
Futile(t) ==
  \/ Refused(t)
  \/ task[t].at \in {"noted", "bind", "cursor"} /\ ~Mapped(Ch(t))
  \/ task[t].at \in {"acknowledge", "refusal"} /\ Ch(t) \notin discord
  \/ task[t].at \in {"turns", "told"} /\ ~Mapped(FirstOf(task[t].todo))
  \/ At(t, "board") /\ task[t].key \notin DOMAIN runs
  \/ At(t, "worker") /\ task[t].key \notin 1 .. Cardinality(WorkersOf(task[t].ref))
  \/ task[t].at \in {"register", "archive"} /\ runs[task[t].ref] = "archived"

\* Errors of a rename and of Discord's deletion have their own outcomes above.
Fails(t) ==
  /\ Handling(t) /\ task[t].at \notin {"rename", "renamed", "delete"}
  /\ Futile(t) \/ faults < MaxFaults
  /\ faults' = IF Futile(t) THEN faults ELSE faults + 1
  /\ left' = Lets({t})
  /\ IF Caught(t)
     THEN GoTo(t, "report") /\ UNCHANGED <<polling, cut>>
     ELSE /\ task' = [task EXCEPT ![t] = IF t \in Pollers THEN Idle ELSE [Idle EXCEPT !.at = "done"]]
          /\ polling' = (polling /\ t \notin Pollers)
          /\ cut' = Cuts({t})
  /\ UNCHANGED <<channel, discord, storeVars, registryVars, maker>>

\* The relay stops and starts.  bootstrapCursors sets a cursor that was never
\* set past whatever was written before.
Restart ==
  /\ faults < MaxFaults
  /\ \E t \in Tasks : Handling(t)
  /\ faults' = faults + 1
  /\ polling' = FALSE
  /\ task' = [t \in Tasks |->
       IF t \in Pollers \/ At(t, "idle") THEN Idle ELSE [Idle EXCEPT !.at = "done"]]
  /\ seen' = IF seen = 0 THEN Len(commands) ELSE seen
  /\ left' = Lets({t \in Tasks : Handling(t)})
  /\ cut' = Cuts({t \in Tasks : Handling(t)})
  /\ UNCHANGED <<channel, discord, mapping, nextShort, list, activeRun, registryVars, maker>>

Proceed(t) ==
  \/ Say(t) \/ MarkSeen(t) \/ RecordTurn(t) \/ MarkTurn(t)
  \/ ListThreads(t) \/ ResolvePickup(t) \/ FindThread(t) \/ ResolveRefresh(t)
  \/ InjectNote(t) \/ NoteStatus(t)
  \/ CreateChannel(t) \/ EnsureNew(t) \/ Prompt(t) \/ Bind(t)
  \/ RenameChannel(t) \/ Renamed(t) \/ EnsureWaiting(t) \/ PostInChannel(t)
  \/ EnsureRefused(t) \/ EnsureKept(t) \/ MarkRefusalSeen(t)
  \/ LookUpChannel(t) \/ DeleteFromDiscord(t) \/ Unmap(t)
  \/ ActiveRun(t) \/ CreateRun(t) \/ Board(t) \/ SetActiveRun(t) \/ RegisterWorker(t)
  \/ GetWorker(t) \/ LookAtMapping(t) \/ Adopt(t) \/ Identify(t)
  \/ BindWorker(t) \/ CloseWorker(t) \/ ListCompanions(t) \/ ArchiveRun(t)

Handle(t) == Fails(t) \/ (~Refused(t) /\ Proceed(t))

CommandsNext ==
  \/ Write
  \/ \E t \in Pollers : Poll(t) \/ PollTurns(t)
  \/ \E t \in Tasks : Handle(t)
  \/ \E t \in Operators, kind \in {"start thread", "bind channel", "close"} : OperatorRequest(t, kind)
  \/ \E c \in Channels : FirstPrompt(c)
  \/ Restart

\* The timer polls again and again, and calls answer or fail.
CommandsFairness ==
  /\ WF_commandVars(\E t \in Pollers : Poll(t))
  /\ \A t \in Tasks : WF_commandVars(Handle(t))

CommandsSpec == CommandsInit /\ [][CommandsNext]_commandVars /\ CommandsFairness

-----------------------------------------------------------------------------
(* Properties.                                                               *)

\* The type of the state.
CommandsTyped ==
  /\ script \in Scripts /\ IsPrefix(commands, script.people)
  /\ seen \in 0 .. Len(commands)
  /\ polling \in BOOLEAN
  /\ DOMAIN task = Tasks
  /\ \A t \in Tasks :
       /\ DOMAIN task[t] = DOMAIN Idle
       /\ task[t].cmd \in {0} \cup DOMAIN commands
       /\ Ch(t) \in {0} \cup Channels /\ task[t].todo \subseteq Channels
       /\ task[t].label \in {0} \cup Titles
       /\ task[t].sent \in BOOLEAN
  /\ discord \subseteq Made
  /\ mapping \in [Channels -> [short : 0 .. nextShort - 1, label : {0} \cup Titles]]
  /\ list \in Lists
  /\ activeRun \in {0} \cup DOMAIN runs
  /\ Range(runs) \subseteq {"open", "archived"}
  /\ \A w \in DOMAIN workers :
       workers[w] \in [run : DOMAIN runs, ch : {0} \cup Channels, label : {0} \cup Titles, open : BOOLEAN]
  /\ faults \in 0 .. MaxFaults
  /\ left \subseteq Channels

\* However the timer, POST /api/poll, errors and restarts fall, a command makes
\* one channel, and one more for each time its handling was cut short: the
\* cursor passes a command only when it is done with (pollCommandChannel).
OneEffectPerCommand ==
  /\ CommandsTyped
  /\ \A k \in DOMAIN commands : Cardinality({c \in Channels : maker[c].cmd = k}) <= 1 + cut[k]

\* No channel is left on Discord that the relay has forgotten, unless a request
\* failed while it had it in hand: a close forgets a channel only when Discord
\* has deleted it (operatorCloseChannel).
NoOrphans ==
  \A c \in discord : Mapped(c) \/ c \in left \/ \E t \in Tasks : Handling(t) /\ Ch(t) = c

\* Two pickups do not give one thread two channels, although the channel is
\* looked for before three awaits, unless the later one spelled the thread
\* otherwise than the desktop does: mappings are compared exactly, threads
\* without accents and case (handlePickup, findVisibleDesktopThread).
PickupsShare ==
  \A c, d \in {e \in Channels : Mapped(e) /\ maker[e].kind = "pickup"} :
    c < d /\ mapping[c].label = mapping[d].label =>
      LET command == commands[maker[d].cmd] IN command.by = "title" /\ command.key \notin Threads

\* The next command is none of the registry's, and is refused something for good.
HeldUp ==
  /\ seen < Len(commands)
  /\ commands[seen + 1].kind \notin OnRegistry /\ commands[seen + 1].refused # {}

\* Again and again the relay has caught up with the commands, unless one other
\* than the registry's is refused a call for good.  What fails for good in a
\* registry command, like a run that does not exist or a channel that cannot be
\* made, is answered and not tried again (handleOrchestrationCommand); in any
\* other it throws before markCommandSeen, and the command is tried at every poll
\* and holds up what comes after it (pollCommandChannel).
CommandsPass == []<>(seen = Len(commands) \/ HeldUp)
=============================================================================
