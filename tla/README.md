# Protocol Runner in TLA+

A verification project for the protocol runner: the service that takes a *work
plan* (a list of steps for Codex workers), runs it one step at a time through a
Desktop application or, for a *parallel group* step, through worker processes,
and keeps the evidence of what happened. The modules are translated from the
source under `src/`; paths below are relative to it. `PROJECT.json` lists the
components, the runs, the source lines of every definition, the hazards, the
mutants and the theorems.

## 1. Inventory

Services and packages, the state each keeps, and what makes it hard.

| Component | State | Operations | Interacts with |
|---|---|---|---|
| **Run control**: `services/protocol-runner-api/src/controller.ts` over `packages/protocol-runner-core` (transition rules, action table, report parsing) | the run state: status, cursor, pending start report, binding, automation | create, validate, bind, automation, start, resume, retry, pause, fail, start report, return, close; the parallel-group requests | the store; the Desktop and relay adapters (HTTP) |
| **Work plans**: `packages/protocol-runner-core` (validation, transitions, prompts) | none | validate, next cursor, render | run control |
| **Store**: `services/protocol-runner-api/src/store.ts` (sql.js in memory, written to its file as a whole; a JSON store for legacy runs; a hybrid of the two) | rows of runs, groups, items, attempts, leases; evidence files per run | `withWrite` transactions; file creation with `wx` | the file system; the artifact coordinator |
| **Artifact lifecycle**: `services/protocol-runner-api/src/run-artifact-lifecycle.ts` | transaction directories: marker, staged run directory | create, promote, retire, roll back, reconcile at startup | store, `startup.ts`, `main.ts` |
| **Parallel group**: the four tables of a group in `store.ts` | statuses of group, preflight, items, attempts, leases; deadlines | preflight record, grant, heartbeat, result, retry, stale recovery, pause, stop | controller, executors |
| **Parallel executor**: `services/protocol-runner-parallel-executor/src/executor.ts` | launches in flight, lease monitors, shutdown flag | poll, recover, grant, refuse, launch, heartbeat, abort, submit | the API over HTTP; worker processes; attempt directories |
| **Worker launcher**: `launcher.ts` of the same service | one worker process with its process group, logs, evidence files | spawn, time out, abort, kill, read the output, record | executor; Codex; Git |
| **Source workspaces and closeout**: `source-workspace.ts` of the executor, `source-closeout.ts` of the API | Git worktrees, reservations and handoff manifests per attempt; the closing marker | reserve, bind, hand off, acknowledge, release, hold | launcher, `closeRun` |
| **Sealed outputs**: preflight and close in `controller.ts` | the declared output files and their directories | write check, containment checks, cleanup | workers, people, other runs |
| **Driver**: `services/protocol-runner-driver` | which run is next | polls the API and starts ready runs | the API |
| **Desktop API**: `services/codex-desktop-api`, with the UI Automation helper | a queue of UI actions on one Desktop behind an operator's gate | submit, hold, allow, run, answer | the run control's adapter, the relay |
| **Discord relay**: `services/codex-discord-desktop-relay` | one state file: mappings, cursors, the thread list, the registry's active run | poll channels and commands, forward, publish, bind, close | Desktop API, Discord, the orchestration registry |
| **Remote core, thread core, transport** (`packages/`) | UI reducers, thread log parsing, the helper's lock | mostly pure functions | relay, Desktop API |
| **UI, scripts, operations** (`apps/`, `scripts/`, `ops/`) | none procedural | | the API |

What is hard, and where. Every request to the API is an asynchronous handler:
it loads the run, awaits files or HTTP calls, and writes the *whole* run state
back, so requests interleave at every `await`; the relay's pollers and requests do the same
over one state file. Leases expire by the clock while
their holders work on. A paused or stopped group still gets the results of work
in flight. The API service can stop between any two steps of creating or deleting a
run, and a step can fail; so can the executor between the steps of a handoff, and the relay between the
renames of its state file. Prompt delivery may time out although the prompt
arrived. A worker can end while its tools go on writing. `PROJECT.json` names each hazard at its line, with the property that
watches it, or why none does.

What makes each component correct:

- *parallel group*: an item is worked on by one holder at a time, at most
  `max_concurrency` at once, nothing gets stuck, evidence is never overwritten,
  the group's status tells the truth;
- *run control*: a prompt attempt is sent at most once, the cursor never runs
  ahead of accepted reports, what the run waits for can come, evidence files are
  written once, a failed run stays failed, a dispatch does not hang;
- *fleet*: an accepted plan leads somewhere at every step, a run is bound for the steps it gets to, a ready run gets its turn;
- *artifacts*: row and directory exist together or not at all after every crash
  and failure, a committed run never loses its evidence, startup recovers
  everything it can decide;
- *executor*: an attempt is started once, whoever expires or recovers; no more workers than
  capacity; a shutdown reaches all its workers; no lease and no lost worker stays for ever;
- *launcher*: a killed launch ends and leaves nothing running; only a worker that ended well completes its item;
- *source closeout*: a close and a launch exclude each other, no contribution is deleted before it was acknowledged;
- *sealed outputs*: a close deletes the run's declared files and nothing else, and comes through when repeated; an item is launched only where it may write;
- *relay*: a message reaches the Desktop once, a waiting channel can be answered, no channel and no command is
  forgotten, the state file survives every crash.

## 2. Modules

```
WorkLedger  <= ParallelGroupLedger -> ParallelGroup <- ParallelRun       (MCParallelRun)
                 (MCParallelGroup)                  <- ParallelExecutor
                                                    <- MCPause (pause observer)
RunControl -> DesktopHelper <- Relay -> DesktopQueue
WorkPlan <- Fleet               DurableRegister <= RelayState
RunArtifacts   SealedOutputs   RelayCommands   SourceCloseout   WorkerProcess
```

`A <- B`: B extends A. `A <= B`: B is shown to implement the abstract specification A. A module `MCM` gives the
constants of `M` values that a configuration cannot write down, or a symmetry; the other modules are checked as they are.
A module `MProofs` holds the proofs about `M` (section 4); `ParallelClientsProofs` those about `ParallelExecutor` and `ParallelRun`, and
`LaunchProofs` those about `SourceCloseout` and `WorkerProcess`, and `RelayStateAndCommandsProofs` those about `RelayState` and `RelayCommands`.

### ParallelGroup

One group in the SQLite store. One action per `withWrite` transaction of
`store.ts`; these are synchronous on the in-memory database and serialised, so
one action each. A refused operation throws and rolls back: no step.

| TLA+ | code |
|---|---|
| `group`, `preflight` | the group row (`parallel_groups`) |
| `itemStatus`, `latest` | the item rows and their `latest_attempt_id` |
| `attempts` | the attempt rows, by item and number |
| `lease` | the lease rows, with `expires_at` as the time left |
| `dirs` | attempt directories on disk, made by the executor |
| `checks` | the outcome of `preflightParallelGroup`'s checks, held by a request that has not recorded it yet |
| `Grant`, `Heartbeat`, `RecordResult`, `Retry`, `RecoverStale`, `Pause`, `Stop`, `PreflightChecks`/`RecordPreflight` | `grantParallelLeases`, `recordParallelHeartbeat`, `recordParallelAttemptResult`, `retryParallelItem`, `recoverStaleParallelLeases`, `controlParallelGroup`, the two halves of preflight |

Abstractions. Time is relative: a lease carries the time it has left, `Tick`
takes one unit from every lease, and `expires_at <= now` is `expiresIn = 0`.
Executors use one time to live, and renewals are from the server's clock, so one
`LeaseTtl` is enough. Recovery may be asked with an `observed_at` ahead of the
clock (`MaxLead`); one in the past recovers a subset of the expired leases
and is left out. The result statuses the store treats alike are one. Several executors need no variable: the store does not
look at who asks. Preflight is two actions because its checks read the rows and
files before, and outside, the transaction that records them; one such request
is in flight at a time (a bound). The file system answers `attemptDirectoryIsProvenAbsentSync`
exactly: a directory is there or it is not.

One action is wider than the code: `MakeAttemptDir` lets whoever was ever granted a
lease make its directory at any later time. An executor does so after a successful
heartbeat, which `ParallelExecutor` adds; what holds of the wider action holds of that.

**WorkLedger** is what the four tables promise, without leases, clocks or
preflight: an item is open, held, completed or in need of attention; every hold ends with
at most one outcome added to its evidence; a completed item is final; only an operator
reopens one that needs attention; never more than the limit are held.
**ParallelGroupLedger** maps the rows to it (`LedgerWork` reads an item's status, `LedgerEvidence` its
attempts but for a newest one that is still live) and states `ImplementsLedger == Ledger!Spec`. It
contains what single properties said one by one (evidence only grows, completed items stay,
the limit), and excludes more: a recovery of several leases may not settle an item twice.

### ParallelRun

A run whose current step is a group: `ParallelGroup` composed with the run. Each
group request of `controller.ts` performs one action of `ParallelGroup` (the
store's transaction), and some awaits later loads the run, computes a state from it and
writes that state back *as a whole*. `handler[h]` is such a request between its
steps; `run` is the run's status and step (1 the group, 2 the serial step after it).

| TLA+ | code |
|---|---|
| `GrantLeasesOf`, `AcceptResult`, `RecoverLeases`, `RetryItem`, `ControlRequest`/`ControlGroup`, `HeartbeatOf` | the handlers of the same names; `AcceptResult` is `cancelParallelAttempt` too |
| `StartRequest`, `Checks`, `RecordChecks`, `Started` | `startRun` or `resumeRun` of a blocked run, `preflightParallelGroup`, `startParallelGroup` |
| `Resume`, `ResumeIfLeaseable`, `PauseRun`, `FailRun` | `resumeParallelGroup`, `pauseRun`, `failRun` |
| `ReadOutcome`, `ReadRecovered` | the store reads the group for its answer after its transaction |
| `LoadAgain`, `WriteState` | `loadRun` and `updateStoredState` |
| `StartNextStep` | the driver or an operator starts the serial step (its further life is `RunControl`'s) |

Abstractions. A group request first checks that the group is the current step.
When the store's transaction has guards of its own that no group past its step satisfies (a pending item, an
active lease, an item to retry), check and transaction are one step; for pause and
stop, which have none, they are two. `appendEvent` calls
change no modelled state. `Alone` is a bound on interleaving: requests of these kinds arrive only when
nothing else is in flight. `closeRun` at a group step is `SourceCloseout` and `SealedOutputs`;
`setAutomation` and a `return` accepted for a group step are not in this module.

### ParallelExecutor

The processes that work on a group: several executors, each in one tick at a time, and
one launch per lease. The API's side of every call is the action of `ParallelGroup`.

| TLA+ | code |
|---|---|
| `executor[e]` | the shutdown signal; what the tick is doing; what `launchAvailableCapacity` may still take |
| `launch[l]` | `launchAndSubmit(l)`: where it is, its abort controller, whether a process was started and how it ended |
| `Poll`, `Recover` | `tick`: discovery, then stale recovery, or a leaseable group with capacity |
| `RefuseGroup` | an executor whose worker profile lacks a capability the group requires stops the group, for everybody |
| `TakeLeases`, `TakesNone`, `EndTick` | the loop of `launchAvailableCapacity`, and the wait for all launches after it |
| `Enter`, `ProveLease`, `MakeDirectory`, `Revalidate` | `launchAndSubmit` up to the launcher: the heartbeats on both sides of the `mkdir`, and the two looks at the shutdown signal |
| `StartWorker`, `WorkerExits`, `StreamsClose` | `launch` and `runCodexExec` of the launcher: the start, the worker's exit, the `close` event |
| `Conclude`, `Submit` | what is reported of the end, and `submitAttemptResult` |
| `MonitorHeartbeat`, `MonitorAborts` | `monitorLeaseControl` |
| `RequestShutdown`, `ExecutorCrash` | `requestShutdown`; the process dies, and its workers go on or not |
| `Intervene` | an operator pauses or stops the group, cancels an attempt or retries an item |

Abstractions. A call is refused when the API refuses it (the lease is no longer
active, or has expired), and `MaxFaults` times it is *lost*: the executor sees an error, and
the API has or has not done what it was asked. A failed setup and a crash count as faults too. The
monitor's calls come whenever they like, so heartbeats may always be too late. Deciding in
`Poll` and calling the API afterwards are separate steps, hence stale decisions are in the model.
`Profiles` bounds which executors
may have the capabilities. One run with one group, not terminal; the contents of
attempt warnings are left out.

Before a heartbeat the monitor walks the attempt's directory for its newest file
(`latestAttemptEvidenceMtimeMs`). A file that is gone between `readdir` and `stat`
makes it throw, and nobody waits for the monitor before the launch has ended, so
the rejection ends the executor's process; if the launch ended during the walk,
its result is never submitted. `MonitorFails` has both outcomes; `LeasesEnd`
holds with them because the lease expires and another executor recovers it.

### RunControl

One serial run of `controller.ts`. `handler[h]` is a request in flight, with
the program counter at its next await point. `Arrives` are the requests (load and check),
`Advances` what follows. Prompt, start and report files are written with the
flag `wx`: creating one that exists throws and ends the request where it is.
`sendCurrentPrompt` is the longest path: check the contract files and number the
attempt, write `dispatching_prompt`, snapshot, prompt file, send, answer, write.
`closeRun` writes the run twice around a relay call, then deletes it.

What the Desktop makes of a prompt, and what `sendPrompt` of the adapter makes of that answer, comes
from `DesktopHelper`: `sent`, `not_sent` or `unknown`, each with the truth of whether
the window took the prompt. Both reports are parsed: `StartReport` and `StatusReport` are the reports as a worker can write them
(each field right, wrong or missing), and `VerdictOf` and `ReportedPrompt` are what `completion.ts` makes of them. The
store checks a state before it writes it (`Stored`).

Abstractions. A prompt attempt is `<<step, number>>`; its random token is
represented by that pair. `appendEvent` calls change no modelled state.
Loading a run and starting its first write are separate steps, as are all
later ones; checking that the run's row exists and creating a file is one step
(the gap between them is a listed hazard). A bind that the relay refuses
changes nothing. The id of a deleted run is not used again. Steps of kind
`parallel_group` are not in this module.

### WorkPlan and Fleet

`WorkPlan` is `validateWorkPlan` and the transition rules as operators on a plan: a
record of its mode and its steps, each with the names of its malformed fields. `Accepted(plan)` is the
conjunction of the validator's checks that a later step of the system relies on; `Transition` is where a report leads.

`Fleet` is the API's list of runs with `driver.ts`. A request is one step here; the two modules above
take them apart. `Create` offers any plan of a set, refused ones among them; `Bind`, `SetAutomation`, `Start`,
`Resume`, `Preflight`, `Pause`, `Fail`, `Report`, `GroupEnds` and `Close` change a run. `Tick` is one tick of the
driver: it lists the runs, goes round from where the last one ended, and starts the first
that is ready and automatic; its call can fail, be refused or lose its answer, and the driver can be restarted.
`ahead` remembers which runs were started while another one, shown ready by every list, waited.

### RunArtifacts

One run id, created and retired again and again. `memory` and `disk` are the
row in the process and in the database file, which is written as a whole after
each commit. `final` is the run directory; `txn` the transaction directories
(marker, staged run). Rows and directories are named after the transaction that
created them, so a directory restored for the wrong run is visible. `op` is the
create, retire or reconcile in progress (the coordinator serialises them).
`Catch` is the table of where a thrown error leads. `Crash` is possible
everywhere; a step of each kind in `MayFail` can throw once. Recursive removal
happens in any order and can stop half-way.

Both stores are modelled. In `json` mode a run is its directory; in `hybrid` mode runs with a row
belong to the SQLite store and the others, made before the switch, to the JSON store. Each
store serialises its own operations (`op` has one entry per store), and neither knows of the other's: a
legacy close (`CloseLegacy`, then `BeginLegacyRetire`) looks the run up first and takes its turn later. The mode
changes only at a start.

Not in the model: the two branches
of `restore` ("both exist", "neither") that the coordinator's own callers cannot
reach; damaged marker contents (a marker is written whole or is absent). `ReusedEarly` is
an assumption of the suite's run: an id whose legacy close is still in flight is not used again.

### SourceCloseout

Source-writing attempts (`source-workspace.ts`, the launcher) against the closes of their run (`source-closeout.ts`,
`closeRun`). The two services share only files. `Launch(a)` is an attempt's way from the entry through
reservation, the look at the marker, the worktree, the run, the capture, the removal of the worktree and
the recording; `Close(c)` is a close's way through the list of groups, the marker, the worktrees and reservations,
the handoffs with their acknowledgements, the removal of the marker when it has to give up, and the deletion. `ExecutorCrash` and `ServiceCrash` are possible
everywhere, and a step can fail. A handoff is acknowledged or it is not; the store's retirement of the run is one step (`RunArtifacts` takes it apart).

### SealedOutputs

The output files of several runs on one disk: a partial function from physical paths to directories, files (with an owner) and
links. `BeginPreflight`, `Prepare`, `MakeDir`, `Recheck`, `Probe`, `Unprobe`, `EndPreflight` are the write checks; `WorkerWrites` the worker's file;
`BeginClose`, `CheckOverlap`, `Collect`, `CheckRemaining`, `Retire` the close, with `Look`, `Check`, `Unlink`, `CheckAgain`, `Prune` for each target.
`Move` puts a link in place of a directory, `Note` adds a file, `Crash` ends the requests. `Physical` follows links, so
a path that was inside its root when it was checked can be outside when it is used: every awaited check, and every operation on the
files, is a step of its own. What one check reads (several `realpath` calls and an `lstat`) it reads at once.

What the code cannot exclude the properties excuse, by name: `job[q].calm` remembers for which targets people have disturbed nothing since
the close turned to the target (`Look`), or since the preflight made the item's directory (`MakeDir`), and likewise for the run's directory since its last check.
A link put in place of a directory between the containment check (`controller.ts:1116`) and `fs.rm` (1121) has another file
deleted; between the recheck (2105) and the worker's start, an item is launched whose directory is elsewhere; a file
that people add to storage in the run's directory between the last look and the retirement goes with it. Of two deleting closes of one run one can fail because
the other one unlinked the file between its `lstat` and its `fs.rm`. TLC shows each of them when its excuse is dropped.

### WorkerProcess

One launch of `CodexExecWorkerLauncher` (`launcher.ts`) and its worker on POSIX. `leader` is the worker process, `tools` the
processes it starts; `Piped` ones hold its output streams open, so that Node's `close` event comes only after
them. `KillStep` is `terminateChildProcessTree` (`SIGTERM` to the group, the wait, `SIGKILL` to what is left); `RequestKill` the hard timeout
and the abort. `LaunchStep` is the launcher: spawn, close event, report, output, handoff, evidence, result file (`WriteResult`), and
what the executor and the API then record. Workers and tools write, end and start others in any order, and ignore `SIGTERM` or not.
No tool leaves the process group and signals are delivered; Windows and the fake launcher are left out.

### DesktopQueue, DesktopHelper and Relay

`DesktopQueue` is `desktop-action-queue.ts`: `pending` behind a gate that counts down or is held by the operator, and the snapshot that
runs when it opens. `DesktopHelper` is the table of what can become of a request: the helper's answers
(`PromptAnswers`, `CreateAnswers`, `ReadbackAnswers`), cut short or not, with the hidden fact of whether the window took the text, and what the two clients
conclude from them. Its lock and the second readback of a creation are folded into the outcomes.

`Relay` extends both and is one mapped channel of the Discord relay. `poll` is `pollMappedChannels` between its awaits, `log` the channel's messages, `mapping`
the channel's entry in the state file, `action[a]` a request handed to the queue, `publish[a]` the HTTP request in which Codex
answers it, `closer` the operator's close. A poll reads a list of messages with the mapping as it was then, submits each to the Desktop, and
records acceptance afterwards; the relay's own timeout can end the wait while the action is still in the queue. Messages that only
ask (status, help, a blank one) are answers and change nothing but the cursor.

### RelayCommands

The command channel: several channels, threads, the registry (`runs`, `workers`) and the tasks that handle commands. `Poll(t)` starts a
poll by the timer or by a request, of which one runs at a time; `Handle(t)` are the awaits of the handlers (list, new, pickup, refresh, start run, switch
run, clear, start worker, identity, close worker, cleanup, archive); `Request(t, kind)` are operators' requests, concurrent with all. A title can be
spelled differently from the label it finds (`ThreadOf`). Each await may throw, and the relay may restart. What people and operators
do in a behaviour is one of `Scripts`; a command may have calls `refused` whenever it makes them. What becomes of a mapping by `bind current`, and a number that no list
has but that is a thread's title, are left out. A poll ends with the turn states (`PollTurns`, `RecordTurn`, `MarkTurn`): for each channel that had a
thread when it began, the state is recorded, which throws if the channel was closed meanwhile, and the registry is perhaps told.

### RelayState

`state-store.ts`: `queue` is `operationTail`; each mutation reads `state.json`, and replaces first `state.previous.json`, then
`state.json`, through a staging file: write, read back, rename, read back. Each step can fail or be the last before a crash, and one file can be damaged.
**DurableRegister** is what callers are promised: a mutation takes effect at most once, between request and answer, and for good.
`ImplementsRegister == Register!Spec` is the refinement.

## 3. Runs

All runs use a `Spec` with the fairness given below, if any. Deadlock checking is off where the
system may really stop: a completed group, a deleted run, a script at its end, or ids used
up. Lease, handler and transaction ids, and the requests of `sealed_outputs`, are symmetric in the safety runs; no liveness run uses
symmetry. Items, channels and messages are numbers, because the code takes them in that order.

| Run | Instance | States | Shows |
|---|---|---|---|
| `parallel_group` | 2 items, 3 leases, 2 attempts per item, limit 2, ttl 1, lead 1 | 919,806 | `OneHolder`, `LeaseOwnsAttempt`, `NoOrphans`, `GroupStatusHonest`, and the refinement `ImplementsLedger` |
| `parallel_run` | 2 requests at a time, 2 items, 2 leases, 1 attempt per item, restarts | 2,024,431 | `PastGroupOnlyCompleted`: neither a stale write nor a late outcome carries the run past open work |
| `executors` | 2 executors of capacity 1, one perhaps not capable, 1 item, 2 leases, 1 fault | 269,122 | `LaunchedOnce`, `WithinCapacity`, `ShutdownCancels`, and the liveness properties `LeasesEnd`, `LostWorkersStop` |
| `run_control` | 2 requests at a time, 2 steps, 2 attempts at the first and 1 at the second, restarts | 2,633,672 | `SentOnce`, `CursorHasEvidence`, `WaitingIsFounded` |
| `artifacts` | 5 transactions, both stores and the switch between them, one failing step of any kind, a crash anywhere | 35,061 | `NothingLost`, `Agreement`, `OwnEvidence` |
| `source_close` | 2 attempts, one close at a time and two in all, 2 faults | 129,845 | `HeldByTheClose`, `WorkIsKept`, `ReleasedIsPreserved` |
| `sealed_outputs` | 3 runs, 2 requests at a time, one move, note or crash | 501,454 | `FilesKept`, `ReadyInside`, `CloseSucceeds` |
| `worker` | a worker that writes source, a tool that holds its streams and one that does not | 95,060 | `KillLeavesNothing`, `CompletedIsEarned`, and the liveness property `KilledLaunchEnds` |
| `fleet` | 2 runs, 7 plans of which 5 are refused, and one that repeats; 1 fault | 126,786 | `BindingFits`, `RoutesResolve`, `Turn` |
| `relay` | 1 channel, 2 messages, 2 desktop actions, 1 publish, 1 close, 1 fault | 4,128,905 | `QueueSound`, `ForwardedOnce`, `WaitingIsAnswerable` |
| `relay_commands` | 13 scripts, 3 of them with a call that is refused for good, 2 pollers, 1 operator, up to 4 channels, 1 fault | 204,642 | `OneEffectPerCommand`, `NoOrphans`, `PickupsShare`, and the liveness property `CommandsPass` |
| `relay_state` | 3 mutations and the initial one, a crash or error at each step, 1 damaged file | 256,313 | `FilesRecoverable`, the refinement `ImplementsRegister`, and the liveness property `EveryRequestAnswered` |

The abstract specifications are checked as properties: `ImplementsLedger` in `parallel_group`, `ImplementsRegister` in `relay_state`.

### Bounds, and why they are enough

- *Group*: with two items one can be completed or
  stopped while the other is leased, requeued or retried; three leases give an
  item a lease after one expired and one was ended by a result; two attempts give a
  retry after evidence; time to live 1 has both an unexpired and an expired
  lease, and lead 1 lets recovery take a lease whose holder is still on time. The
  theorems below hold for all values, so the bounds only limit what TLC adds.
- *Run and group*: a lost update takes two requests, so there are two, and
  one attempt per item keeps the run small. `Alone = {preflight, pause_group, stop_group, fail}`: these requests do not race others here; racing starts,
  pauses, grants, results, recoveries and retries do.
- *Run control*: every lost
  update and every duplicate send takes two requests; two steps suffice for a
  cursor that moves forward, goes back (`go_to`) and ends; the second attempt at the first step is a retry.
- *Executors*: two launches of one attempt take one item and two leases, the second after a
  requeue; the holder of the first and the recovering executor are two. A fault is a lost call, a failed setup or a
  crash. `Profiles` lets one executor lack the capability. With capacity 1 a batch holds one lease: several batches per tick need
  a larger instance (two items, three leases, capacity 2), whose safety properties hold but which is too
  large to keep. Leases used up end the search (a bound).
- *Artifacts*: an id is created, retired and created again (three transactions),
  with two more for a failed attempt between; one legacy close is in flight at a time (`MaxClosing`). One fault is a bound that matters: with two (a promotion whose move
  fails, then rejected deletions of its rows) a committed row stays without its directory. The
  properties name the kinds of failure under which they are *not* claimed: a database file that could not be
  written (`persist`), a failed removal followed by a crash
  (an orphan run directory that blocks the id), and a failed `begin`, whose leftover
  transaction can make a later start refuse.
- *Source closeout*: one close lists two attempts at different stages; a second close follows an interrupted one; two faults interrupt both sides.
- *Sealed outputs*: two runs share a base directory, one works on the other's output, one keeps storage in its own run directory as older runs do, one
  declares a target twice; two requests are in flight. Of moves, notes and crashes one happens (`MaxEvents = 1`): two together make the run too large.
- *Worker*: one tool with the worker's output streams and one without are the two kinds there are.
- *Fleet*: one run of each of the plans, refused ones included, beside one that repeats a step for ever; one missed answer or restart.
- *Relay*: two messages, so that a list has a later one; two desktop actions; one publish, one fault, one thread label.
- *Relay commands*: up to four commands from a list of scripts, each with the interference that could break it, two pollers and an operator, two spellings
  of one thread, one fault. A call that is refused for good is no fault and is not bounded: the command meets it whenever it is tried.
- *Relay state*: three mutations are one in the primary, one in the previous file and one under way.

### Fairness, and why the code justifies it

- `ExecutorSpec`: an executor that is up, run as a
  daemon, polls for ever (`main.ts`) and goes on with its tick, a launch goes on, its monitor looks at the
  group every `control_poll_interval_ms`, time passes, and an aborted worker that runs is killed
  (`terminateChildProcessTree`). Nothing else ends a worker, since the hard time limit is optional, and nothing
  makes its output streams close (`StreamsClose` has no fairness): `requestKill` returns when the worker has exited (`launcher.ts:345`),
  and a tool may hold the streams for ever (`MCHangingLaunch`). So `LeasesEnd` has the premise `WorkersEnd`, that a launch neither runs nor waits for its
  output for ever, and `LostWorkersStop`, which has no premise, speaks of the worker's process and not of its launch.
  A worker whose executor died belongs to nobody and is not claimed to stop.
- `WorkerProcess`: weak fairness of the launcher's and of the kill's steps, which wait for file operations and timers of their own. Nothing is
  assumed of the worker and its tools: `KilledLaunchEnds` holds however they behave, because `SIGKILL` ends them.
- `RelayState`: a queued operation goes on (`WF` of each step): file operations end, in success or in error. Nobody is assumed to ask.
- `RelayCommands`: the timer starts polls again and again (`server.ts`), and a task goes on: a call answers or fails. The clients of the Desktop and of the registry
  bound their calls; that of Discord sets no time limit (`discord-transport/src/client.ts:217`, 271), so of its calls this is an assumption, for which there are only the
  defaults of Node's `fetch`. People and operators may stop writing.
- `Fleet`: `WF(Tick)`, the driver's loop; no operator and no worker is assumed to act. The property the suite checks there, `Turn`, does not need it;
  `MCDriverStarves.cfg` does.
- `UpSpec` of `RunControl` and `ParallelRun` (configurations outside the suite): every request in flight goes on, as
  the adapters bound every Desktop and relay call (`http-adapters.ts`).

Each property of a run has a mutant: an operator beside the definition
it replaces, a plausible bug in that code, under which TLC finds the property
violated.

### Further configurations, outside the suite

They document what the code does *not* guarantee, or answer a question on an instance of its own. `tlc -config X.cfg M` reproduces each.

| Configuration (module) | Property | Outcome |
|---|---|---|
| `MCPause` (`MCPause`) | `NoGrantWhilePaused` | violated. The contract says of pausing that "no new leases should be granted while paused" (`contracts/protocol-runner.openapi.yaml:529`); a result of work in flight makes `recordParallelAttemptResult` (`store.ts:2026`) recompute the group's status, which forgets the pause. Stale recovery keeps it |
| `MCTwoResults` (`MCParallelRun`) | `NextStepUndisturbed` | violated. A test says that a run "advances from a completed parallel group to the next serial step and sends it normally" (`server.test.ts:1472`). The last two results are recorded by two transactions (`store.ts:2053`); both requests read the group afterwards, find it completed and apply the transition (`controller.ts:1867`) without looking whether the run is still at the group. If the next step is started in between, it is set back to ready while its prompt is out |
| `MCOneRequest` (`MCParallelRun`) | `ConcurrencyRespected`, `CompletionMovesOn` | pass with one request at a time and a limit that binds. With a racing `pause`, `CompletionMovesOn` fails: the stale whole-state write takes the run back to a group that is completed, where nothing can be leased, resumed or retried |
| `MCOneClient` (`MCRunControl`) | `ReportAfterStart`, `DispatchResolves` | pass: with one request at a time and no restart, a dispatch is resolved. With a restart or a failed write in between only a manual failure leaves `dispatching_prompt` |
| `MCFailedFinal` (`MCRunControl`) | `FailedIsFinal` | violated. `state-machine.ts` lists only `closed` after `failed`; the table is not consulted by the controller, whose whole-state writes let a request that loaded the run earlier put the old status back |
| `MCFailedCreate` (`MCRunArtifacts`) | `FailedCreateLeavesNothing` | violated, against "A failed creation leaves no discoverable run or owned partial state" (same contract, line 112): `beginCreate` and the staging of the directory are outside the `try` block |
| `MCDurableRetire` (`MCRunArtifacts`) | `RetiredAfterDurableDeletion` | violated. A test names "durable DB deletion" as what retirement waits for; after a failed write of the database file the decision is taken from the database in memory |
| `MCLateLaunch` (`SourceCloseout`) | `LateLaunchBlocked` | violated: a launch under way when the run is retired can make the attempt's directory again, where no marker is, and is cleared |
| `MCSameTarget` (`MCSealedOutputs`) | `FilesKept` | violated: two runs with one target delete each other's output. With `Runs = {"dots"}` instead, `CloseSucceeds` is violated: one path spelled in two ways is accepted and then cannot be cleaned up |
| `MCHangingLaunch` (`WorkerProcess`) | `AbortedLaunchEnds` | violated: a launch aborted after its worker exited is not killed, and waits for the tool that holds the streams |
| `MCDriverStarves` (`MCFleet`) | `ReadyIsStarted` | violated: with runs that come and go, or one whose start is always refused, a ready run may never have its turn |
| `MCRelayBatch` (`Relay`) | `WaitingHonoured` | violated: the later messages of one list are judged by the mapping read before the first |

Three hypotheses of the theorems are needed, as TLC shows on the runs' own instances:

- `artifacts` with `ReusedEarly = TRUE`: `OwnEvidence` is violated, when an id is reused while a legacy close of it is in flight.
- `artifacts` with `MaxFaults = 2`: `NothingLost` is violated: after a failed move the rejected deletion of the row leads to
  the `catch` block that deletes the directory, though the row stays.
- `source_close` with `Closers = {c1, c2}`, so that `OneClose` does not hold: `HeldByTheClose` is violated: a close that gives up removes the marker of another one, because both share it
  (`source-closeout.ts:53`).

Two properties would be violated without a case that they excuse:

- `ReleasedIsPreserved` speaks of the attempts that the close listed. An attempt leased after `listParallelGroups` and before the marker stands is not
  looked at; if its worker writes and ends in time, its work goes with the run.
- `CommandsPass` without `HeldUp`, that is `[]<>(seen = Len(commands))`: a call that is refused for good, such as a reply of `handlePickup` above 2000 characters, sent in one piece
  (`relay-service.ts:1931`), or a channel that cannot be made (1942), throws out of `pollCommandChannel` before `markCommandSeen` (1056). The same
  command is tried at every poll and holds up every later command and, as the poll ends there, the prompts of the mapped channels. Only the registry's commands have a `catch` of their own.

In `RelayCommands` a mapping can be left without its channel: a rename or a refusal that comes after a close makes one again.

Two more behaviours of `ParallelRun` that no document speaks about: a result makes a run that
was failed or paused running again, since `applyParallelGroupOutcome` does not look at its status; and a
recovery that only requeues leases leaves the run running even if the group needs attention.

## 4. Proofs

Every theorem holds for all values of the constants that the modules' named
assumptions admit: finite sets of items, leases, handlers, executors and closes,
positive limits, times and bounds, any sequence of well-typed steps as a plan, any set of mutations, any scripts of people and operators. Two have
a hypothesis of their own, which section 3 shows to be needed: `Moderate` (one kind of
failure at most, ids not reused early) for `RunArtifacts`, and `OneClose` (the
closes of a run come one after the other) for `HeldByTheClose` and `ReleasedIsPreserved`.

| Module | Theorems |
|---|---|
| `ParallelGroupProofs` | `TypesCorrect`, `OneHolderAlways`, `LeaseOwnsAttemptAlways`, `NoOrphansAlways`, `PendingIsLeaseableAlways`, `ConcurrencyAlways`, `GroupStatusHonestAlways`, `EvidencePreservedAlways`, and the refinement `LedgerImplemented` |
| `ParallelClientsProofs` | `LaunchedOnceAlways`, `WithinCapacityAlways`, `ShutdownCancelsAlways` of `ParallelExecutor`; `PastGroupOnlyCompletedAlways` of `ParallelRun`; `ExecutorsKeepGroup` and `RequestsKeepGroup`, which carry the group's properties over to both |
| `RunControlProofs` | `SentOnceAlways`, `CursorHasEvidenceAlways`, `WaitingIsFoundedAlways` |
| `RunArtifactsProofs` | `NothingLostAlways`, `AgreementAlways`, `OwnEvidenceAlways` |
| `LaunchProofs` | `WorkIsKeptAlways`, `HeldByTheCloseAlways`, `ReleasedIsPreservedAlways` of `SourceCloseout`; `KillLeavesNothingAlways`, `CompletedIsEarnedAlways` of `WorkerProcess` |
| `RelayStateAndCommandsProofs` | `FilesRecoverableAlways` of `RelayState`, and the refinement `RegisterImplemented`; `CommandsInvariant`, `NoOrphansAlways`, `OneEffectPerCommandAlways`, `PickupsShareAlways` of `RelayCommands` |
| `RelayProofs` | `QueueSoundAlways` (of `DesktopQueue`, in the relay), `ForwardedOnceAlways`, `WaitingIsAnswerableAlways` |
| `FleetProofs` | `BindingFitsAlways`, `RoutesResolveAlways`, and the action property `TurnAlways` |

A theorem `PAlways` states `Spec => []P`. In each module the argument is the same: an inductive
invariant, one lemma per action (or per kind of step), a lemma that joins them over `Next`, and the
theorems from it. What differs is why the property is not inductive alone.

### The group

That a result may set
an item's status is safe only because the lease, the attempt and the item agree;
that they agree depends on nobody else holding the item; and a grant is safe only
because a pending item has no lease and its newest attempt was not started. The
invariant `GroupInv` joins these:

- `TypeInv`: the types, and every lease row is for an item of the group;
- `RowsAgree(i)`: the newest attempt is the last one, all earlier ones are finished, and
  the item's status fits the newest attempt's;
- `LeaseAgrees(l)` for every active lease: it is for its item's newest attempt, which is live;
- every live item is held by an active lease, and by one only.

The frame lemmas `RowsUntouched`, `RowsMoveTogether` and `FrameGroup`
state once what an action keeps when it changes one item's rows together, so that `Heartbeat`,
`RecordResult` and `Retry` only argue about the item they touch. `Grant` is
the case with content: the bijection from the fresh leases to the chosen items is what
makes the new holders unique. `ConcurrencyAlways` counts: a grant adds as many leases as
it chose items, and it chose no more than were free; every other action only
shrinks the set of active leases.

`LedgerImplemented` maps each transaction, from `GroupInv`, to one step of `WorkLedger` or to a stutter. `Held` items are
those with an active lease, so a grant is a `Take` of the items chosen, whose number the limit bounds, and a result or a
recovery may only let go of what is held. What the ledger promises, that an item completed stays so, follows
from the agreement of lease and item.

`PendingIsLeaseable`, `ConcurrencyRespected` and `EvidencePreserved` are proved and not listed in a run: the
limit and the evidence are also part of `ImplementsLedger`, and `MCOneRequest.cfg` checks the limit where it binds.

### The group's clients

`ExecInv` adds to `GroupInv` what the executors know. `LaunchesClaim` is the heart of `LaunchedOnce`: a lease whose
launch is starting or was started has its attempt for itself. The attempt has its directory and is past `created`, so that recovery
never requeues it, and no other lease of the same attempt is active or launching. `DirectoryMade` carries this over the
step between the setup and the start; `EveryRoom` bounds the launches of a tick by what its batches may still take.

`RunsInv` says when a request may carry the run past its group: only one that itself saw the group completed (`Completing`).
It is inductive because completed items stay completed (a group fact), so that what a request saw still holds when it
writes its stale state back.

Each step of an executor is a step of the store or leaves its rows alone (`ExecutorStepIsStoreStep`), and so is each step of
a request, but for the restart, which forgets a preflight's checks (`RunStepIsStoreStep`). `ExecutorsKeepGroup` and
`RequestsKeepGroup` conclude that all the group promises, `ImplementsLedger` included, holds whoever works on it.

### Run control

Every request writes back the whole state that it loaded before it waited. `RunInv` therefore says of every state in flight what the
properties say of the stored one: as many steps have an accepted report as its cursor claims (`Evidenced`), and what it
waits for can come (`Founded`). Reports and prompts are never taken back, so a state once supported stays so.
For `SentOnce` the invariant counts the prompt that is about to be sent as well: the
exclusive creation of the prompt's file (`wx`) lets one request at a time past, for ever.

### Run evidence

`ArtifactsInv` is `TypeOK`, `Placed` and, as long as nothing outside the hypotheses happened (`Durable`), `Good`. Its parts are:

- `Kept`: a committed run has exactly one whole directory, at its place or in the marked transaction;
- `Held`: for each place in a store's program, how rows, markers and directories stand there;
- `Turns`: the two stores never work on one committed run at the same time;
- `Strays`, `Whole`, `Rows`: what is left over is not taken for a run, what is staged is complete, and memory and disk differ
  only between a change and its write.

The proof goes through the steps of a store by what they touch (a row, a marker, a directory), not by their
names, and treats a crash with the recovery that follows as one case of `Turns`.

### Source closeout and worker

`WorkInv` says for each attempt at which of the launch's stages its worktree, reservation and handoff stand (`KeepsWork`). `HoldInv` is the argument that
a launch and a close exclude each other: the launch reserves before it looks for the marker, and the close writes the marker
before it looks for reservations. So either the close sees the reservation, or the launch sees the marker. `ReleaseInv` adds what the close knows of
the attempts it has gone through: none of them wrote, or the coordinator acknowledged its work (`Accounted`).

`KillInv`: a kill that is done left the group empty, and a launch goes on from its wait only when no kill is under way.
`VerdictInv`: what was looked at when the verdict was taken (`Earned`) still holds when it is recorded, though tools that
outlive the worker may go on writing.

### Relay

`StateInv` has a part for the queue of the store (its head alone touches the files), the files (one is
damaged at most, and the other is a state then), the commit under way (what it loaded is the newest state until it
installs its own), and the effect of a mutation (it is installed from its rename on, and not before). `RegisterImplemented` uses the same: the
rename of the primary file is the register's one step, everything else a stutter.

`RelayInv` joins the queue, the channel, the poll under way and the messages forwarded. Actions are numbered in the order
they are asked for, so that the queue's order is an order of numbers. `ForwardInv` bounds what was forwarded by three places: the
channel's cursor, the snapshot a poll works from, and the message the poll is at. A message behind all three is never looked at again, unless
the cursor goes back, which only the excused cases do. `WaitInv` carries the binding with which a prompt was
asked for to the moment at which the mapping is set to wait: only a close, which deletes the mapping, takes it away in between.

### Relay commands

`CommandsInv` is `CommandTypes`, `Stages` (a task is only at places its request passes, and one poll runs at a time: `SolePoll`), `Hands`
(what a task has in hand was made, by a request that may make it), and one part for each property:

- `Known`, for `NoOrphans`: every channel on Discord is mapped, was in the hands of a request that failed, or is with a task at
  `ensure`, just made and about to be mapped. A task at `unmap` has a channel that is gone, so that unmapping orphans nothing.
- `Counted`, for `OneEffectPerCommand`: a command made at most `cut[k] + 1` channels, and at most `cut[k]` as long as the cursor is before it
  and no poll is past the making of its channel (`Ahead`). A failure pays for the channel that the next poll may make.
- `Picking`, for `PickupsShare`: a picked-up channel keeps its label as long as it is mapped, a pickup by number or by an exact label
  is past its search only if no mapped channel has that label, and channels are made in the order of their numbers.

The counts are of finite sets that grow by one channel at a time; the proof goes through the steps by what they touch (the mapping, Discord,
the registry, one task), since the same step serves many commands.

### Fleet

`Sound(r)` says of a run that its plan was accepted, that its cursor was made from a step of it, and that its binding fits every
step. `BindingFits` and `RoutesResolve` follow, because the validator has looked wherever a report can lead.

`TurnInv` is the driver's round. A run that waits, and is shown ready by every list, has its place in the order of
ids; whoever was started while it waited (`ahead`) comes after it in the round that begins at the driver's
`next`. A run started twice would have to come before it the second time. The order itself, `Ordered`, is any enumeration that
respects the ids; that a finite set has one is shown by the least counterexample, since the library's
induction theorems cannot be instantiated.

### Only model-checked

- Liveness: `LeasesEnd`, `LostWorkersStop`, `KilledLaunchEnds`, `EveryRequestAnswered`, `CommandsPass`. The prover does not
  reason about fairness and `ENABLED`.
- The action properties of `SealedOutputs`: see the plan.
- What `WorkPlan`'s validator accepts is also evaluated on the plans of the `fleet` run.

No module uses `RECURSIVE`, so that all of them can be proved about.

## 5. Not modelled, and why

- *Executor*: several runs and groups per executor (so also that it always takes the first group it may, however many wait), and what attempt warnings say.
- *Launcher*: Windows' `taskkill`, the fake launcher, arguments and environment; what a worker does is any order of writes and ends.
- *Controller*: a `return` accepted at a group step and automation changes there; `recoverRun`, which only tests call.
- *Plans and prompts*: the wording of a prompt is a value nothing looks into; of the validator's format checks each field is right or wrong.
- *API*: HTTP routing, tokens, configuration and notifications keep no state of the procedure; the adapters appear as calls that answer or fail.
- *Desktop*: the app-server client that resolves thread ids, `state` and attention notices, and the UI Automation script, which appears as its possible answers.
- *Relay*: what a turn state is (its polling is modelled), which only words a notice; health, configuration, wording.
- *Remote core, thread core*: pure reducers and parsers without concurrency; only the helper's lock and last JSON line are used by modelled code.
- *UI, scripts, smoke files, Windows operations*: they call the services above and keep no procedural state.

## 6. Plan

The model is complete along the plan. What is left to prove:

- `SealedOutputs`: `ReadyInside`, `FilesKept` and `CloseSucceeds` for any plans, moves and notes. They need lemmas about paths, prefixes and links.
