--------------------------- MODULE SealedOutputs ---------------------------
(***************************************************************************)
(* The sealed outputs of parallel groups: the one file each worker item    *)
(* has to produce, at a target its plan declares inside a base directory   *)
(* of the contract root.  validation.ts accepts a plan by its declared     *)
(* targets, the controller's preflight prepares and probes the directories *)
(* before workers are leased, workers write the files, and closeRun checks *)
(* the storage against the run's own directory and, when asked to, deletes *)
(* the declared files and the directories they leave empty.                *)
(*                                                                         *)
(* The directories are shared: by the runs of the service, by the requests *)
(* it serves at the same time, and with the people who use the contract    *)
(* root, who add files and put links in place of directories (when storage *)
(* is moved to another disk).  A step of a request is one operation on the *)
(* directories, or one check: a check and the operation it guards are two. *)
(* What one check reads, it reads at once.                                 *)
(***************************************************************************)
EXTENDS Naturals, SequencesExt, TLC

CONSTANTS
  Runs,       \* the run ids
  Plan,       \* each run's groups, in order: a base directory, a contract and items,
              \*   an item having a unit, an artifact and an input (paths below the root)
  Requests,   \* the requests the service can be serving at the same time
  Moves,      \* the directories that may be replaced by a link, and where to
  Notes,      \* the files that people may add
  UserFiles,  \* the files they have from the start
  MaxEvents   \* bound: how many of a move, a note and a crash happen, each once

VARIABLES
  disk,   \* what is where: a partial function from physical paths to entries
  run,    \* each run: "new", "open" or "closed"
  group,  \* the index of its current group
  item,   \* the items of that group: "pending", "ready" (to be leased) or "done"
  job,    \* what each request is doing
  events  \* what has happened: "moved", "noted" (by people), "crashed"

vars == <<disk, run, group, item, job, events>>

-----------------------------------------------------------------------------
(* Paths and what is at them.                                               *)

Root == <<"root">>

Dir        == [kind |-> "dir",  of |-> "none", to |-> <<>>]
File(who)  == [kind |-> "file", of |-> who,    to |-> <<>>]
Link(path) == [kind |-> "link", of |-> "none", to |-> path]

Parent(path) == Front(path)

\* path.resolve(contract_root, path): "." segments disappear.
Resolve(path) == Root \o SelectSeq(path, LAMBDA segment : segment # ".")

Exists(path) == path \in DOMAIN disk

Redirects(path) == Exists(path) /\ disk[path].kind = "link" /\ Exists(disk[path].to)

\* resolvePhysicalPathThroughExistingAncestor: a link on the way is followed (there is
\* one at most, see Move), what does not exist is taken literally.
Physical(path) ==
  LET links == {n \in 1..Len(path) : Redirects(SubSeq(path, 1, n))}
  IN IF links = {} THEN path
     ELSE LET n == CHOOSE n \in links : TRUE
          IN disk[SubSeq(path, 1, n)].to \o SubSeq(path, n + 1, Len(path))

\* The entry itself, its last link not followed (lstat).
Entry(path) == Append(Physical(Parent(path)), Last(path))

Inside(root, path) == IsPrefix(root, path)

Holds(path) == {other \in DOMAIN disk : Inside(path, other) /\ other # path}

\* Nothing there, or a directory with nothing in it.
IsEmpty(path) == Exists(path) => disk[path].kind = "dir" /\ Holds(path) = {}

\* mkdir recursive; something else than a directory in the way makes it fail.
Made(path) ==
  [p \in {SubSeq(path, 1, n) : n \in 1..Len(path)} |-> IF Exists(p) THEN disk[p] ELSE Dir]

CanMake(path) ==
  \A n \in 1..Len(path) :
    Exists(SubSeq(path, 1, n)) => disk[SubSeq(path, 1, n)].kind = "dir"

Without(gone) == [p \in DOMAIN disk \ gone |-> disk[p]]

RunDir(r) == Root \o <<"runs", r>>

-----------------------------------------------------------------------------
(* The plan's targets.                                                      *)

Groups(r) == 1..Len(Plan[r])

Items(r, g) == 1..Len(Plan[r][g].items)

\* As it is written in the plan, which is how two targets are compared.
Declared(r, g, i) ==
  Plan[r][g].base \o <<Plan[r][g].items[i].unit>> \o Plan[r][g].items[i].artifact

Bases == [r \in Runs |-> [g \in Groups(r) |-> Resolve(Plan[r][g].base)]]

Base(r, g) == Bases[r][g]

Resolved ==
  [r \in Runs |-> [g \in Groups(r) |-> [i \in Items(r, g) |-> Resolve(Declared(r, g, i))]]]

Target(r, g, i) == Resolved[r][g][i]

\* The plan's targets in order, as <<group, item>>.
InOrder ==
  [r \in Runs |->
     FoldLeft(\o, <<>>, [g \in Groups(r) |-> [i \in Items(r, g) |-> <<g, i>>]])]

Targets(r) == InOrder[r]

\* validateParallelGroupStep: no two items of the plan share a declared target.
Accepts(r) ==
  \A g, h \in Groups(r) : \A i \in Items(r, g), j \in Items(r, h) :
    Declared(r, g, i) = Declared(r, h, j) => <<g, i>> = <<h, j>>

-----------------------------------------------------------------------------
(* Where a target may physically be.                                        *)

\* physicalSealedOutputContainmentIssue, none found.
Contained(base, path) ==
  /\ Inside(Root, Physical(base)) /\ Physical(base) # Root
  /\ Inside(Root, Physical(Parent(path)))
  /\ Inside(Physical(base), Physical(Parent(path)))

Relation(storage, output) ==
  IF storage = output THEN "equal"
  ELSE IF Inside(storage, output) THEN "within"
  ELSE IF Inside(output, storage) THEN "around"
  ELSE "none"

\* As written and physically.
Relations(r, path) ==
  <<Relation(RunDir(r), path), Relation(Physical(RunDir(r)), Physical(path))>>

Disjoint == <<"none", "none">>
Descendant == <<"within", "within">>

\* sealedOutputRunDirOverlap: the group's storage and the run directory overlap in
\* a way the policy forbids.
Overlaps(r, g, policy) ==
  LET base == Relations(r, Base(r, g))
      astray == \E i \in Items(r, g) : Relations(r, Target(r, g, i)) # base
  IN ~ \/ base = Disjoint /\ ~astray
       \/ /\ base = Descendant /\ ~astray
          /\ \/ policy = "allow"
             \/ policy = "allow_empty" /\ IsEmpty(Entry(Base(r, g)))

-----------------------------------------------------------------------------
\* What a request is doing: its run, its group or target (k), whether the target
\* was there.  calm is history: what people have disturbed nothing for, of the
\* targets since it turned to them and of the run's own directory (0).
Idle == [pc |-> "idle", run |-> "none", group |-> 0, k |-> 0, ok |-> TRUE,
         items |-> {}, dir |-> <<>>, delete |-> FALSE, found |-> FALSE, calm |-> {}]

Init ==
  /\ disk = [path \in {Root} |-> Dir] @@ [path \in UserFiles |-> File("people")]
            @@ [path \in UNION {{SubSeq(file, 1, n) : n \in 1..Len(file) - 1} :
                                 file \in UserFiles}
                 |-> Dir]
  /\ run = [r \in Runs |-> "new"]
  /\ group = [r \in Runs |-> 1]
  /\ item = [r \in Runs |-> <<>>]
  /\ job = [q \in Requests |-> Idle]
  /\ events = {}

Goes(q, pc) == job' = [job EXCEPT ![q].pc = pc]

\* The request is answered, with a result or an error.
Answers(q) == job' = [job EXCEPT ![q] = Idle]

Pending(r) == {i \in DOMAIN item[r] : item[r][i] = "pending"}

AllPending(r, g) == [i \in Items(r, g) |-> "pending"]

-----------------------------------------------------------------------------
(* A run is created; its groups follow one another.                         *)

Readable(path) == Exists(Physical(path)) /\ disk[Physical(path)].kind = "file"

\* validateContractPaths.
ContractsReadable(r) == \A g \in Groups(r) : Readable(Root \o Plan[r][g].contract)

CreateRun(r) ==
  /\ run[r] = "new"
  /\ Accepts(r)
  /\ run' = [run EXCEPT ![r] = "open"]
  /\ item' = [item EXCEPT ![r] = AllPending(r, 1)]
  /\ disk' = Made(RunDir(r)) @@ disk
  /\ UNCHANGED <<group, job, events>>

NextGroup(r) ==
  /\ run[r] = "open"
  /\ \A i \in DOMAIN item[r] : item[r][i] = "done"
  /\ group[r] < Len(Plan[r])
  /\ group' = [group EXCEPT ![r] = @ + 1]
  /\ item' = [item EXCEPT ![r] = AllPending(r, group[r] + 1)]
  /\ UNCHANGED <<disk, run, job, events>>

\* A worker writes its output at its target, through whatever links lie on the way.
\* It does not know whether its run has been closed meanwhile.
WorkerWrites(r, i) ==
  /\ item[r][i] = "ready"
  /\ LET dir == Physical(Parent(Target(r, group[r], i)))
         output == Append(dir, Last(Target(r, group[r], i)))
     IN /\ CanMake(dir)
        /\ Exists(output) => disk[output].kind = "file"
        /\ disk' = (output :> File(r)) @@ Made(dir) @@ disk
  /\ item' = [item EXCEPT ![r][i] = "done"]
  /\ UNCHANGED <<run, group, job, events>>

-----------------------------------------------------------------------------
(* preflightParallelGroup.                                                  *)

\* A preflight that fails at once, over the run directory or for want of a pending
\* item, changes nothing here.
BeginPreflight(r) ==
  LET g == group[r] IN
  /\ run[r] = "open"
  /\ ~Overlaps(r, g, "reject") /\ Pending(r) # {}
  /\ \E q \in Requests : job[q].pc = "idle" /\ job' = [job EXCEPT ![q] =
       [Idle EXCEPT !.pc = "prepare", !.run = r, !.group = g, !.k = 1,
          !.items = Pending(r),
          !.ok = /\ ContractsReadable(r)
                 /\ \A i \in Pending(r) : Readable(Root \o Plan[r][g].items[i].input)]]
  /\ UNCHANGED <<disk, run, group, item, events>>

\* The request goes on to its next item, this one having passed or failed.
NextItem(q, passed) ==
  job' = [job EXCEPT ![q].pc = "prepare", ![q].k = @ + 1, ![q].ok = @ /\ passed]

Wanted(q) == Target(job[q].run, job[q].group, job[q].k)

OutputDir(q) == Physical(Parent(Wanted(q)))

\* The target is inside its base, and nothing is there yet.
Writable(q) ==
  /\ Contained(Base(job[q].run, job[q].group), Wanted(q))
  /\ ~Exists(Entry(Wanted(q)))

NoneLeft(q) == job[q].k \notin Items(job[q].run, job[q].group)

Prepare(q) ==
  /\ job[q].pc = "prepare" /\ ~NoneLeft(q)
  /\ IF job[q].k \notin job[q].items THEN NextItem(q, TRUE)
     ELSE IF Writable(q) THEN Goes(q, "make")
     ELSE NextItem(q, FALSE)
  /\ UNCHANGED <<disk, run, group, item, events>>

\* mkdir follows the links that lie on the way by now.
MakeDir(q) ==
  /\ job[q].pc = "make"
  /\ IF CanMake(OutputDir(q))
     THEN /\ disk' = Made(OutputDir(q)) @@ disk
          /\ job' = [job EXCEPT ![q].pc = "recheck", ![q].calm = @ \cup {job[q].k}]
     ELSE NextItem(q, FALSE) /\ UNCHANGED disk
  /\ UNCHANGED <<run, group, item, events>>

\* Mutant: the place is not checked again once the directory is made.
RecheckSkipped(q) ==
  /\ job[q].pc = "recheck"
  /\ Goes(q, "probe")
  /\ UNCHANGED <<disk, run, group, item, events>>

Recheck(q) ==
  /\ job[q].pc = "recheck"
  /\ IF Writable(q) THEN Goes(q, "probe") ELSE NextItem(q, FALSE)
  /\ UNCHANGED <<disk, run, group, item, events>>

\* A file of the request's own shows that the directory can be written.
ProbeFile(q) == Append(OutputDir(q), q)

Probe(q) ==
  /\ job[q].pc = "probe"
  /\ IF Exists(OutputDir(q)) /\ disk[OutputDir(q)].kind = "dir"
     THEN disk' = (ProbeFile(q) :> File("probe")) @@ disk /\ Goes(q, "unprobe")
     ELSE NextItem(q, FALSE) /\ UNCHANGED disk
  /\ UNCHANGED <<run, group, item, events>>

Unprobe(q) ==
  /\ job[q].pc = "unprobe"
  /\ disk' = Without({ProbeFile(q)})
  /\ NextItem(q, TRUE)
  /\ UNCHANGED <<run, group, item, events>>

\* A passed preflight makes the pending items it looked at launchable; a failed one
\* blocks the run.  The run may have been closed meanwhile.
EndPreflight(q) ==
  LET r == job[q].run IN
  /\ job[q].pc = "prepare" /\ NoneLeft(q)
  /\ item' = IF run[r] = "open" /\ job[q].group = group[r] /\ job[q].ok
             THEN [item EXCEPT ![r] =
                     [i \in DOMAIN @ |-> IF i \in job[q].items /\ @[i] = "pending"
                                         THEN "ready" ELSE @[i]]]
             ELSE item
  /\ Answers(q)
  /\ UNCHANGED <<disk, run, group, events>>

-----------------------------------------------------------------------------
(* closeRun.                                                                *)

BeginClose(r, delete) ==
  /\ run[r] = "open"
  /\ \E q \in Requests : job[q].pc = "idle" /\
       job' = [job EXCEPT ![q] = [Idle EXCEPT !.pc = "overlap", !.run = r, !.delete = delete]]
  /\ UNCHANGED <<disk, run, group, item, events>>

\* Storage that overlaps the run's own directory makes it refuse, but for storage that
\* is empty or whose declared files it has been asked to delete.  Without the deletion
\* this is the last look at it.
CheckOverlap(q) ==
  LET r == job[q].run IN
  /\ job[q].pc = "overlap"
  /\ IF \E g \in Groups(r) : Overlaps(r, g, IF job[q].delete THEN "allow" ELSE "allow_empty")
     THEN Answers(q)
     ELSE job' = [job EXCEPT ![q] = IF @.delete THEN [@ EXCEPT !.pc = "collect"]
                                    ELSE [@ EXCEPT !.pc = "retire", !.calm = {0}]]
  /\ UNCHANGED <<disk, run, group, item, events>>

\* collectSealedOutputCleanupTargets: nothing is deleted unless every target of the
\* plan is in its place and they are all different.
Collect(q) ==
  LET r == job[q].run
      all == {Targets(r)[k] : k \in DOMAIN Targets(r)}
  IN
  /\ job[q].pc = "collect"
  /\ IF /\ \A t \in all : Contained(Base(r, t[1]), Target(r, t[1], t[2]))
        /\ \A t, u \in all : Target(r, t[1], t[2]) = Target(r, u[1], u[2]) => t = u
     THEN job' = [job EXCEPT ![q].pc = "remove", ![q].k = 1]
     ELSE Answers(q)
  /\ UNCHANGED <<disk, run, group, item, events>>

This(q) == Targets(job[q].run)[job[q].k]

CleanBase(q) == Base(job[q].run, This(q)[1])

CleanTarget(q) == Target(job[q].run, This(q)[1], This(q)[2])

AllCleaned(q) == job[q].k > Len(Targets(job[q].run))

Prunes(q) ==
  job' = [job EXCEPT ![q].pc = "prune", ![q].dir = Parent(CleanTarget(q)),
                        ![q].found = FALSE, ![q].calm = {}]

Checks(q, found) ==
  job' = [job EXCEPT ![q].pc = "check", ![q].found = found, ![q].calm = {job[q].k}]

\* Mutant: a target that is gone already makes the close fail.
LookStrict(q) ==
  /\ job[q].pc = "remove" /\ ~AllCleaned(q)
  /\ LET entry == Entry(CleanTarget(q)) IN
     IF ~Exists(entry) \/ disk[entry].kind = "dir" THEN Answers(q) ELSE Checks(q, TRUE)
  /\ UNCHANGED <<disk, run, group, item, events>>

\* One target: it may be gone already, and a directory is never deleted.
Look(q) ==
  /\ job[q].pc = "remove" /\ ~AllCleaned(q)
  /\ LET entry == Entry(CleanTarget(q)) IN
     IF Exists(entry) /\ disk[entry].kind = "dir" THEN Answers(q) ELSE Checks(q, Exists(entry))
  /\ UNCHANGED <<disk, run, group, item, events>>

InPlace(q) == Contained(CleanBase(q), CleanTarget(q))

\* Mutant: the target's place is not checked before it is unlinked.
CheckSkipped(q) ==
  /\ job[q].pc = "check"
  /\ IF job[q].found THEN Goes(q, "unlink") ELSE Prunes(q)
  /\ UNCHANGED <<disk, run, group, item, events>>

Check(q) ==
  /\ job[q].pc = "check"
  /\ IF ~InPlace(q) THEN Answers(q)
     ELSE IF job[q].found THEN Goes(q, "unlink") ELSE Prunes(q)
  /\ UNCHANGED <<disk, run, group, item, events>>

\* It was there when it was looked for: that it is gone, or a directory, is an error.
Unlink(q) ==
  /\ job[q].pc = "unlink"
  /\ LET entry == Entry(CleanTarget(q)) IN
     IF Exists(entry) /\ disk[entry].kind # "dir"
     THEN /\ disk' = Without({entry})
          /\ job' = [job EXCEPT ![q].pc = "unlinked", ![q].calm = {}]
     ELSE Answers(q) /\ UNCHANGED disk
  /\ UNCHANGED <<run, group, item, events>>

CheckAgain(q) ==
  /\ job[q].pc = "unlinked"
  /\ IF InPlace(q) THEN Prunes(q) ELSE Answers(q)
  /\ UNCHANGED <<disk, run, group, item, events>>

NextTarget(q) == job' = [job EXCEPT ![q].pc = "remove", ![q].k = @ + 1]

\* removeEmptyOutputParentDirs, one directory: up to the base, as long as they are
\* empty or gone.  What is not a directory makes the request fail.
Prune(q) ==
  /\ job[q].pc = "prune"
  /\ LET entry == Entry(job[q].dir)
         up == IF job[q].dir = CleanBase(q) THEN NextTarget(q)
               ELSE job' = [job EXCEPT ![q].dir = Parent(@)]
     IN IF ~Exists(entry) THEN up /\ UNCHANGED disk
        ELSE IF disk[entry].kind # "dir" THEN Answers(q) /\ UNCHANGED disk
        ELSE IF IsEmpty(entry) THEN up /\ disk' = Without({entry})
        ELSE NextTarget(q) /\ UNCHANGED disk
  /\ UNCHANGED <<run, group, item, events>>

\* Output that is left in the run's own directory makes the close refuse.
CheckRemaining(q) ==
  LET r == job[q].run IN
  /\ job[q].pc = "remove" /\ AllCleaned(q)
  /\ IF \E g \in Groups(r) : Overlaps(r, g, "allow_empty") THEN Answers(q)
     ELSE job' = [job EXCEPT ![q].pc = "retire", ![q].calm = {0}]
  /\ UNCHANGED <<disk, run, group, item, events>>

\* The run is closed and its own directory retired (RunArtifacts has the steps of it).
Retire(q) ==
  LET r == job[q].run IN
  /\ job[q].pc = "retire"
  /\ IF run[r] = "open"
     THEN /\ run' = [run EXCEPT ![r] = "closed"]
          /\ disk' = Without({RunDir(r)} \cup Holds(RunDir(r)))
     ELSE UNCHANGED <<run, disk>>
  /\ Answers(q)
  /\ UNCHANGED <<group, item, events>>

-----------------------------------------------------------------------------
(* What happens meanwhile.                                                  *)

Happens(event) ==
  /\ event \notin events /\ Cardinality(events) < MaxEvents
  /\ events' = events \cup {event}

Disturbs == job' = [q \in Requests |-> [job[q] EXCEPT !.calm = {}]]

\* A directory is moved away with what it holds and a link to another put in its
\* place, once at most.
Move(path, to) ==
  /\ Happens("moved")
  /\ Exists(path) /\ disk[path].kind = "dir" /\ Physical(path) = path
  /\ Exists(Parent(to)) /\ CanMake(to)
  /\ disk' = (path :> Link(to)) @@ Made(to) @@ Without(Holds(path))
  /\ Disturbs
  /\ UNCHANGED <<run, group, item>>

Note(path) ==
  /\ Happens("noted")
  /\ ~Exists(path) /\ CanMake(Parent(path))
  /\ disk' = (path :> File("people")) @@ Made(Parent(path)) @@ disk
  /\ Disturbs
  /\ UNCHANGED <<run, group, item>>

\* The service stops and starts again.  A probe it was about to remove stays; a
\* later probe has another name.
Crash ==
  /\ Happens("crashed")
  /\ LET left == {ProbeFile(q) : q \in {p \in Requests : job[p].pc = "unprobe"}} \cap DOMAIN disk
     IN disk' = [path \in {Append(Parent(probe), "probe") : probe \in left} |-> File("probe")]
                 @@ Without(left)
  /\ job' = [q \in Requests |-> Idle]
  /\ UNCHANGED <<run, group, item>>

Serve(q) ==
  \/ Prepare(q) \/ MakeDir(q) \/ Recheck(q) \/ Probe(q) \/ Unprobe(q) \/ EndPreflight(q)
  \/ CheckOverlap(q) \/ Collect(q) \/ Look(q) \/ Check(q) \/ Unlink(q) \/ CheckAgain(q)
  \/ Prune(q) \/ CheckRemaining(q) \/ Retire(q)

Next ==
  \/ \E r \in Runs : CreateRun(r) \/ NextGroup(r)
  \/ \E r \in Runs : \E i \in DOMAIN item[r] : WorkerWrites(r, i)
  \/ \E r \in Runs :
       BeginPreflight(r) \/ \E delete \in BOOLEAN : BeginClose(r, delete)
  \/ \E q \in Requests : Serve(q)
  \/ \E move \in Moves : Move(move[1], move[2])
  \/ \E path \in Notes : Note(path)
  \/ Crash

Spec == Init /\ [][Next]_vars

-----------------------------------------------------------------------------
(* Properties.                                                              *)

Closing == {"overlap", "collect", "remove", "check", "unlink", "unlinked", "prune", "retire"}

Acts(q) == job'[q] # job[q] /\ events' = events

\* What the request's next deletion is about, which people have left alone since the
\* request turned to it: the target, or the run's own directory.
Undisturbed(q) == (IF job[q].pc = "retire" THEN 0 ELSE job[q].k) \in job[q].calm

\* No request changes or deletes a file that is not its own: what people put there
\* and the outputs of every other run stay as they are, whatever links have been put
\* in the way before it turned to the target, and a run's outputs are deleted only by a
\* close that was asked to.  What people change between that moment and the unlink is
\* followed: the check and the unlink are two operations (cleanupDeclaredSealedOutputs).
\* (contracts/protocol-runner.openapi.yaml, the close endpoint: "Contract-produced
\* work outputs [...] are not deleted by this endpoint unless delete_sealed_outputs is
\* explicitly true", then "only declared parallel sealed-output primary artifacts".)
FilesKept ==
  [][\A q \in Requests : Acts(q) =>
       \A path \in DOMAIN disk :
         \/ disk[path].kind = "dir" \/ disk[path].of = "probe"
         \/ path \in DOMAIN disk' /\ disk'[path] = disk[path]
         \/ job[q].delete /\ job[q].run = disk[path].of
         \/ job[q].pc \in {"unlink", "retire"} /\ ~Undisturbed(q)]_vars

\* An item that becomes launchable has a place to write: its target's directory is
\* physically inside the base its plan declares and nothing is at the target, whatever
\* workers, closes and other preflights have done since, and wherever people have put
\* links until the preflight made the item's directory, between its check and the making
\* too (checkParallelOutputTargets).
ReadyInside ==
  [][\A q \in Requests, r \in Runs : Acts(q) /\ job[q].run = r =>
       \A i \in DOMAIN item[r] :
         /\ item[r][i] = "pending" /\ group'[r] = group[r] /\ item'[r][i] = "ready"
         /\ i \in job[q].calm
         => Contained(Base(r, group[r]), Target(r, group[r], i)) /\ ~Exists(Entry(Target(r, group[r], i)))]_vars

\* A run can be closed, with or without its outputs, whatever other requests did before
\* or do meanwhile, and although an earlier close was interrupted half-way: a close that
\* ends has closed the run, unless people have changed the directories, or another close
\* of the run is still under way, which may have deleted what this one was about to.
CloseSucceeds ==
  [][\A q \in Requests :
       job[q].pc \in Closing /\ job'[q] = Idle /\ events' = events
         => \/ run'[job[q].run] = "closed"
            \/ {"moved", "noted"} \cap events # {}
            \/ \E p \in Requests \ {q} : job[p].pc \in Closing /\ job[p].run = job[q].run]_vars
=============================================================================
