# A formal model of task-golem

task-golem (`tg`) is a task tracker for agents that share one directory,
`.task-golem/`. There is no server: every command is a process of its own that
reads and writes JSONL files, under one advisory file lock when it changes
something. This directory holds TLA+ specifications of that system, TLC
configurations that check them on small instances, and TLAPS proofs that hold
for all instances. Paths in this file and in the modules are relative to
`src/src/` of the repository unless they start with `changes/` or `tests/`.

## 1. The system

| Component | State | Operations | What makes it correct |
|---|---|---|---|
| Task record (`model/item.rs`, `model/status.rs`) | status, dependencies, parent, claim, status to come back to | `apply_do/todo/done/block/unblock` | fields follow the status through every sequence of transitions |
| Graph (`model/deps.rs`, `model/parent.rs`) | none | cycle searches, reference checks, readiness | searching the new edge only, among active items only, keeps both relations acyclic; something is always ready or under way |
| Store (`store/mod.rs`, `events/witness.rs`) | the files | `save_active`, `commit_status_change`, `commit_done`, `append_note`, `commit_archive_recovery` | the order of the writes: event, archive, tasks, move |
| Item files (`store/jsonl.rs`) | `tasks.jsonl`, `archive.jsonl` | three readers, strict and lenient; atomic rewrite (temp file, fsync, rename); append | a write that is cut short costs no other record and leaves files that the doctor can repair |
| Lock (`store/lock.rs`) | `tasks.lock` | `with_lock`: try, back off, give up after 5 s | one commit at a time; the lock comes back whatever happens; who waits gets it or gives up |
| Commands that write (`cli/commands/{add,edit,dep,rm,transition}.rs`) | none | load, validate, commit, all under the lock | nothing is left dangling, circular, stolen or lost |
| Commands that read (`show`, `dump`, `list`, `next`, `ready`) | what they have read so far | reads of one file after the other; `next` and `ready` lock | they neither overlook a task nor offer one too early |
| Event log (`events/*`, `note.rs`, `events.rs`) | `events.jsonl`, `events.archive.jsonl` | append (one `write(2)`), lenient read, `move_for_task` | no event is lost, none doubled, each in the log of its task |
| Doctor (`doctor.rs`) | what it has read | lock-free load, checks, repairs under the lock | repairs heal what crashes leave and damage nothing |
| Archive and prune (`archive.rs`) | `archive-pruned.jsonl` | recovery of done items, prune by date | nothing an active item needs is pruned |
| Graph apply (`store/graph_apply.rs`) | none | one validated batch of adds | all or nothing |
| Query cache (`cache/*`) | `cache.db` and its stamp, temporary files | staleness check, rebuild outside the lock, sweep, rename, second opening | the cache is what its stamp says, and a query that nobody disturbs answers with the store as it is |
| Author and git (`events/author.rs`, `git.rs`) | none | a probe of git, at most 2 s, with the lock held | it delays no other command so long that this one gives up |
| Rest (`init`, root, config, ids, extensions, CLI) | | | no shared state beyond the creation of the files |

The components meet in the files and the lock only. Writers interleave between
whole commands, but a crash can come between any two writes of one commit;
`tg note`, the readers and the first half of `tg doctor` take no lock and
interleave with single writes. That is where the hard behaviours are: commits
cut short, files read at two moments, decisions made on what was read before
the lock. `PROJECT.json` lists every such hazard at its line.

## 2. Modules

| Module | Models |
|---|---|
| `TaskItem` | the record and its transitions |
| `TaskGraph` | item files as functions, the two relations, the checks of `model/deps.rs` |
| `TaskStore` | the store: every writing command, every durable write, crashes; its properties |
| `TaskStoreInv` | the inductive invariants: `StoreInv` of the graph, `CommitInv` of records and commits |
| `TaskBoard` | abstract: a board that each command changes in one step; no files, lock or crash |
| `TaskStoreRefinement` | the store implements the board |
| `FileLock` | how `TaskStore`'s commands get the lock, in discrete time |
| `Readers` | `show`, `dump`, `next`, `ready` beside `TaskStore` |
| `Cache` | `tg query`, its cache and the doctor's check of it beside `TaskStore` |
| `ItemFile` | the item files line by line: damaged lines, the readers, the append; `add`, `rm` and `done` on such files |
| `Doctor` | the checks and repairs of the item files beside `ItemFile` |
| `EdgeSearch` | the two searches of `model/deps.rs` made before an edge is added, step by step |
| `CycleDetection` | its two searches for all cycles, step by step |
| `EventLog` | the two event files line by line: notes, status events, moves, torn lines, event repairs, `tg events` |
| `GraphApply` | `tg apply`: the strict validation of the store and the one write of a batch |
| `TaskRequests` | the store and `tg apply` with a history variable: what the command under way was asked to remove and create |
| `Archive` | `tg archive`: recovery and prune, write by write, beside `TaskStore` |
| `TaskStoreProofs` | lemmas on graphs; `StoreInv` and what follows from it |
| `TaskCommitProofs` | `StoreInv` with `tg apply`; `CommitInv` and what follows from it: safety and action properties, and that the store implements the board |
| `ReaderProofs` | the properties of `Readers` and `Cache`, beside any number of processes |
| `EventLogProofs` | `LogInv`, the inductive invariant of `EventLog`, and what follows from it |
| `FileLockProofs` | `LockInv`: how long a call can have waited; who gives up has been overtaken |
| `ArchiveProofs` | `ArchiveInv`: the store beside a sweep; what a prune keeps and spares |
| `DoctorProofs` | `DoctorInv`: the item files under commands, crashes and doctors; the properties of `ItemFile` and `Doctor` |
| `SearchProofs` | the four searches find what `TaskGraph` says they do, on every graph |
| `MCTaskStore`, `MCTaskRequests`, `MCReaders`, `MCDoctor`, `MCEventLog`, `MCArchive` | symmetry sets, initial files and reduced command sets for TLC |

The store is modelled at two grains. In `TaskStore` an item file is a function
from identifiers to records, which is what every command sees after its loads
have succeeded; the modules beside it keep that view. `ItemFile` has the lines
themselves, and of the commands only those that matter for them.

### TaskStore and the code

| Variable | Code |
|---|---|
| `active`, `archive` | `tasks.jsonl`, `archive.jsonl` |
| `events`, `events_archive` | the newest status in `events.jsonl` and `events.archive.jsonl`, per task |
| `issued` | identifiers ever generated (UUIDv7 are not generated twice) |
| `lock` | `tasks.lock` |
| `job[p]` | the Store method the process is in, the writes it still has to make and what it is going to write |
| `crashes` | a counter for the bound `MaxCrashes` |

A command is one action (`Add`, `Edit`, `Rm`, `Do`, `Claim`, `Todo`, `Block`,
`Unblock`, `Done`): it acquires the lock, loads, passes every check of the
command and of `validate_active_write` or `validate_archive_move`, and leaves a
job. Loading and validating are one step with the acquisition because only lock
holders write these files. A command that is refused, times out on the lock or
finds nothing to do changes nothing and is no step. `tg dep` goes through
`Edit`; `CanReparent` is `model/parent.rs`. The writes of the job follow one by one, in
the order of `NextStage`:

    save_active            tasks
    commit_status_change   event, tasks
    commit_done            event, archive, tasks, copy, clear

`WriteTasks` is `write_atomic` (temp file, fsync, rename: seen as a whole or not
at all); `copy` and `clear` are the two halves of `events::move_for_task`.
`Crash` ends a commit before its next write and stands for the death of the
process, which frees the `flock`, and for a write that returns an error. In this
module an event append is whole or not made and a task's events are moved at
once; `EventLog` has the finer grain. The newest event is the one appended last:
timestamps are taken under the lock and the clock is assumed not to go back.

`TaskBoard` is what a user is promised. The record of a task is the one in
`archive.jsonl` if there is one and the one in `tasks.jsonl` otherwise
(`BoardOf`), so `done` takes effect at its archive append, every other command
at the rename of `tasks.jsonl`, and a crash at no point. `Create` takes a request
of several tasks too, which is the step of a `tg apply`.

### GraphApply, TaskRequests and Archive

`GraphApply` adds one command to `TaskStore`. A request is a function from fresh
identifiers to the edges wanted; that its symbolic references are mapped to those
identifiers one to one is taken as done. `StrictSnapshot` is `validate_snapshot`,
`ResolveItems` is `resolve_items` and `resolve_target`, `ValidProposedGraph` the
search for cycles over old and new items. The write is not a `save_active` in the
code; that it could be one is a lemma (section 4). The item files of this grain are
intact: that the strict reader also refuses a truncated line of `archive.jsonl`, and
`validate_snapshot` a dependency that was pruned, is outside it (section 3).
`EditsMendRefusal` is about the refusal that ordinary commands bring about: an active
item whose parent was archived before it.

`TaskRequests` adds to both a variable that no step reads, `asked`: the identifier
`tg rm` was given, and the items of a `tg add` or `tg apply` as they were wanted, until
the commit ends. What is written to `tasks.jsonl` was decided steps earlier, and `asked`
is what it is compared with: `NoTaskLost` says that a task leaves the store only by the
`rm` that was asked to remove it, `GraphIsWhole` that a write which adds tasks adds
exactly those of one request, as they were asked for.

`Archive` adds `pruned` (`archive-pruned.jsonl`) and `sweep`, the progress of the
one `tg archive` that can be under way: the date as the set `before` of the items
older than it, the items left to the loop it is in, and the item being recovered.
`RunArchive` is the check of the dependents and the collection of the candidates;
then come, per candidate, the archive append, the rewrite of `tasks.jsonl` and
the move of the events, and after all candidates the appends to the pruned file
and the rewrite of `archive.jsonl`. The set `before` is arbitrary: records carry
whatever clock wrote them. Done items in `tasks.jsonl` are what the recovery is
for; no command makes one (`ClaimDiscipline`), but `Store::save_active` takes any
record from a library caller (`SaveDoneItem`) and the tests of the recovery write
such files by hand.

### FileLock

`FileLock` puts `with_lock` in front of the commands of `TaskStore`. `wait[p]` is
the call under way: the time since it was made, the back-off, what is left of
the pause, and how many commits have got the lock since. `busy[p]` is the time
the holder still needs to learn the author of its event. `TakeLock` is an attempt that
succeeds, `RefuseCommand` one whose command has nothing to commit, `BackOff` a
failed one, `GiveUp` the `LockTimeout`. `Tick` lets time pass, but only when no
attempt and no write is due: files are read and written in no time compared
with the pauses.

### Readers and Cache

`Readers` adds `view[p]`. `Show` and `Dump` read `tasks.jsonl` in one step and
`archive.jsonl` in a later one, without the lock; `LoadTasks` and
`EvaluateDependencies` are the two loads of `dependency_evaluation`, under it.

`Cache` adds `cache` (`cache.db`: stamp and rows), `tmps` (the temporary files)
and `query[p]`. A query stamps the two files one after the other without the
lock, compares, and if need be loads the items under the lock, builds its
database outside it and renames it over whatever is there; then it opens
`cache.db` once more. A stamp is the content of the files: hashes do not collide,
and since the archive only grows in this composition an old pair of files never
comes back. Of the SQL only `task_view` is kept, by its status, parent, depth,
readiness and number of unmet dependencies. The doctor's check builds a second
database and compares numbers of rows.

### ItemFile and Doctor

| Variable | Code |
|---|---|
| `tasks` | the lines of `tasks.jsonl` |
| `archive`, `last` | the lines of `archive.jsonl` that end with a newline, and the one that does not |
| `job[p]` | the commit under way, with the write it is at |
| `scan[p]` | the doctor under way and the two files as it has read them |

A line is a record, a record with a field that is neither an item's nor an
extension (`foreign`), a record whose identifier is no canonical UUIDv7
(`misnamed`), something of which only the identifier can be read, a fragment,
text cut inside a UTF-8 character, or a bad header. `read_active` and the strict
reader accept records only, whatever their identifiers; `read_archive` skips the
rest. `read_archive_ids`, with which every save begins, counts whatever has an
identifier and fails on one that is invalid (`validate_id`); so does the
validation of what is to be saved (`ValidItemIds`). Under a bad header nothing
loads. A good header is not a line of the model. An append is up to three
writes (a leading newline if the file does not end with one, the record, its
newline), and a crash can come between any two or in the midst of the record.

The doctor reads both files without the lock; `Issues` are its checks of item
files and graph, `FixedActive` and `FixedArchive` its repairs. Three kinds of
damage pass the checks (`Unseen`): foreign fields, invalid identifiers, and a header
that is JSON but not the right one; `SilentDoctorMeansHealthy` says that there are no
others. (If there is a `cache.db`, the check of the cache, which is not in this
module, fails to load such files and reports that.) `DoctorFix` then
takes the lock, with the validation of `save_active`; `DoctorWriteTasks` and
`DoctorWriteArchive` are the two rewrites of the closure. The doctor saves
`tasks.jsonl` whenever there is any issue, also one this module does not have (a
stale cache, drifted events), so the model lets it save at any time. The code reads
each file several times over, once per check; the model reads it once.

### EdgeSearch and CycleDetection

`TaskStore`, `GraphApply` and `Doctor` judge cycles by `WouldCreateCycle`,
`WouldCreateParentCycle` and `Acyclic`, which say what is to be found, in one step:
a search reads a graph already in memory, so nothing can interfere with it. The
searches themselves are these two modules. A behavior is one call, on any graph.

| Variable | Code |
|---|---|
| `items`, `relation`, `source`, `target` | the arguments of `would_create_cycle` and `would_create_parent_cycle` |
| `to_visit`, `visited`, `answer` | the stack, or the one item the walk up has come to; the visited set; the result |
| `in_degree`, `queue`, `processed` | the sort of `detect_all_cycles` and `detect_all_parent_cycles` |
| `starts`, `globally_visited` | the loop over the hash set of what the sort leaves over |
| `stack`, `path`, `path_set` | the search from one start: nodes to enter, and to leave again |
| `current` | where the walk along parents is |

What the code goes through in an order of no meaning (the dependencies of an
item as they are stored, a hash set) the model takes in every order. The map
`path_idx` of the walk is the positions of `path`. An item that lists a dependency
twice counts it twice and is listed twice among the dependents, so dependencies
are sets. Identifiers are unique in what is searched: the lenient reader of the doctor
lets duplicates through, and reports them, but that case is not modelled here.

### EventLog

`EventLog` keeps, of the item files, only the identifiers. A file of events is
how many readable lines it has of each event and whether it ends in a fragment.
A line appended to a fragment forms one malformed line with it, which readers
skip. `tg note` is stamped in one step, validated against `active`, and appended
in a later one without the lock. A move is `ReadLog`, one `CopyEvent` per event,
`RewriteLog`. The doctor scans four files without the lock and then saves, moves
and deduplicates, each under a lock of its own. No task is added or removed in
this module.

## 3. What TLC checks

All runs use symmetry where no liveness is checked. `CHECK_DEADLOCK FALSE`:
identifiers, events and crashes are bounded, and a system that has used them up
rightly stops. The `lock` run, where one can always call again, checks that there is no
deadlock.

| Run | Instance | Shows |
|---|---|---|
| `lifecycle` | 2 tasks, 2 agents, 2 processes, 2 crashes, all commands | `CommitInv`, the invariant of the proofs, with `TypeOK` and `LockProtects` among its parts; `AtMostOneSplit`, `ArchivedIsDone`, `ClaimDiscipline`, `DriftNeedsCrash`, `EventPrecedesStatus`, `ClaimNeverStolen`, `HistoryKept`; and `ImplementsBoard`, the refinement of `TaskBoard` |
| `graph` | 3 tasks, 1 process, 1 crash; add, apply, edit, rm, done, of `RequestSpec` | `DependenciesResolve`, `NoDependencyCycle`, `NoParentCycle`, `NeverStuck`, `NoTaskLost`, `GraphIsWhole`, `EditsMendRefusal` |
| `lock` | 1 task, 1 agent, 2 processes, 1 crash; pauses of 1 to 4, a timeout of 9, a git timeout of 2; fairness | `CallsEnd`, `CommitsEnd`, `DoneCompletes`, `TimeoutNeedsQueue` |
| `readers` | 2 tasks, 2 processes, 1 crash; readers, queries and cache checks beside add, edit, rm, done | `MovedTaskIsFound`, `OfferedTaskIsUnblocked`, `OneSnapshot`; `CacheMatchesStamp`, `UndisturbedAnswerIsFresh`, `TempFileIsKept` |
| `doctor` | 3 identifiers of which commands use 2, 2 processes (both may be doctors), 1 crash; 19 kinds of files, damaged ones among them, and every graph of 3 tasks; each search on every graph between the tasks of any subset of 3, with edges to the others | `NoRecordLost`, `SilentDoctorMeansHealthy`, `CrashIsRepairable`, `FreshRepairHeals`, `AtMostOneSplit` also under stale repairs; `SearchIsExact`, `ReportsAreTheCycles`, `PathSetIsPath` |
| `event_log` | 2 tasks, 2 processes, 2 events, 1 crash, 1 torn append | `StatusEventsSurvive`, `ReadersMissNothing`; `ArchivedOnce`, `EventsFollowTheirTask` of the behaviours without fault |
| `archive` | 3 tasks, 1 process, 1 crash; add, rm, done, done items saved by a library caller, `tg archive` with any cutoff | `FinishedKept`, `PruneSparesDependencies` |

Each property has a mutant in `PROJECT.json`: a faulty version of one definition
(named `<definition>_<fault>` and marked "Faulty" in the modules) under which
the same run finds the property violated.

Why these bounds. Two processes are every pair of actors that can interfere;
under the lock a third only waits. Two agents are enough to steal a claim. Two
crashes are the first number for which a crash can hit a store that a crash has
already damaged. Three tasks are needed for a cycle that a search one level deep
would miss (the mutants of `NoDependencyCycle` and `NoParentCycle` need all
three), and those runs use one process because commands then differ in their
order only. They leave out the transitions that neither add an item nor remove one nor
change a relation (do, claim, todo, block, unblock); the theorems on the same
properties are about all commands. Two crash points and a reader or a doctor already meet with two
tasks: a moved one and one that depends on it. A prune needs three: one to prune,
one to keep or recover, and one that depends on either.

The numbers of the `lock` run keep the proportion that matters: two git timeouts
and one more pause fit into the total one (`LockTiming`; in the code 2 s, 2 s and
0.75 s into 5 s, the longest back-off of 0.5 s with its jitter being `LongestPause`).
With these bounds a call makes up to five attempts, at moments
that vary with the jitter. `MaxPassed` only stops the count of overtaking commits,
at the two the property speaks of.

The `doctor` run starts from damaged files because item files are text that
people, merges and other tools edit; the tests of the doctor write the same
damage by hand. Commands add no third task (`MaxTasks`): two are enough for a
split item, a dependency on it and a task that is lost. The graphs of three
tasks come with a malformed line, which stops every command, so that they are
input to the doctor only. The searches touch no file and are instances of their
own within the run; three tasks are the first number with a cycle beside an
item that leads into it, and with two cycles that share an item.

In the `readers` run tasks have no parents, so `depth_from_root` is always 0
there; `Cache` computes it and no property of it is checked.

Fairness. `LockSpec` assumes that time passes (`Tick`), that a process whose
pause is over makes its next attempt (`Attempt`) and that a lock holder makes its
next write (`HolderWrites`): each runs straight-line code with nothing to wait
for but the probe of git, which ends by its own timeout. Fairness is weak: once
such a step is possible, it stays so until it is made or the process dies, for
`Tick` waits for both. Nothing is assumed of who gets the lock or of anyone
starting a command. That a process does not call `with_lock` again at the very
moment it returns (`rested`) is the one assumption about callers: a new command
is a new process.

### Disagreements with the repository's documents

Five runs are expected to end in a violation; each states what a document or a
comment says and shows a behaviour of the code that contradicts it. The last
three are more than a matter of words: a store that refuses every further save until
it is edited by hand, twice, and a query that answers with old data.

| Run | Said | Shown |
|---|---|---|
| `stale_repair` | TG-001 SPEC:39: "Every write follows the lock-load-mutate-atomic-save-unlock cycle" | the doctor loads before it locks and drops a task added in between |
| `late_note` | TG-008 PRD:62: concurrent appends "do not lose events" | a note between the read and the rename of a move is lost |
| `pruned_dependency` | `archive.rs:63`, `tests/archive_test.rs:115`: a prune of what active items depend on is rejected | the check precedes the recovery: an old done item is recovered and pruned in one command, and a dependency on it is left to nothing |
| `torn_character` | `jsonl.rs:296`: append "handles crash recovery"; `tests/transition_test.rs:465`: done "should succeed despite truncated line" | an append cut inside a character makes `read_archive_ids` fail, with which every save begins, the doctor's too |
| `stale_fallback` | `cache/mod.rs:260`: in an unwritable directory a query runs on "an in-memory SQLite instance populated with a fresh rebuild" | `execute` drops that instance and opens the stale `cache.db`, or fails if there is none |

Other disagreements were met while modelling and have no run of their own.
TG-006 PRD:44 wants parents to be "existing, non-archived tasks", but `done`
archives a parent of active children (`Done` in `TaskStore` has no such guard).
TG-001 DESIGN:471 calls an item in both files a "benign duplicate", but with it no save
of `tasks.jsonl` that keeps the item is accepted until `tg doctor --fix`.
`cache/rebuild.rs:109` tells the user to repair dependency cycles with
`tg doctor --fix`, which repairs none: malformed lines of `tasks.jsonl`,
duplicate identifiers and cycles are reported only. One
truncated line in `archive.jsonl`, harmless to every other command, makes
`tg apply` refuse the store, because its reader is the strict one. A field that
is neither an item's nor an extension makes every strict load fail, an invalid
identifier every save, a bad header both, and the doctor's checks of the item files
let all three pass (`SilentDoctorMeansHealthy`): of a header it is enough that it is
JSON (`doctor.rs:353`), of an identifier that it is a string. If a foreign field is in
an archived copy of an active task, `tg doctor --fix` drops the task from `tasks.jsonl`
as archived (TG-001 SPEC:417: the "archive is authoritative"), although no
command can read it there (the exception in `FreshRepairHeals`).

`StatusEventsSurvive` is what remains true of the log: status events, written
under the lock, survive everything but a torn line, and one torn line costs at
most one of them. Of the causes for which `tg apply` calls a store corrupt, one is
brought about by `done` alone: an archived parent. `EditsMendRefusal` says that it can be
undone with `tg edit --parent-clear` of the children. The other causes need a crash (a
split item, a truncated line), an edited file, or a prune that took a dependency or a parent.
A prune that dies after an append is not repeated either: the next one that
includes the item is refused by `append_to_archive`, because the item is already
in the pruned file (no item is lost, `FinishedKept`).

## 4. What is proved

`TaskStoreProofs` proves, for any sets of tasks, agents and processes and any
number of crashes, from the assumptions on constants in the modules (`None` is
none of the tasks, agents, statuses or processes; `MaxCrashes` is a natural
number):

| Theorem | `Spec => []` |
|---|---|
| `StoreInvariant` | `StoreInv` |
| `TypeCorrect` | `TypeOK` |
| `MutualExclusion` | `LockProtects` |
| `NoDanglingDependency` | `DependenciesResolve` |
| `DependenciesAcyclic`, `ParentsAcyclic` | `NoDependencyCycle`, `NoParentCycle` |
| `SplitBound` | `AtMostOneSplit` |

`TaskCommitProofs` begins with the same for `GraphApplySpec`, the store with
`tg apply` added: `GraphApplyInvariant` (`StoreInv`) and `GraphApplyKeepsGraph`
(`DependenciesResolve`, `NoDependencyCycle`, `NoParentCycle`). Its core is the
lemma `ApplyGraphIsSafeSave`: what `tg apply` accepts, `save_active` would accept.

None of these is inductive alone: a write puts into a file what a command
decided several steps before. `StoreInv` (module `TaskStoreInv`) therefore says
of the job of the lock holder what its command established: until
`tasks.jsonl` is rewritten, its new content has resolving dependencies, is
acyclic in both relations and disjoint from the archive (`Sound`), where a done
that has not yet archived its item may still count on it. `LockProtects` is what
keeps this true until the write is made, and `MentionsIssued` (nothing refers to
an identifier not yet issued) is what lets `add` create an item without closing
a cycle. The proof has a lemma per action and under it a step per conjunct the
action can disturb. The lemmas on acyclicity come first: an edge keeps a graph
acyclic if its source is not reachable from its target (the check of
`would_create_cycle`), and so does removing edges or nodes.

`Reachable` is defined as the least closed set and `Acyclic` by "no set in which
everyone has a successor of the set", so no induction on paths is needed.

The rest of `TaskCommitProofs` is about what the commands mean. Its theorems are about
`GraphApplySpec`, two of them about `RequestSpec`, which adds the variable `asked` to it
(lemma `RequestStep`: each of its steps is one of `GraphApplySpec`). A behavior of `Spec`
is one of `GraphApplySpec` (lemma `StoreIsApplyFree`), so the former hold without
`tg apply` as well.

| Theorem | `GraphApplySpec =>` |
|---|---|
| `CommitInvariant` | `[]CommitInv` |
| `DoneIsFinal`, `ClaimsFollowStatus` | `[]ArchivedIsDone`, `[]ClaimDiscipline` |
| `DriftBound` | `[]DriftNeedsCrash` |
| `BoardNeverStuck` | `[]NeverStuck` |
| `RefusalCanBeMended` | `[]EditsMendRefusal` |
| `ClaimsAreKept` | `ClaimNeverStolen` |
| `EventsComeFirst`, `HistoryOnlyGrows` | `EventPrecedesStatus`, `HistoryKept` |
| `StoreImplementsBoard` | `ImplementsBoard` |

| Theorem | `RequestSpec =>` |
|---|---|
| `TasksAreKept`, `GraphsAreWhole` | `NoTaskLost`, `GraphIsWhole` |

`StoreInv` says of a job only that it keeps the graph sound. It does not say that
a job is the change some command asked for, and without that nothing can be said
of claims, statuses or history: a job that takes a claim away would satisfy
it. `CommitInv` adds two parts. `RecordsOK` relates the records at rest to the
events: what is archived is done by its newest event, claims follow the status,
and the tasks in drift are no more than the crashes, the one whose event has just
been appended aside. `Effect` says of each commit under way what it will have
done to the files *as they are now*: add items beside the others, revise, claim or
remove one, move the status of one along the transitions, or be at a given stage of a
done. From it follows one lemma on the only rewrite of `tasks.jsonl`,
`WriteTasksRewrites`: the old and the new file stand in the relation `Rewrite`. All
action properties are read off `Rewrite` or off the steps of the event log.

`Effect` says that a job is the change *some* command could have asked for, which is not
enough to say that it is the one that *was* asked for. `RequestInv` adds this to
`CommitInv`: what a save under way takes out of `tasks.jsonl` is what its command was asked
to remove, and if it adds anything, it adds exactly the items of the request (`Answers`).
A lemma per command shows that it begins so (`BeginAnswers` and those after it), and the lock
that the files do not change under it. Edits, transitions and the rewrite of a done add no
item (`OnlySavesAddOrRemove`), and a done takes out only what it has archived.

`EditsMendRefusal` follows from `CommitInv`: taking an edge away keeps a relation acyclic
(`FewerParents`), references to dependencies are as before, and an item whose parent is
neither active nor archived does not exist, as `rm` refuses to remove a parent.

`NeverStuck` is proved from acyclicity: a task that is waiting has an unmet
dependency, which is active and, if nothing is under way, waiting too, so the
waiting tasks would be a set in which everyone has a successor.

The refinement is proved step by step: under `CommitInv` each write is one step of
the board or none (lemmas `MoveIsStep` to `CreateIsStep`). The archive append of a
done is `Finish`, the rewrite of `tasks.jsonl` is the step of every other command,
and a done's own rewrite of `tasks.jsonl` is none, because `BoardOf` prefers the
archived record. That last fact needs `Effect`: the rewrite takes out of `tasks.jsonl`
the very item the append put into the archive.

`ReaderProofs` is about the store with its readers and its cache. Readers and
queries write none of the files of the store, so `CommitInv` remains inductive
beside them (lemmas `LockKeepsCommit`, `StepIsOwn`), and two more parts say what a
process knows:

| Theorem | |
|---|---|
| `ReaderInvariant` | `ReadersSpec => []ReaderInv`: `CommitInv` and `ViewsOK` |
| `ReadersFindMovedTasks`, `OffersStand`, `SnapshotIsOne` | `MovedTaskIsFound`, `OfferedTaskIsUnblocked`, `OneSnapshot` |
| `CacheInvariant` | `CacheSpec => []CacheInv`: `CommitInv` and `QueriesOK` |
| `CacheIsItsStamp`, `QuietAnswersAreFresh`, `SweepSparesRunning` | `CacheMatchesStamp`, `UndisturbedAnswerIsFresh`, `TempFileIsKept` |

`ViewsOK`: what a reader did not find in `tasks.jsonl` is in the archive for good, if it
was ever done; what it loaded under the lock is the store as long as it holds the lock.
`QueriesOK` does the same for a query: its stamp, its rows and the temporary file
it builds belong together, and as long as nobody has disturbed it, the store is still the one
it has stamped.

`EventLogProofs` is about the finer grain of the two event files, for any number of
crashes and torn lines:

| Theorem | `Spec =>` |
|---|---|
| `LogInvariant`, `EventTypes` | `[]LogInv`, `[]TypeOK` |
| `StatusEventsAreKept`, `ReadersSeeAll` | `[]StatusEventsSurvive`, `[]ReadersMissNothing` |
| `NoneIsArchivedTwice`, `EventsFollow` | `[]ArchivedOnce`, `[]EventsFollowTheirTask` |

`StatusEventsSurvive` is a balance: the status events that can be read in neither file
are at most as many as the torn lines. What keeps it through the steps of a move
(`LossesOK`) counts two more things: a fragment at the end of a file, which will
swallow the next line appended to it, and an event that is doomed, because the
copy of it was swallowed so and the rewrite that takes it out of the log is still to come.
What a move has read is still in the log until then (`MovesOK`), because the
lock keeps every other rewrite away and notes only append. The last two properties are
about behaviours without a fault; `NoFaultOK` carries them: the two files share no event
but during a move (`Disjoint`), and a status event of an archived task is about to be
moved by the holder of the lock (`Followed`).

`FileLockProofs` is about `LockSpec`, the store behind its lock in discrete time:

| Theorem | `LockSpec =>` |
|---|---|
| `LockInvariant` | `[]LockInv`: `StoreInv` and `QueueOK` |
| `TimeoutsNeedQueue` | `TimeoutNeedsQueue` |

`QueueOK` bounds the age of a call that at most two commits have overtaken. While the
first of them holds the lock, the call is no older than what that one has used of its
git timeout, plus, once the lock is free again, what the call has slept of its current
pause, and so on for the second; so it is younger than two git timeouts and one pause,
which `LockTiming` puts below the total timeout. The assumption is the one that the
constants of the code satisfy (2 s, 2 s, 0.75 s, 5 s). No fairness is used: it is a bound
on time, not a promise of progress.

`ArchiveProofs` is about `ArchiveSpec`, in which a library caller saves done items and
`tg archive` recovers and prunes them:

| Theorem | `ArchiveSpec =>` |
|---|---|
| `ArchiveInvariant`, `ArchiveTypes` | `[]ArchiveInv`, `[]ArchiveTypeOK` |
| `FinishedStay`, `PrunesSpare` | `FinishedKept`, `PruneSparesDependencies` |

`StoreInv` cannot be used here: `DependenciesResolve` fails, as the `pruned_dependency` run
shows. `ArchiveInv` keeps what is left of it (types, the lock, well-formed commits) and
adds `SweepOK`: the item that a recovery is about to take out of `tasks.jsonl` is in
`archive.jsonl` as it is, what the prune has passed is in the pruned file as it was in
`archive.jsonl`, and no active item depends on what was checked before the recoveries.
`ArchiveTypeOK` is in no run.

`DoctorProofs` is about `DoctorSpec`: any two finite files of lines, damaged or not,
that share at most one identifier, and any number of commands, crashes and doctors.

| Theorem | `DoctorSpec =>` |
|---|---|
| `DoctorInvariant` | `[]DoctorInv` |
| `SplitsDoNotAddUp`, `RecordsAreKept` | `[]AtMostOneSplit`, `NoRecordLost` |
| `SilenceIsHealth`, `CrashesAreRepairable` | `[]SilentDoctorMeansHealthy`, `[]CrashIsRepairable` |
| `FreshRepairsHeal` | `FreshRepairHeals` |

`DoctorInv` says what a commit relies on at each of its writes (`JobOK`) and a doctor at
each of its own (`ScanOK`). Before a done has appended its record, neither that item nor
what it leaves in `tasks.jsonl` is in the archive, and this is why the append splits the one
item only; before any rewrite of `tasks.jsonl` its new content and the archive are
disjoint, and this is why the rewrite heals any split. A doctor with the lock writes what it
made of its reading, however old; if the reading was still true at the lock (`fresh`), it is
true until the last write. `SilenceIsHealth` and `CrashesAreRepairable` compare checks of
the doctor with validations of the store that are written in another way, the first of them
in both directions: what the doctor passes is healthy exactly if it has none of the three
kinds of damage it does not see. The
validation of identifiers is a comparison of two numbers, and the lemma
`UniqueMeansInjective` is what connects the two.

The proof of `FreshRepairHeals` is what found its exception. The property first said that
a fresh repair loses no task at all, and TLC agreed on the files it started from. It does
not hold if `archive.jsonl` has the item with a foreign field: the doctor, whose reader
does not look at the fields (`load_items_lenient`), takes the item for archived and drops
it from `tasks.jsonl`, while every command skips that line of the archive
(`read_archive`). Such a file is now one of those the `doctor` run starts from.

`SearchProofs` is about the searches of `model/deps.rs`, on any graph, cyclic or not, with
or without edges to items that are not there, and in any order:

| Theorem | |
|---|---|
| `SearchInvariant` | `SearchSpec => []SearchInv` |
| `SearchesAreExact`, `SearchesAdvance` | `SearchSpec => []SearchIsExact`, `SearchSpec => SearchAdvances` |
| `DetectionInvariant` | `DetectionSpec => []DetectionInv` |
| `ReportsAreExact`, `PathsAreTheirSets` | `DetectionSpec => []ReportsAreTheCycles`, `[]PathSetIsPath` |

With them the operators by which the store, `tg apply` and the doctor judge cycles are what the
code computes, and the theorems on acyclicity above are about the program's own
checks. The one assumption they add is `FiniteIds`: an identifier has 128 bits.

`SearchInv` is the usual argument for a search, a cut: whatever a visited item leads to has been
visited or is on the stack, and the source is not among the visited. An empty stack
means that the visited items are a closed set without the source. Each step
marks an item, shortens the stack or answers (`SearchAdvances`), so that a search also
ends on data that is cyclic already.

`DetectionInv` has a part per phase. `SortOK`: the count of an item is the number of
items it leads to that are not yet processed, and no set in which everyone leads to one of
the set has lost an item to the sort. So the remainder is empty if and only if the
relation is acyclic, and each item of the remainder leads on within it; the lemma
`CycleAtFacts` turns the first node met again into a cycle.

Completeness of the dependency search is the hard part. The code starts from a node only if
no earlier search has visited it, but enters a node as often as a path leads
there. `Covered` says that, of a way, every cycle that some continuation of it goes
on to has been reported. For each node of the path and each way on from it, the invariant
(`Attended`) has one of four: it is still on the stack above the mark of that node, it
is where the path itself goes on, it led back to the path and that cycle has been
reported, or it is covered. When a node is left, nothing
lies above its mark, so all ways on are covered, and so is the way to the node
(`LeaveCovers`); when the stack is empty, the start is. A node visited from an earlier
start lies on a path from there (`VisitedOK`), and each cycle through it is a continuation
of a path from that start (`WayAround`), which turns the cycle so that it begins where
the path first meets it (`Rotation`). That
is why the skip of visited starts loses nothing, while a skip of visited nodes would (the
mutant of `ReportsAreTheCycles`).

Parent cycles are simpler, as an item has one parent: two cycles that share an item are the
same (`SharedCycle`), and a walk stays in every closed set it began in (`WalkOK`), so it
meets the only cycle its start can be on.

That the search for all cycles ends is not stated: it goes through all simple paths
of the remainder.

Only model-checked: liveness (`CallsEnd`, `CommitsEnd`, `DoneCompletes`), which is out of the
prover's reach. All other properties of the passing runs are theorems. The inductive
invariants were checked by TLC on the instances of section 3 before they were proved;
`CommitInv` is still in a run. `SearchAdvances`, `TypeOK` and `LockProtects` are theorems
without a run of their own (the last two are parts of `CommitInv`).

## 5. What is not modelled

- Text fields, priorities, tags, timestamps and the order of output; filters of
  `list` and `query`; the SQL of a query, its authorizer and its time limit.
- Extensions (`model/extensions.rs`): edits of JSON paths in the `x-*` fields of
  one item in memory, of which no other part takes notice.
- Identifiers as UUIDs (`BadId` stands for every one that is invalid), and the header
  that an append first writes to an archive file that is missing or empty.
- `git.rs`: no command calls it.
- `.gitignore`, which `init`, a rebuild and the doctor bring up to date, and the
  doctor's backups.
- Checks of the doctor that only report on events.
- `init --force` on a live project, which takes no lock and resets everything by
  request.
- Threads of one process that use the library at once (two rebuilds would share
  one temporary file); a process is one command.
- The command line, its exit codes and formats.

The statements that finished tasks stay for ever (`TaskBoard`, `HistoryKept`) are
about stores that are not pruned; of pruned ones, `FinishedKept` speaks.

## 6. What is left

- A composition of `ItemFile` with the event log: today a torn line of an event file and a
  torn record of an item file occur in different modules.
- That the line files of `ItemFile`, when undamaged, behave as the functions of
  `TaskStore`: a second refinement, of `TaskStore`'s `Add`, `Rm` and `Done`.
