----------------------------- MODULE TaskStore ------------------------------
(***************************************************************************)
(* The task store of task-golem: concurrent `tg` processes that change     *)
(* .task-golem/ under one advisory file lock, one durable write at a time. *)
(*                                                                         *)
(* A command acquires the lock, loads the files, decides, and leaves a     *)
(* commit to carry out: the durable writes still to be made, in the order  *)
(* of store/mod.rs.  Every write is a step of its own, so the process may  *)
(* die, or a write may fail, between any two of them; the lock is then     *)
(* released and the rest of the commit is lost (Crash).  A command that is *)
(* refused, or that finds nothing to do, changes no file and is no step.   *)
(***************************************************************************)
EXTENDS TaskGraph, Naturals, FiniteSets

CONSTANTS
  Procs,       (* the concurrent tg processes (or library callers)    *)
  MaxCrashes   (* bound: how many commits are cut short in a behavior *)

ASSUME CrashBound == MaxCrashes \in Nat
ASSUME NoneIsNoProc == None \notin Procs

VARIABLES
  active,          (* tasks.jsonl                                           *)
  archive,         (* archive.jsonl                                         *)
  events,          (* newest status per task in events.jsonl, None if none  *)
  events_archive,  (* newest status per task in events.archive.jsonl        *)
  issued,          (* identifiers the generator has produced                *)
  lock,            (* the holder of tasks.lock, or None                     *)
  job,             (* per process, the commit it is carrying out            *)
  crashes          (* commits cut short so far                              *)

files == <<active, archive, events, events_archive>>
vars == <<active, archive, events, events_archive, issued, lock, job, crashes>>

Known == DOMAIN active \cup DOMAIN archive

(* The newest status_transition event of a task, wherever its events are. *)
NewestEvent(i) == IF events[i] # None THEN events[i] ELSE events_archive[i]

-----------------------------------------------------------------------------
(***************************************************************************)
(* Commits.  A commit is one Store method carried out write by write:      *)
(*   save    tasks                                       save_active       *)
(*   status  event, tasks                        commit_status_change      *)
(*   done    event, archive, tasks, copy, clear            commit_done     *)
(* where copy and clear are the two halves of events::move_for_task.       *)
(***************************************************************************)
Kind == {"save", "status", "done"}

Stage == {"idle", "event", "archive", "tasks", "copy", "clear"}

(* Faulty: the done item leaves tasks.jsonl before it is archived. *)
NextStage_TasksFirst(kind, stage) ==
  CASE stage = "event"   -> "tasks"
    [] stage = "tasks"   -> IF kind = "done" THEN "archive" ELSE "idle"
    [] stage = "archive" -> "copy"
    [] stage = "copy"    -> "clear"
    [] OTHER             -> "idle"

(* Faulty: the events leave events.jsonl before they are copied. *)
NextStage_ClearFirst(kind, stage) ==
  CASE stage = "event"   -> IF kind = "done" THEN "archive" ELSE "tasks"
    [] stage = "archive" -> "tasks"
    [] stage = "tasks"   -> IF kind = "done" THEN "clear" ELSE "idle"
    [] stage = "clear"   -> "copy"
    [] OTHER             -> "idle"

(* Faulty: the events are copied again and again. *)
NextStage_CopiesForever(kind, stage) ==
  CASE stage = "event"   -> IF kind = "done" THEN "archive" ELSE "tasks"
    [] stage = "archive" -> "tasks"
    [] stage = "tasks"   -> IF kind = "done" THEN "copy" ELSE "idle"
    [] OTHER             -> stage

(* Faulty: the commit of a done ends at tasks.jsonl like any other. *)
NextStage_NeverMoves(kind, stage) ==
  CASE stage = "event"   -> IF kind = "done" THEN "archive" ELSE "tasks"
    [] stage = "archive" -> "tasks"
    [] stage = "copy"    -> "clear"
    [] OTHER             -> "idle"

NextStage(kind, stage) ==
  CASE stage = "event"   -> IF kind = "done" THEN "archive" ELSE "tasks"
    [] stage = "archive" -> "tasks"
    [] stage = "tasks"   -> IF kind = "done" THEN "copy" ELSE "idle"
    [] stage = "copy"    -> "clear"
    [] OTHER             -> "idle"

(* The task whose status changes, its new record and the new tasks.jsonl;  *)
(* a save changes no status and has neither of the first two.              *)
IsJob(j) ==
  /\ j \in [ kind:  Kind,
             stage: Stage,
             id:    Ids \cup {None},
             item:  Item \cup {None},
             tasks: {j.tasks} ]
  /\ IsItemFile(j.tasks)

NoJob ==
  [ kind |-> "save", stage |-> "idle", id |-> None, item |-> None,
    tasks |-> EmptyFile ]

InProgress(p) == job[p].stage # "idle"

Init ==
  /\ active = EmptyFile
  /\ archive = EmptyFile
  /\ events = [i \in Ids |-> None]
  /\ events_archive = [i \in Ids |-> None]
  /\ issued = {}
  /\ lock = None
  /\ job = [p \in Procs |-> NoJob]
  /\ crashes = 0

-----------------------------------------------------------------------------
(***************************************************************************)
(* The validations every write passes (store/mod.rs).                      *)
(***************************************************************************)
(* Faulty: identifiers of the archive may be written to tasks.jsonl. *)
ValidateActiveWrite_Overlap(new) ==
  /\ \A i \in DOMAIN active \ (DOMAIN new \cup DOMAIN archive) :
        ActiveDependents(active, i) = {}
  /\ DependencyReferencesResolve(new, DOMAIN archive)

(* Faulty: only the archived item itself is looked up in the archive. *)
ValidateArchiveMove_Overlap(new, i) ==
  /\ i \notin DOMAIN new
  /\ i \notin DOMAIN archive
  /\ DependencyReferencesResolve(new, DOMAIN archive \cup {i})

ValidateActiveWrite(new) ==
  /\ DOMAIN new \cap DOMAIN archive = {}
  /\ \A i \in DOMAIN active \ (DOMAIN new \cup DOMAIN archive) :
        ActiveDependents(active, i) = {}
  /\ DependencyReferencesResolve(new, DOMAIN archive)

ValidateArchiveMove(new, i) ==
  /\ i \notin DOMAIN new
  /\ DOMAIN new \cap DOMAIN archive = {}
  /\ i \notin DOMAIN archive
  /\ DependencyReferencesResolve(new, DOMAIN archive \cup {i})

(* Faulty: the lock is taken without waiting for its holder. *)
Begin_Unlocked(p, commit) ==
  /\ lock # p
  /\ lock' = p
  /\ job' = [job EXCEPT ![p] = commit]
  /\ UNCHANGED <<files, crashes>>

(* Acquire the lock and take on a commit: nothing is written yet. *)
Begin(p, commit) ==
  /\ lock = None
  /\ lock' = p
  /\ job' = [job EXCEPT ![p] = commit]
  /\ UNCHANGED <<files, crashes>>

SaveActive(p, new) ==
  /\ ValidateActiveWrite(new)
  /\ Begin(p, [NoJob EXCEPT !.stage = "tasks", !.tasks = new])

(* Faulty: a status is saved without its event. *)
CommitStatusChange_NoEvent(p, i, item) ==
  SaveActive(p, PutItem(active, i, item)) /\ UNCHANGED issued

CommitStatusChange(p, i, item) ==
  LET new == PutItem(active, i, item)
  IN  /\ ValidateActiveWrite(new)
      /\ Begin(p, [ kind |-> "status", stage |-> "event", id |-> i,
                    item |-> item, tasks |-> new ])
      /\ UNCHANGED issued

CommitDone(p, i, item) ==
  LET new == RemoveItem(active, i)
  IN  /\ ValidateArchiveMove(new, i)
      /\ Begin(p, [ kind |-> "done", stage |-> "event", id |-> i,
                    item |-> item, tasks |-> new ])
      /\ UNCHANGED issued

-----------------------------------------------------------------------------
(***************************************************************************)
(* The commands.                                                           *)
(***************************************************************************)
(* tg add: a fresh identifier, dependencies among the known items, and a   *)
(* parent among the active ones.                                           *)
Add(p, i, deps, parent) ==
  LET new == PutItem(active, i, NewItem(deps, None))
  IN  /\ i \notin Known \cup issued
      /\ \A d \in deps : ValidDependency(i, d, DOMAIN active, DOMAIN archive)
      /\ parent # None => parent \in DOMAIN active /\ CanReparent(new, i, parent)
      /\ SaveActive(p, [new EXCEPT ![i].parent = parent])
      /\ issued' = issued \cup {i}

(* tg edit (and tg dep): the dependencies that go must be known items, the *)
(* ones that come are validated and searched for a cycle, and so is a new  *)
(* parent.  Keeping both as they are is the edit of a title or a tag.      *)
Edit(p, i, deps, parent) ==
  LET old == active[i]
      new == [active EXCEPT ![i].dependencies = deps]
  IN  /\ i \in DOMAIN active
      /\ old.dependencies \ deps \subseteq Known
      /\ \A d \in deps \ old.dependencies :
           /\ ValidDependency(i, d, DOMAIN active, DOMAIN archive)
           /\ ~WouldCreateCycle(new, i, d)
      /\ parent \notin {None, old.parent} => CanReparent(new, i, parent)
      /\ SaveActive(p, [new EXCEPT ![i].parent = parent])
      /\ UNCHANGED issued

(* tg rm: refused while an active item has it as parent or dependency. *)
Rm(p, i) ==
  /\ i \in DOMAIN active
  /\ ActiveChildren(active, i) = {}
  /\ ActiveDependents(active, i) = {}
  /\ SaveActive(p, RemoveItem(active, i))
  /\ UNCHANGED issued

(* tg do, from a status that allows it; `claim` may be None. *)
Do(p, i, claim) ==
  /\ i \in DOMAIN active
  /\ CanTransitionTo(active[i].status, "doing")
  /\ CommitStatusChange(p, i, ApplyDo(active[i], claim))

(* Faulty: a claim of someone else is overwritten. *)
Claim_Overwrites(p, i, claim) ==
  /\ i \in DOMAIN active
  /\ active[i].status = "doing"
  /\ SaveActive(p, [active EXCEPT ![i].claimed_by = claim])
  /\ UNCHANGED issued

(* tg do --claim on an item already doing: the claim is set or renewed, a  *)
(* claim of someone else is respected; no event is written.                *)
Claim(p, i, claim) ==
  /\ i \in DOMAIN active
  /\ active[i].status = "doing"
  /\ active[i].claimed_by \in {None, claim}
  /\ SaveActive(p, [active EXCEPT ![i].claimed_by = claim])
  /\ UNCHANGED issued

Todo(p, i) ==
  /\ i \in DOMAIN active
  /\ CanTransitionTo(active[i].status, "todo")
  /\ CommitStatusChange(p, i, ApplyTodo(active[i]))

Block(p, i) ==
  /\ i \in DOMAIN active
  /\ CanTransitionTo(active[i].status, "blocked")
  /\ CommitStatusChange(p, i, ApplyBlock(active[i]))

Unblock(p, i) ==
  /\ i \in DOMAIN active
  /\ active[i].status = "blocked"
  /\ CommitStatusChange(p, i, ApplyUnblock(active[i]))

Done(p, i) ==
  /\ i \in DOMAIN active
  /\ CanTransitionTo(active[i].status, "done")
  /\ CommitDone(p, i, ApplyDone(active[i]))

-----------------------------------------------------------------------------
(***************************************************************************)
(* The durable writes of the lock holder, in the order of its commit.      *)
(***************************************************************************)
At(p, stage) == lock = p /\ job[p].stage = stage

(* On to the next write, or the with_lock closure returns: the guard is    *)
(* dropped and with it the lock.                                           *)
Release(p) ==
  /\ job' = [job EXCEPT ![p] = NoJob]
  /\ lock' = None

Advance(p) ==
  LET next == NextStage(job[p].kind, job[p].stage)
  IN  IF next = "idle"
      THEN Release(p)
      ELSE /\ job' = [job EXCEPT ![p].stage = next]
           /\ UNCHANGED lock

AppendEvent(p) ==
  /\ At(p, "event")
  /\ events' = [events EXCEPT ![job[p].id] = job[p].item.status]
  /\ Advance(p)
  /\ UNCHANGED <<active, archive, events_archive, issued, crashes>>

AppendToArchive(p) ==
  /\ At(p, "archive")
  /\ job[p].id \notin DOMAIN archive
  /\ archive' = PutItem(archive, job[p].id, job[p].item)
  /\ Advance(p)
  /\ UNCHANGED <<active, events, events_archive, issued, crashes>>

(* write_atomic: the whole file is replaced by a rename. *)
WriteTasks(p) ==
  /\ At(p, "tasks")
  /\ active' = job[p].tasks
  /\ Advance(p)
  /\ UNCHANGED <<archive, events, events_archive, issued, crashes>>

(* move_for_task, first half; a task without events ends the move here. *)
CopyEvents(p) ==
  /\ At(p, "copy")
  /\ IF events[job[p].id] = None
     THEN UNCHANGED events_archive /\ Release(p)
     ELSE /\ events_archive' =
               [events_archive EXCEPT ![job[p].id] = events[job[p].id]]
          /\ Advance(p)
  /\ UNCHANGED <<active, archive, events, issued, crashes>>

(* move_for_task, second half: events.jsonl is rewritten without the task. *)
ClearEvents(p) ==
  /\ At(p, "clear")
  /\ events' = [events EXCEPT ![job[p].id] = None]
  /\ Advance(p)
  /\ UNCHANGED <<active, archive, events_archive, issued, crashes>>

(* The process dies, or the next write fails, before that write is made. *)
Crash(p) ==
  /\ lock = p
  /\ crashes < MaxCrashes
  /\ crashes' = crashes + 1
  /\ Release(p)
  /\ UNCHANGED <<files, issued>>

-----------------------------------------------------------------------------
Command(p) ==
  \E i \in Ids :
     \/ \E deps \in SUBSET Ids, parent \in Ids \cup {None} :
           Add(p, i, deps, parent) \/ Edit(p, i, deps, parent)
     \/ \E claim \in Agents \cup {None} : Do(p, i, claim)
     \/ \E claim \in Agents : Claim(p, i, claim)
     \/ Rm(p, i)
     \/ Todo(p, i)
     \/ Block(p, i)
     \/ Unblock(p, i)
     \/ Done(p, i)

Write(p) ==
  \/ AppendEvent(p)
  \/ AppendToArchive(p)
  \/ WriteTasks(p)
  \/ CopyEvents(p)
  \/ ClearEvents(p)

Next == \E p \in Procs : Command(p) \/ Write(p) \/ Crash(p)

Spec == Init /\ [][Next]_vars

(* A process that holds the lock keeps running unless it dies. *)
FairSpec == Spec /\ \A p \in Procs : WF_vars(Write(p))
-----------------------------------------------------------------------------
(***************************************************************************)
(* Properties.                                                             *)
(***************************************************************************)
(* Every file holds valid records, and every write other than that of      *)
(* tasks.jsonl is about a task and its new record.                         *)
TypeOK ==
  /\ IsItemFile(active)
  /\ IsItemFile(archive)
  /\ events \in [Ids -> Status \cup {None}]
  /\ events_archive \in [Ids -> Status \cup {None}]
  /\ issued \in SUBSET Ids
  /\ lock \in Procs \cup {None}
  /\ DOMAIN job = Procs
  /\ \A p \in Procs : IsJob(job[p])
  /\ \A p \in Procs : job[p].stage \notin {"idle", "tasks"} =>
        job[p].id \in Ids /\ job[p].item \in Item
  /\ crashes \in 0..MaxCrashes

(* Two commits are never under way at once: what a command validated stays *)
(* true until its last write (store/lock.rs).                              *)
LockProtects == \A p \in Procs : InProgress(p) => lock = p

(* Between any two writes, whatever crashed before, each dependency of an  *)
(* active item is an item of tasks.jsonl or archive.jsonl, so that every   *)
(* load passes validate_dependency_references.                             *)
DependenciesResolve ==
  \A i \in DOMAIN active : active[i].dependencies \subseteq Known

(* No sequence of add, edit, rm and done commands closes a cycle, although *)
(* each command searches only the edges of active items (model/deps.rs).   *)
NoDependencyCycle == Acyclic(DependencyEdges(active))

NoParentCycle == Acyclic(ParentEdges(active))

(* The board never gets stuck: as long as something is left to do, a task  *)
(* is ready, in progress or blocked.  It takes both that no dependencies   *)
(* are circular and that what leaves tasks.jsonl counts as done.           *)
NeverStuck ==
  (\E i \in DOMAIN active : active[i].status = "todo") =>
    \/ ReadyItems(active, archive) # {}
    \/ \E i \in DOMAIN active : active[i].status \in {"doing", "blocked"}

(* The items in both files: a done commit between its archive append and   *)
(* its rewrite of tasks.jsonl, or one that crashed there.                  *)
Split == DOMAIN active \cap DOMAIN archive

(* However many commits crash, at most one item is ever in both files:     *)
(* once one is, every write that would make a second is refused.           *)
AtMostOneSplit == Cardinality(Split) <= 1

(* Done is final in archive.jsonl and in the event log, also for an item   *)
(* whose active copy a crash left behind: no later command transitions it. *)
ArchivedIsDone ==
  \A i \in DOMAIN archive :
     /\ archive[i].status = "done"
     /\ archive[i].claimed_by = None
     /\ NewestEvent(i) = "done"

(* The claim and block fields follow the status through every sequence of  *)
(* transitions (model/item.rs): only work in progress is claimed, and only *)
(* a blocked item remembers where it came from.                            *)
ClaimDiscipline ==
  \A i \in DOMAIN active :
     /\ active[i].claimed_by # None => active[i].status = "doing"
     /\ active[i].blocked_from_status \in
          IF active[i].status = "blocked" THEN {"todo", "doing"} ELSE {None}
     /\ active[i].status # "done"

(* The tasks whose last status event is not their status; a task without   *)
(* events is todo.  A commit under way is not yet drift.                   *)
Drifted ==
  {i \in DOMAIN active :
     /\ active[i].status # (IF NewestEvent(i) = None THEN "todo" ELSE NewestEvent(i))
     /\ \A p \in Procs : InProgress(p) => job[p].id # i}

(* A task drifts from its event log only through a crash between the two   *)
(* writes of its commit, one task per crash (store/mod.rs:168-173).        *)
DriftNeedsCrash == Cardinality(Drifted) <= crashes

(* The event is durable before the status it announces: no write gives an  *)
(* item of either file a status other than its newest event's.             *)
EventPrecedesStatus ==
  [][ /\ \A i \in DOMAIN active \cap DOMAIN active' :
           active'[i].status # active[i].status => active'[i].status = NewestEvent(i)
      /\ \A i \in DOMAIN archive' \ DOMAIN archive : NewestEvent(i) = "done" ]_vars

(* A claim passes to another agent only after it was released: no write    *)
(* replaces one agent's claim by another's, however commands interleave.   *)
ClaimNeverStolen ==
  [][ \A i \in DOMAIN active \cap DOMAIN active' :
        active[i].claimed_by # None =>
          active'[i].claimed_by \in {active[i].claimed_by, None} ]_vars

(* The status history of a task never shrinks, and that of a task that is  *)
(* not active never changes, whatever the move to events.archive.jsonl is  *)
(* interrupted by.                                                         *)
HistoryKept ==
  [][ \A i \in Ids : NewestEvent(i)' # NewestEvent(i) =>
        NewestEvent(i)' # None /\ i \in DOMAIN active ]_vars

(* A commit whose process keeps running comes to its end and gives the     *)
(* lock back (store/lock.rs:37-41): nobody waits for ever on a holder that *)
(* cannot make its next write.                                             *)
CommitsEnd == \A p \in Procs : InProgress(p) ~> ~InProgress(p)

(* Once tg done has begun to write, the item ends up archived, out of      *)
(* tasks.jsonl and with its events moved, unless a process died meanwhile. *)
DoneCompletes ==
  \A i \in Ids, n \in 0..MaxCrashes :
     (\E p \in Procs : InProgress(p) /\ job[p].kind = "done" /\ job[p].id = i /\ crashes = n)
       ~> \/ i \in DOMAIN archive \ DOMAIN active /\ events[i] = None
          \/ crashes > n
=============================================================================
