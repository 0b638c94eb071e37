---------------------------- MODULE TaskStoreInv ----------------------------
(***************************************************************************)
(* The inductive invariants of TaskStore.  StoreInv is about the relations *)
(* between items: what holds of the files between any two writes, and what *)
(* the commit of the lock holder has established about the tasks.jsonl it  *)
(* is going to write.  CommitInv adds what becomes of a single task: its   *)
(* status, its claim and its events, and which change a commit makes.      *)
(***************************************************************************)
EXTENDS TaskStore

(* Every identifier an item file mentions as item or parent was issued, so *)
(* that nothing points to the item of a later add.                         *)
MentionsIssued(f) ==
  \A i \in DOMAIN f : i \in issued /\ f[i].parent \in issued \cup {None}

FilesOK ==
  /\ DependenciesResolve
  /\ NoDependencyCycle
  /\ NoParentCycle
  /\ MentionsIssued(active)
  /\ DOMAIN archive \subseteq issued
  /\ \A i, j \in Split : i = j

(* Which fields a commit of a kind has, and which stages it goes through.  *)
WellFormed(c) ==
  /\ c.kind = "save"   => c.stage \in {"idle", "tasks"}
  /\ c.kind = "status" => c.stage \in {"event", "tasks"}
  /\ c.kind = "done"   => c.stage # "idle"
  /\ c.kind # "save"   => c.id \in Ids /\ c.item \in Item

(* Until tasks.jsonl is rewritten: once the archive append of a done has   *)
(* been made, the new content of tasks.jsonl is as good as the old one.    *)
Pending(c) == c.stage \in {"event", "archive", "tasks"}

BeforeArchiving(c) == c.kind = "done" /\ c.stage \in {"event", "archive"}

Sound(c) ==
  /\ \A i \in DOMAIN c.tasks :
        c.tasks[i].dependencies \subseteq
          DOMAIN c.tasks \cup DOMAIN archive \cup (IF BeforeArchiving(c) THEN {c.id} ELSE {})
  /\ DOMAIN c.tasks \cap DOMAIN archive = {}
  /\ Acyclic(DependencyEdges(c.tasks))
  /\ Acyclic(ParentEdges(c.tasks))
  /\ MentionsIssued(c.tasks)
  /\ c.kind = "done" => c.id \in issued /\ c.id \notin DOMAIN c.tasks
  /\ BeforeArchiving(c) => DOMAIN active \subseteq DOMAIN c.tasks \cup {c.id}

JobsOK ==
  \A p \in Procs : WellFormed(job[p]) /\ (Pending(job[p]) => Sound(job[p]))

(* The conjunction that every step of the store preserves. *)
StoreInv == TypeOK /\ LockProtects /\ FilesOK /\ JobsOK
-----------------------------------------------------------------------------
(***************************************************************************)
(* The change that a commit makes, told from the active items it started   *)
(* from: they stay as they are until its write of tasks.jsonl.             *)
(***************************************************************************)
(* New items beside the old ones, without an event of an earlier life. *)
AddsItems(new) ==
  /\ \A i \in DOMAIN active : i \in DOMAIN new /\ new[i] = active[i]
  /\ \A i \in DOMAIN new \ DOMAIN active :
        /\ i \notin DOMAIN archive
        /\ NewestEvent(i) = None
        /\ new[i].parent \in DOMAIN new \cup {None}
        /\ new[i] = NewItem(new[i].dependencies, new[i].parent)

(* Other relations for one item. *)
RevisesItem(new) ==
  \E i \in DOMAIN active, deps \in SUBSET Ids :
     \E parent \in DOMAIN active \cup {None, active[i].parent} :
        new = PutItem(active, i, [active[i] EXCEPT !.dependencies = deps, !.parent = parent])

(* A claim on an item that no other agent holds. *)
ClaimsItem(new) ==
  \E i \in DOMAIN active, claim \in Agents :
     /\ active[i].status = "doing"
     /\ active[i].claimed_by \in {None, claim}
     /\ new = PutItem(active, i, [active[i] EXCEPT !.claimed_by = claim])

(* One item goes that no active item refers to. *)
RemovesItem(new) ==
  \E i \in DOMAIN active :
     /\ ActiveChildren(active, i) = {}
     /\ ActiveDependents(active, i) = {}
     /\ new = RemoveItem(active, i)

(* The transitions that keep an item active. *)
Moves(old, new) ==
  \/ old.status = "todo" /\ \E claim \in Agents \cup {None} : new = ApplyDo(old, claim)
  \/ old.status = "doing" /\ new = ApplyTodo(old)
  \/ old.status \in {"todo", "doing"} /\ new = ApplyBlock(old)
  \/ old.status = "blocked" /\ new = ApplyUnblock(old)

SaveEffect(c) ==
  /\ c.id = None
  /\ AddsItems(c.tasks) \/ RevisesItem(c.tasks) \/ ClaimsItem(c.tasks) \/ RemovesItem(c.tasks)

StatusEffect(c) ==
  /\ c.id \in DOMAIN active
  /\ Moves(active[c.id], c.item)
  /\ c.tasks = PutItem(active, c.id, c.item)
  /\ c.stage = "tasks" => NewestEvent(c.id) = c.item.status

DoneEffect(c) ==
  /\ Pending(c) =>
        /\ c.id \in DOMAIN active
        /\ active[c.id].status \in {"todo", "doing"}
        /\ c.item = ApplyDone(active[c.id])
        /\ c.tasks = RemoveItem(active, c.id)
  /\ c.stage # "event" => NewestEvent(c.id) = "done"
  /\ c.stage \in {"tasks", "copy", "clear"} => c.id \in DOMAIN archive
  /\ c.stage \in {"copy", "clear"} => c.id \notin DOMAIN active
  /\ c.stage = "clear" => events_archive[c.id] = events[c.id]

Effect(c) ==
  /\ c.kind = "save" => SaveEffect(c)
  /\ c.kind = "status" => StatusEffect(c)
  /\ c.kind = "done" => DoneEffect(c)

(* A parent is never removed while it has children, but it may be          *)
(* archived.                                                               *)
ParentsKnown == \A i \in DOMAIN active : active[i].parent \in Known \cup {None}

RecordsOK ==
  /\ ArchivedIsDone
  /\ ClaimDiscipline
  /\ ParentsKnown
  /\ \A i \in Ids \ issued : NewestEvent(i) = None
  /\ IsFiniteSet(Drifted) /\ DriftNeedsCrash

CommitInv ==
  /\ StoreInv
  /\ RecordsOK
  /\ \A p \in Procs : InProgress(p) => Effect(job[p])
=============================================================================
