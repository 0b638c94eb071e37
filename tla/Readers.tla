------------------------------ MODULE Readers -------------------------------
(***************************************************************************)
(* The commands that only read the store, beside the writers of TaskStore. *)
(* tg show and tg dump take no lock and read one file after the other;     *)
(* tg next and tg ready evaluate the dependencies under the lock.          *)
(***************************************************************************)
EXTENDS TaskStore

VARIABLE view  (* per process, the reading command it runs and its answer *)

readerVars == <<vars, view>>

NoView ==
  [ stage |-> "idle",
    wanted |-> {},         (* show, dump: the tasks looked for                *)
    due |-> {},            (* those of them in the store when it began        *)
    found |-> {},          (* those of them found so far                      *)
    items |-> EmptyFile,   (* next, ready: tasks.jsonl as it was read         *)
    ready |-> {} ]         (* next, ready: the tasks offered                  *)

ReaderInit == Init /\ view = [p \in Procs |-> NoView]

Viewing(p, stage) == view[p].stage = stage

-----------------------------------------------------------------------------
(* Faulty: the archive is read before tasks.jsonl. *)
ItemsAt_ArchiveFirst(stage) ==
  IF stage = "idle" THEN DOMAIN archive ELSE DOMAIN active

(* tasks.jsonl is read first, archive.jsonl after it. *)
ItemsAt(stage) == IF stage = "idle" THEN DOMAIN active ELSE DOMAIN archive

LookFor(p, wanted, next) ==
  /\ Viewing(p, "idle")
  /\ view' = [view EXCEPT ![p] = [NoView EXCEPT
                !.stage = next,
                !.wanted = wanted,
                !.due = wanted \cap Known,
                !.found = wanted \cap ItemsAt("idle")]]
  /\ UNCHANGED vars

Show(p, i) == LookFor(p, {i}, "resolve")

Dump(p) == LookFor(p, Ids, "archive")

(* tg show: an identifier of neither file is refused, an active item is    *)
(* shown; any other is looked up in archive.jsonl once more.               *)
ResolveId(p) ==
  /\ Viewing(p, "resolve")
  /\ view' = [view EXCEPT ![p].stage =
                IF view[p].found = {} /\ view[p].wanted \cap ItemsAt("resolve") # {}
                THEN "archive" ELSE "answered"]
  /\ UNCHANGED vars

ReadArchive(p) ==
  /\ Viewing(p, "archive")
  /\ view' = [view EXCEPT ![p].stage = "answered",
                          ![p].found = @ \cup (view[p].wanted \cap ItemsAt("archive"))]
  /\ UNCHANGED vars

-----------------------------------------------------------------------------
(* Faulty: next and ready load the files without the lock. *)
LoadTasks_Unlocked(p) ==
  /\ Viewing(p, "idle")
  /\ view' = [view EXCEPT ![p] = [NoView EXCEPT !.stage = "evaluate", !.items = active]]
  /\ UNCHANGED vars

(* dependency_evaluation, under the lock: load_active, ... *)
LoadTasks(p) ==
  /\ Viewing(p, "idle")
  /\ lock = None
  /\ lock' = p
  /\ view' = [view EXCEPT ![p] = [NoView EXCEPT !.stage = "evaluate", !.items = active]]
  /\ UNCHANGED <<files, issued, job, crashes>>

(* ... load_all_archive, and evaluate_dependencies on what was loaded. *)
EvaluateDependencies(p) ==
  /\ Viewing(p, "evaluate")
  /\ lock' = IF lock = p THEN None ELSE lock
  /\ view' = [view EXCEPT
                ![p].stage = "evaluated",
                ![p].ready = ReadyItems(view[p].items, archive)]
  /\ UNCHANGED <<files, issued, job, crashes>>

(* The answer is printed and the process exits. *)
ReaderExits(p) ==
  /\ view[p].stage \in {"answered", "evaluated"}
  /\ view' = [view EXCEPT ![p] = NoView]
  /\ UNCHANGED vars

ReaderStep(p) ==
  /\ ~InProgress(p)
  /\ \/ \E i \in Ids : Show(p, i)
     \/ Dump(p)
     \/ ResolveId(p)
     \/ ReadArchive(p)
     \/ LoadTasks(p)
     \/ EvaluateDependencies(p)
     \/ ReaderExits(p)

ReaderCrash(p) ==
  /\ Crash(p)
  /\ view' = [view EXCEPT ![p] = NoView]

(* A process runs one command at a time. *)
ReaderNext ==
  \E p \in Procs :
     \/ Viewing(p, "idle") /\ (Command(p) \/ Write(p)) /\ UNCHANGED view
     \/ ReaderStep(p)
     \/ ReaderCrash(p)

ReaderSpec == ReaderInit /\ [][ReaderNext]_readerVars
-----------------------------------------------------------------------------
(***************************************************************************)
(* Properties.                                                             *)
(***************************************************************************)
(* A task that was in the store when tg show or tg dump began, and was not *)
(* removed since, is in the answer, although tg done moves it from one     *)
(* file to the other while they are read one by one (show.rs:15-16,        *)
(* dump.rs:14-15).                                                         *)
MovedTaskIsFound ==
  \A p \in Procs : Viewing(p, "answered") => view[p].due \cap Known \subseteq view[p].found

(* A task that next or ready offers can be worked on: each dependency it   *)
(* had is archived as done, at once and whatever happens until the agent   *)
(* reads the answer (deps.rs:390-460).                                     *)
OfferedTaskIsUnblocked ==
  \A p \in Procs : Viewing(p, "evaluated") =>
    \A i \in view[p].ready : \A d \in view[p].items[i].dependencies :
      d \in DOMAIN archive /\ archive[d].status = "done"

(* next and ready answer "from one lock-consistent snapshot"               *)
(* (store/mod.rs:124): although the files are loaded one after the other,  *)
(* what they offer is what is ready in one state of the store.             *)
OneSnapshot ==
  [][ \A p \in Procs : EvaluateDependencies(p) =>
        view'[p].ready = ReadyItems(active, archive) ]_readerVars
-----------------------------------------------------------------------------
(***************************************************************************)
(* What a reader under way may rely on: the induction behind the three     *)
(* properties.  What was not found in tasks.jsonl is in archive.jsonl, for *)
(* good; what was loaded under the lock is still tasks.jsonl.              *)
(***************************************************************************)
ViewStage == {"idle", "resolve", "archive", "answered", "evaluate", "evaluated"}

IsView(v) ==
  v \in [ stage: ViewStage, wanted: SUBSET Ids, due: SUBSET Ids, found: SUBSET Ids,
          items: {v.items}, ready: {v.ready} ]

Looking(v) ==
  /\ v.due \subseteq v.wanted /\ v.found \subseteq v.wanted
  /\ v.due \subseteq v.found \cup DOMAIN archive
  /\ v.stage = "resolve" => \E i \in Ids : v.wanted = {i}

ViewsOK ==
  /\ DOMAIN view = Procs
  /\ \A p \in Procs :
        /\ IsView(view[p])
        /\ ~Viewing(p, "idle") => ~InProgress(p)
        /\ view[p].stage \in {"resolve", "archive"} => Looking(view[p])
        /\ Viewing(p, "answered") => view[p].due \subseteq view[p].found
        /\ Viewing(p, "evaluate") => lock = p /\ view[p].items = active
        /\ Viewing(p, "evaluated") =>
              \A i \in view[p].ready : view[p].items[i].dependencies \subseteq DOMAIN archive
=============================================================================
