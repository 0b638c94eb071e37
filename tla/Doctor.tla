------------------------------- MODULE Doctor -------------------------------
(***************************************************************************)
(* tg doctor --fix beside the commands of ItemFile: the doctor reads both  *)
(* item files without the lock, looks for issues, and only then takes the  *)
(* lock to write what it made of the files as it had read them.            *)
(***************************************************************************)
EXTENDS ItemFile

VARIABLE scan  (* per process, the doctor it runs: stage and what it read *)

doctorVars == <<fileVars, scan>>

NoScan ==
  [ stage |-> "idle", tasks |-> {}, archive |-> {},
    fresh |-> FALSE ]    (* nobody wrote between the reading and the lock *)

DoctorInit(t, a, l) == FilesInit(t, a, l) /\ scan = [p \in Procs |-> NoScan]

ScanAt(p, stage) == scan[p].stage = stage

-----------------------------------------------------------------------------
(***************************************************************************)
(* The checks, on the lines t of tasks.jsonl and a of archive.jsonl.       *)
(***************************************************************************)
(* load_items_lenient: extensions are not validated. *)
ItemsIn(lines) == OfKind(lines, {"record", "foreign", "misnamed"})

(* check_jsonl_syntax, which also covers what check_invalid_status finds:  *)
(* of the first line it wants to know only whether it is JSON, or blank.   *)
CheckJsonlSyntax(lines) == lines # ItemsIn(lines) \cup OfKind(lines, {"header"})

(* check_duplicate_ids: twice in one file, and not in the other one. *)
DuplicateIds(t, a) ==
  {l.id : l \in {k \in ItemsIn(t) : \E m \in ItemsIn(t) \ {k} : m.id = k.id}}
    \ IdsOf(ItemsIn(a))

(* Faulty: items in both files are taken for duplicates, which they are    *)
(* not.                                                                    *)
ItemsInBoth_Duplicates(t, a) == DuplicateIds(t, a)

ItemsInBoth(t, a) == IdsOf(ItemsIn(t)) \cap IdsOf(ItemsIn(a))

Listed(t, a) == IdsOf(ItemsIn(t)) \cup IdsOf(ItemsIn(a))

DanglingDependencies(t, a) ==
  (UNION {l.item.dependencies : l \in ItemsIn(t)}) \ Listed(t, a)

(* The searches follow one of several items with the same identifier, but  *)
(* that is an issue already.                                               *)
Named(lines, i) == {l \in lines : l.id = i}

DependenciesOf(lines) ==
  [i \in IdsOf(lines) |-> UNION {l.item.dependencies : l \in Named(lines, i)}]

ParentsOf(lines) ==
  [i \in IdsOf(lines) |-> {l.item.parent : l \in Named(lines, i)} \ {None}]

DanglingParents(lines, ids) ==
  {l \in lines : l.item.parent \notin ids \cup {None}}

OrphanedParents(t, a) == DanglingParents(ItemsIn(a), Listed(t, a))

Issues(t, a) ==
  {issue \in
     { <<"jsonl_syntax",            CheckJsonlSyntax(t) \/ CheckJsonlSyntax(a)>>,
       <<"duplicate_id",            DuplicateIds(t, a) \cup DuplicateIds(a, t) # {}>>,
       <<"items_in_both",           ItemsInBoth(t, a) # {}>>,
       <<"dependency_cycle",        ~Acyclic(DependenciesOf(ItemsIn(t)))>>,
       <<"dangling_dep",            DanglingDependencies(t, a) # {}>>,
       <<"parent_cycle",            ~Acyclic(ParentsOf(ItemsIn(t)))>>,
       <<"parent_dangling_active",  DanglingParents(ItemsIn(t), IdsOf(ItemsIn(t))) # {}>>,
       <<"parent_dangling_archive", OrphanedParents(t, a) # {}>> } : issue[2]}

(***************************************************************************)
(* The repairs.                                                            *)
(***************************************************************************)
(* Faulty: a dependency on an archived item counts as dangling. *)
FixedActive_ActiveOnly(t, a) ==
  {[l EXCEPT !.item.dependencies = @ \cap IdsOf(ItemsIn(t))] :
     l \in {k \in ItemsIn(t) : k.id \notin ItemsInBoth(t, a)}}

(* Faulty: an item in both files stays in tasks.jsonl. *)
FixedActive_KeepsBoth(t, a) ==
  {[l EXCEPT !.item.dependencies = @ \cap Listed(t, a)] : l \in ItemsIn(t)}

(* tasks.jsonl without the items in both files and without the             *)
(* dependencies on unknown items.                                          *)
FixedActive(t, a) ==
  {[l EXCEPT !.item.dependencies = @ \cap Listed(t, a)] :
     l \in {k \in ItemsIn(t) : k.id \notin ItemsInBoth(t, a)}}

(* archive.jsonl with the dangling parents cleared, and nothing but items. *)
FixedArchive(t, a) ==
  {IF l \in OrphanedParents(t, a) THEN [l EXCEPT !.item.parent = None] ELSE l :
     l \in ItemsIn(a)}

-----------------------------------------------------------------------------
DoctorReadTasks(p) ==
  /\ ScanAt(p, "idle")
  /\ ~InProgress(p)
  /\ scan' = [scan EXCEPT ![p] = [NoScan EXCEPT !.stage = "read", !.tasks = tasks]]
  /\ UNCHANGED fileVars

DoctorReadArchive(p) ==
  /\ ScanAt(p, "read")
  /\ scan' = [scan EXCEPT ![p].stage = "fix", ![p].archive = ArchiveLines]
  /\ UNCHANGED fileVars

(* Nothing to repair, no --fix, or the write is refused: the doctor ends.  *)
DoctorEnds(p) ==
  /\ ScanAt(p, "fix")
  /\ scan' = [scan EXCEPT ![p] = NoScan]
  /\ UNCHANGED fileVars

(* Some issue is there, be it one of the cache or of the events:           *)
(* tasks.jsonl is saved, repaired or as it was read.                       *)
DoctorFix(p) ==
  /\ ScanAt(p, "fix")
  /\ SaveActive(p, FixedActive(scan[p].tasks, scan[p].archive), {})
  /\ scan' = [scan EXCEPT ![p].stage = "save",
                          ![p].fresh = scan[p].tasks = tasks
                                       /\ scan[p].archive = ArchiveLines]

ArchiveNeedsRepair(p) == OrphanedParents(scan[p].tasks, scan[p].archive) # {}

(* The rewrite of tasks.jsonl; the lock is kept if archive.jsonl has       *)
(* parents to clear.                                                       *)
DoctorWriteTasks(p) ==
  /\ ScanAt(p, "save")
  /\ lock = p
  /\ tasks' = job[p].new
  /\ IF ArchiveNeedsRepair(p)
     THEN /\ job' = [job EXCEPT ![p] = NoJob]
          /\ scan' = [scan EXCEPT ![p].stage = "rewrite"]
          /\ UNCHANGED lock
     ELSE /\ Release(p)
          /\ scan' = [scan EXCEPT ![p] = NoScan]
  /\ UNCHANGED <<archive, last, crashes>>

(* write_atomic refuses an archive with duplicates, which then stays as it *)
(* is, though tasks.jsonl has been saved.                                  *)
DoctorWriteArchive(p) ==
  LET fixed == FixedArchive(scan[p].tasks, scan[p].archive)
  IN  /\ ScanAt(p, "rewrite")
      /\ lock = p
      /\ IF ValidItemIds(fixed)
         THEN archive' = fixed /\ last' = None
         ELSE UNCHANGED <<archive, last>>
      /\ Release(p)
      /\ scan' = [scan EXCEPT ![p] = NoScan]
      /\ UNCHANGED <<tasks, crashes>>

DoctorStep(p) ==
  \/ DoctorReadTasks(p)
  \/ DoctorReadArchive(p)
  \/ DoctorEnds(p)
  \/ DoctorFix(p)
  \/ DoctorWriteTasks(p)
  \/ DoctorWriteArchive(p)

DoctorCrash(p) ==
  /\ ~ScanAt(p, "idle")
  /\ CrashBetweenWrites(p)
  /\ scan' = [scan EXCEPT ![p] = NoScan]

(* A process runs one command: a doctor takes no steps of another.         *)
DoctorNext ==
  \E p \in Procs :
     \/ ScanAt(p, "idle") /\ StoreStep(p) /\ UNCHANGED scan
     \/ DoctorStep(p)
     \/ DoctorCrash(p)
-----------------------------------------------------------------------------
(***************************************************************************)
(* Properties.                                                             *)
(***************************************************************************)
(* No task is lost to a write that was cut short, neither the one being    *)
(* archived nor the one whose record happens to end the file: no step of a *)
(* command loses a record but the rewrite of the tg rm that was asked to   *)
(* (jsonl.rs:296-348).                                                     *)
NoRecordLost ==
  [][ \A p \in Procs : ScanAt(p, "idle") /\ StoreStep(p) =>
        KnownRecords \ KnownRecords' \subseteq job[p].removes ]_doctorVars

(* The files load, strictly too, a command may save tasks.jsonl, and       *)
(* neither relation has a cycle.                                           *)
Healthy ==
  /\ AllRecords(tasks)
  /\ AllRecords(ArchiveLines)
  /\ ValidateActiveWrite(tasks)
  /\ Acyclic(DependenciesOf(tasks))
  /\ Acyclic(ParentsOf(tasks))

(* What the doctor's checks of the item files let pass, and the store does *)
(* not: a foreign field, an identifier that is no canonical UUIDv7, and a  *)
(* header that is JSON but not the header (doctor.rs:353-375).             *)
Unseen == {"foreign", "misnamed", "header"}

(* When those checks find nothing, and the doctor says that the "Store is  *)
(* healthy", it is, unless it has one of the three damages they do not     *)
(* see; and with any of these it is not (doctor.rs:43-81).                 *)
SilentDoctorMeansHealthy ==
  Issues(tasks, ArchiveLines) = {} =>
    (Healthy <=> Kinds(tasks \cup ArchiveLines) \cap Unseen = {})

(* Whatever a crash leaves behind, short of a cut character, the doctor    *)
(* can repair: where tasks.jsonl loads and the identifiers of              *)
(* archive.jsonl can be read, its new tasks.jsonl is accepted              *)
(* (doctor.rs:155-213).                                                    *)
CrashIsRepairable ==
  /\ AllRecords(tasks) /\ ValidItemIds(tasks)
  /\ ArchiveIdsLoad(ArchiveLines) /\ "identity" \notin Kinds(ArchiveLines)
  => ValidateActiveWrite(FixedActive(tasks, ArchiveLines))

(* The last write of a repair. *)
RepairEnds(p) ==
  \/ DoctorWriteArchive(p)
  \/ DoctorWriteTasks(p) /\ ~ArchiveNeedsRepair(p)

(* What --fix is there to repair. *)
Repairable(t, a) ==
  {issue[1] : issue \in Issues(t, a)}
    \cap {"items_in_both", "dangling_dep", "parent_dangling_archive"}

(* A repair made from files nobody wrote since loses no task at any write, *)
(* but one that archive.jsonl has with a foreign field, which the doctor   *)
(* takes for archived and the commands skip; it loses no dependency on a   *)
(* task.  Its last write leaves nothing of what it is there to repair, and *)
(* a store that takes writes (doctor.rs:155-213).                          *)
FreshRepairHeals ==
  [][ \A p \in Procs : (DoctorWriteTasks(p) \/ DoctorWriteArchive(p)) /\ scan[p].fresh =>
        /\ KnownRecords' \subseteq KnownRecords
        /\ KnownRecords \ KnownRecords' \subseteq IdsOf(OfKind(ArchiveLines, {"foreign"}))
        /\ \A l \in tasks : l.id \notin Split =>
              \E m \in tasks' : /\ m.id = l.id
                              /\ l.item.dependencies \cap KnownRecords \subseteq m.item.dependencies
        /\ RepairEnds(p) => /\ Repairable(tasks, ArchiveLines)' = {}
                            /\ ValidateActiveWrite(tasks)' ]_doctorVars
-----------------------------------------------------------------------------
(***************************************************************************)
(* What the repository says and the code does not keep.                    *)
(***************************************************************************)
(* "Every write follows the lock-load-mutate-atomic-save-unlock cycle"     *)
(* (TG-001 SPEC:39), so that agents update items "simultaneously without   *)
(* data loss" (PRD:46).  The doctor loads before it locks: a task added    *)
(* meanwhile, of which archive.jsonl has no copy at all, is gone once its  *)
(* stale tasks.jsonl is saved.                                             *)
RepairLosesNoTask ==
  [][ \A p \in Procs : DoctorWriteTasks(p) =>
        KnownRecords \subseteq KnownRecords' \cup IdsOf(ItemsIn(ArchiveLines)) ]_doctorVars

(* append_to_archive "handles crash recovery: if the file doesn't end with *)
(* a newline (truncated write), prepends a newline so the new item starts  *)
(* on its own line" (jsonl.rs:296-297).  A record cut inside a character   *)
(* keeps read_archive_ids from reading the file at all, and every write of *)
(* the store, the doctor's too, begins with that.                          *)
TruncatedWriteIsRecovered ==
  /\ lock = None
  /\ UniqueIds(Identified(ArchiveLines))
  /\ Kinds(ArchiveLines) \cap {"misnamed", "header"} = {}
  => ArchiveIdsLoad(ArchiveLines)
-----------------------------------------------------------------------------
(***************************************************************************)
(* The inductive invariant.  DoctorSpec starts from any two files that     *)
(* share at most one identifier, whatever damage they have.                *)
(***************************************************************************)
DoctorSpec ==
  /\ \E t, a \in Lines, l \in Line \cup {None} : DoctorInit(t, a, l) /\ AtMostOneSplit
  /\ [][DoctorNext]_doctorVars

Commit ==
  [ stage : {"idle", "newline", "record", "end", "tasks"},
    new : Lines, line : Line \cup {None}, removes : SUBSET Ids ]

Repair ==
  [ stage : {"idle", "read", "fix", "save", "rewrite"},
    tasks : Lines, archive : Lines, fresh : BOOLEAN ]

DoctorTypeOK ==
  /\ tasks \in Lines
  /\ archive \in Lines
  /\ last \in Line \cup {None}
  /\ lock \in Procs \cup {None}
  /\ job \in [Procs -> Commit]
  /\ crashes \in Nat
  /\ scan \in [Procs -> Repair]

(* A done before its tasks.jsonl: what it takes out of there is what it    *)
(* appends, and what it leaves there the archive does not have.            *)
Archiving(p) ==
  /\ job[p].line \in Line \ {Fragment, Garbled}
  /\ job[p].line.kind = "record"
  /\ job[p].new \subseteq tasks
  /\ IdsOf(tasks \ job[p].new) = {job[p].line.id}
  /\ job[p].line.id \notin IdsOf(job[p].new)
  /\ (IdsOf(job[p].new) \cup {job[p].line.id})
       \cap ArchiveIds(ArchiveLines \ {job[p].line}) = {}

(* A commit before its rewrite of tasks.jsonl: it heals whatever is split, *)
(* and one that is no doctor's loses what it was asked to only.            *)
Saving(p) ==
  /\ IdsOf(job[p].new) \cap ArchiveIds(ArchiveLines) = {}
  /\ ScanAt(p, "idle") =>
        IdsOf(ReadArchive(tasks)) \ IdsOf(ReadArchive(job[p].new))
          \subseteq job[p].removes \cup IdsOf(ReadArchive(ArchiveLines))

JobOK(p) ==
  /\ InProgress(p) => lock = p
  /\ job[p].stage \in {"newline", "record", "end"} => Archiving(p)
  /\ job[p].stage = "newline" => last # None
  /\ job[p].stage = "record" => last = None
  /\ job[p].stage = "end" => last = job[p].line
  /\ job[p].stage = "tasks" => Saving(p)

(* A doctor that may write: it has the lock, and has written or is going   *)
(* to write what it made of its reading, which is still true if it was     *)
(* fresh.                                                                  *)
Repairs(p) ==
  LET fixed == FixedActive(scan[p].tasks, scan[p].archive)
  IN  /\ lock = p
      /\ scan[p].stage = "save" => job[p].stage = "tasks" /\ job[p].new = fixed
      /\ scan[p].stage = "rewrite" => ~InProgress(p) /\ tasks = fixed
      /\ scan[p].fresh =>
            /\ scan[p].stage = "save" => scan[p].tasks = tasks
            /\ scan[p].archive = ArchiveLines
            /\ AllRecords(tasks)
            /\ ArchiveIdsLoad(ArchiveLines)
            /\ ValidItemIds(fixed)

ScanOK(p) ==
  /\ scan[p].stage \in {"read", "fix"} => ~InProgress(p)
  /\ scan[p].stage \in {"save", "rewrite"} => Repairs(p)

DoctorInv ==
  /\ DoctorTypeOK
  /\ \A p \in Procs : JobOK(p) /\ ScanOK(p)
  /\ \A i, j \in Split : i = j
=============================================================================
