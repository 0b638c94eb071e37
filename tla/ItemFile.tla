------------------------------ MODULE ItemFile ------------------------------
(***************************************************************************)
(* The item files line by line (store/jsonl.rs): what the readers make of  *)
(* damaged lines, and how a record gets to the end of archive.jsonl in     *)
(* several writes, any of which may be the last one of its process.        *)
(*                                                                         *)
(* tasks.jsonl is always replaced as a whole.  archive.jsonl is appended   *)
(* to: its last line is kept apart while no newline ends it.  The order of *)
(* the other lines, and blank ones, mean nothing to any reader.            *)
(***************************************************************************)
EXTENDS TaskGraph, Naturals, FiniteSets

CONSTANTS
  BadId,       (* an identifier that is no canonical UUIDv7              *)
  Procs,       (* the concurrent tg processes                            *)
  MaxCrashes,  (* bound: how many commits are cut short in a behavior    *)
  MaxTasks     (* bound: none is added to so many tasks                  *)

ASSUME ItemFileAssumption ==
  /\ MaxCrashes \in Nat /\ MaxTasks \in Nat
  /\ None \notin Procs
  /\ BadId \notin Ids \cup {None}

VARIABLES
  tasks,     (* tasks.jsonl, a set of lines                                *)
  archive,   (* the lines of archive.jsonl that end with a newline         *)
  last,      (* its last line if no newline ends it, or None               *)
  lock,      (* the holder of tasks.lock, or None                          *)
  job,       (* per process, the commit it is carrying out                 *)
  crashes    (* commits cut short so far                                   *)

files == <<tasks, archive, last>>
fileVars == <<tasks, archive, last, lock, job, crashes>>

(***************************************************************************)
(* Lines.  A record is an item of this program.  Two other kinds still     *)
(* have an identifier: a foreign record has a field that is none of an     *)
(* item's and no extension (validate_extensions), an identity is otherwise *)
(* no item, for one with an unknown status.  A misnamed record is an item  *)
(* whose identifier is no canonical UUIDv7 (validate_id); no command can   *)
(* name it.  Nothing can be read from a fragment, and a garbled line ends  *)
(* inside a UTF-8 character.  A good first line is left out: a bad header  *)
(* is one that is blank or JSON, but no {"schema_version": 1}.             *)
(***************************************************************************)
Record(i, item) == [kind |-> "record", id |-> i, item |-> item]
Foreign(i, item) == [kind |-> "foreign", id |-> i, item |-> item]
Identity(i) == [kind |-> "identity", id |-> i, item |-> None]
Misnamed(item) == [kind |-> "misnamed", id |-> BadId, item |-> item]
Fragment == [kind |-> "fragment", id |-> None, item |-> None]
Garbled == [kind |-> "garbled", id |-> None, item |-> None]
BadHeader == [kind |-> "header", id |-> None, item |-> None]

Line ==
  {Record(i, item) : i \in Ids, item \in Item}
    \cup {Foreign(i, item) : i \in Ids, item \in Item}
    \cup {Identity(i) : i \in Ids}
    \cup {Misnamed(item) : item \in Item}
    \cup {Fragment, Garbled, BadHeader}

(* What a file can hold. *)
Lines == {lines \in SUBSET Line : IsFiniteSet(lines)}

ASSUME NoneIsNoLine == None \notin Line

Kinds(lines) == {l.kind : l \in lines}
IdsOf(lines) == {l.id : l \in lines}
OfKind(lines, kinds) == {l \in lines : l.kind \in kinds}

(* Two texts on one line are no JSON. *)
Glue(front, rest) ==
  IF Garbled \in {front, rest} THEN Garbled ELSE Fragment

ArchiveLines == archive \cup ({last} \ {None})

-----------------------------------------------------------------------------
(***************************************************************************)
(* The readers.                                                            *)
(***************************************************************************)
UniqueIds(lines) == Cardinality(IdsOf(lines)) = Cardinality(lines)

(* validate_item_ids *)
ValidItemIds(lines) == "misnamed" \notin Kinds(lines) /\ UniqueIds(lines)

(* read_active, and read_archive_strict: any damage is an error, but the   *)
(* identifiers are not looked at.                                          *)
AllRecords(lines) == Kinds(lines) \subseteq {"record", "misnamed"}

(* read_archive: damaged lines are skipped.  Like the other readers it     *)
(* returns nothing under a bad header, but neither can a command write.    *)
ReadArchive(lines) == OfKind(lines, {"record", "misnamed"})

(* read_archive_ids: what has an identifier counts, and fragments are      *)
(* skipped; a bad header and an invalid identifier are errors, and so is a *)
(* garbled line, as the file is read as one string.                        *)
Identified(lines) == OfKind(lines, {"record", "foreign", "identity"})

ArchiveIdsLoad(lines) ==
  /\ Kinds(lines) \subseteq {"record", "foreign", "identity", "fragment"}
  /\ UniqueIds(Identified(lines))

ArchiveIds(lines) == IdsOf(Identified(lines))

-----------------------------------------------------------------------------
(***************************************************************************)
(* The validations of store/mod.rs, on lines.                              *)
(***************************************************************************)
(* Faulty: the two files may share identifiers. *)
DisjointIds_Unchecked(ids, others) == TRUE

(* ensure_disjoint_ids *)
DisjointIds(ids, others) == ids \cap others = {}

Dependents(lines, i) ==
  {l \in lines : l.id # i /\ i \in l.item.dependencies}

DependenciesKnown(lines, archived) ==
  \A l \in lines : l.item.dependencies \subseteq IdsOf(lines) \cup archived

ValidateActiveWrite(new) ==
  /\ ValidItemIds(new)
  /\ AllRecords(tasks)
  /\ ArchiveIdsLoad(ArchiveLines)
  /\ DisjointIds(IdsOf(new), ArchiveIds(ArchiveLines))
  /\ \A i \in IdsOf(tasks) \ (IdsOf(new) \cup ArchiveIds(ArchiveLines)) :
        Dependents(tasks, i) = {}
  /\ DependenciesKnown(new, ArchiveIds(ArchiveLines))

ValidateArchiveMove(new, i) ==
  /\ ValidItemIds(new)
  /\ i \in Ids
  /\ i \notin IdsOf(new)
  /\ ArchiveIdsLoad(ArchiveLines)
  /\ DisjointIds(IdsOf(new), ArchiveIds(ArchiveLines))
  /\ DisjointIds({i}, ArchiveIds(ArchiveLines))
  /\ DependenciesKnown(new, ArchiveIds(ArchiveLines) \cup {i})

-----------------------------------------------------------------------------
NoJob == [stage |-> "idle", new |-> {}, line |-> None, removes |-> {}]

InProgress(p) == job[p].stage # "idle"

FilesInit(t, a, l) ==
  /\ tasks = t
  /\ archive = a
  /\ last = l
  /\ lock = None
  /\ job = [p \in Procs |-> NoJob]
  /\ crashes = 0

Begin(p, commit) ==
  /\ lock = None
  /\ lock' = p
  /\ job' = [job EXCEPT ![p] = commit]
  /\ UNCHANGED <<files, crashes>>

Release(p) ==
  /\ lock' = None
  /\ job' = [job EXCEPT ![p] = NoJob]

(* save_active *)
SaveActive(p, new, removes) ==
  /\ ValidateActiveWrite(new)
  /\ Begin(p, [NoJob EXCEPT !.stage = "tasks", !.new = new, !.removes = removes])

(* Faulty: the next record follows whatever the last write has left. *)
AppendStage_AsItIs == "record"

(* needs_leading_newline *)
AppendStage == IF last = None THEN "record" ELSE "newline"

(* tg add. *)
Add(p, i, deps) ==
  /\ AllRecords(tasks)
  /\ i \notin IdsOf(tasks) \cup ArchiveIds(ArchiveLines)
  /\ Cardinality(IdsOf(tasks) \cup ArchiveIds(ArchiveLines)) < MaxTasks
  /\ SaveActive(p, tasks \cup {Record(i, NewItem(deps, None))}, {})

(* tg rm. *)
Rm(p, i) ==
  /\ AllRecords(tasks)
  /\ i \in IdsOf(tasks)
  /\ \A l \in tasks : l.item.parent # i
  /\ Dependents(tasks, i) = {}
  /\ SaveActive(p, {l \in tasks : l.id # i}, {i})

(* tg done, of which only the writes of item files are modelled here. *)
Done(p, l) ==
  /\ AllRecords(tasks)
  /\ l \in tasks
  /\ CanTransitionTo(l.item.status, "done")
  /\ ValidateArchiveMove(tasks \ {l}, l.id)
  /\ Begin(p, [NoJob EXCEPT !.stage = AppendStage,
                            !.new = tasks \ {l},
                            !.line = Record(l.id, ApplyDone(l.item))])

-----------------------------------------------------------------------------
(***************************************************************************)
(* The writes of the lock holder.                                          *)
(***************************************************************************)
At(p, stage) == lock = p /\ job[p].stage = stage

On(p, stage) ==
  /\ job' = [job EXCEPT ![p].stage = stage]
  /\ UNCHANGED <<lock, crashes>>

EndLastLine ==
  /\ archive' = archive \cup {last}
  /\ last' = None
  /\ UNCHANGED tasks

AppendText(text) ==
  /\ last' = IF last = None THEN text ELSE Glue(last, text)
  /\ UNCHANGED <<tasks, archive>>

WriteLeadingNewline(p) == At(p, "newline") /\ EndLastLine /\ On(p, "record")

WriteRecord(p) == At(p, "record") /\ AppendText(job[p].line) /\ On(p, "end")

WriteNewline(p) == At(p, "end") /\ EndLastLine /\ On(p, "tasks")

(* write_atomic *)
WriteTasks(p) ==
  /\ At(p, "tasks")
  /\ tasks' = job[p].new
  /\ Release(p)
  /\ UNCHANGED <<archive, last, crashes>>

Crash(p) ==
  /\ lock = p
  /\ crashes < MaxCrashes
  /\ crashes' = crashes + 1
  /\ Release(p)

(* The process dies, or its disk is full, before its next write ... *)
CrashBetweenWrites(p) == Crash(p) /\ UNCHANGED files

(* ... or in the midst of the record, of which a piece is left behind. *)
CrashInRecord(p, piece) ==
  At(p, "record") /\ Crash(p) /\ AppendText(piece)

StoreStep(p) ==
  \/ \E i \in Ids :
        \/ \E deps \in SUBSET IdsOf(tasks) : Add(p, i, deps)
        \/ Rm(p, i)
  \/ \E l \in tasks : Done(p, l)
  \/ WriteLeadingNewline(p)
  \/ WriteRecord(p)
  \/ WriteNewline(p)
  \/ WriteTasks(p)
  \/ CrashBetweenWrites(p)
  \/ \E piece \in {Fragment, Garbled} : CrashInRecord(p, piece)
-----------------------------------------------------------------------------
(***************************************************************************)
(* Properties.                                                             *)
(***************************************************************************)
(* The tasks whose records are in one of the files. *)
KnownRecords == IdsOf(ReadArchive(tasks)) \cup IdsOf(ReadArchive(ArchiveLines))

(* The identifiers in both files. *)
Split == IdsOf(tasks) \cap ArchiveIds(ArchiveLines)

(* However the files were damaged, at most one item is in both of them if  *)
(* none was at the start: every later write is refused until it is gone.   *)
AtMostOneSplit == Cardinality(Split) <= 1
=============================================================================
