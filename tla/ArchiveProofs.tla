---------------------------- MODULE ArchiveProofs ----------------------------
(***************************************************************************)
(* `tg archive` beside the other commands: what it prunes is kept and not  *)
(* needed, for every number of items, processes and crashes.  StoreInv is  *)
(* of no use here: it says that dependencies resolve, and a prune of what  *)
(* the same command has recovered breaks that.                             *)
(***************************************************************************)
EXTENDS TaskCommitProofs, Archive

(* A process takes on a commit of the right type. *)
Takes(p, c) ==
  /\ Begin(p, c)
  /\ IsJob(c) /\ WellFormed(c)
  /\ c.stage \in {"event", "tasks"}
  /\ issued' \in SUBSET Ids

(* Editing one field of one record keeps an item file an item file. *)
LEMMA EditedType ==
  ASSUME NEW f, IsItemFile(f), NEW i \in DOMAIN f
  PROVE  /\ \A deps \in SUBSET Ids : IsItemFile([f EXCEPT ![i].dependencies = deps])
         /\ \A parent \in Ids \cup {None} : IsItemFile([f EXCEPT ![i].parent = parent])
         /\ \A claim \in Agents : IsItemFile([f EXCEPT ![i].claimed_by = claim])
         /\ IsItemFile([f EXCEPT ![i].status = "done"])
<1>1. f[i] \in Item /\ "done" \in Status
  BY DEF IsItemFile, Status
<1>2. ASSUME NEW item \in Item PROVE IsItemFile([f EXCEPT ![i] = item])
  BY DEF IsItemFile
<1>3. ASSUME NEW deps \in SUBSET Ids PROVE [f[i] EXCEPT !.dependencies = deps] \in Item
  BY <1>1 DEF Item
<1>4. ASSUME NEW parent \in Ids \cup {None} PROVE [f[i] EXCEPT !.parent = parent] \in Item
  BY <1>1 DEF Item
<1>5. ASSUME NEW claim \in Agents PROVE [f[i] EXCEPT !.claimed_by = claim] \in Item
  BY <1>1 DEF Item
<1>6. [f[i] EXCEPT !.status = "done"] \in Item
  BY <1>1 DEF Item
<1> QED
  BY <1>2, <1>3, <1>4, <1>5, <1>6

(* The commit of a save. *)
LEMMA SaveCommit ==
  ASSUME NEW new, IsItemFile(new), NEW c, c = [NoJob EXCEPT !.stage = "tasks", !.tasks = new]
  PROVE  IsJob(c) /\ WellFormed(c) /\ c.stage = "tasks"
<1>1. /\ DOMAIN c = {"kind", "stage", "id", "item", "tasks"}
      /\ c.kind = "save" /\ c.stage = "tasks" /\ c.id = None /\ c.item = None /\ c.tasks = new
  BY DEF NoJob
<1>2. c = [kind |-> "save", stage |-> "tasks", id |-> None, item |-> None, tasks |-> new]
  BY <1>1 DEF NoJob
<1> QED
  BY <1>1, <1>2 DEF IsJob, WellFormed, Kind, Stage

(* Every command takes on a commit, whatever the files hold. *)
LEMMA CommandTakes ==
  ASSUME TypeOK, NEW p \in Procs,
         Command(p) \/ \E i \in Ids : SaveDoneItem(p, i)
  PROVE  \E c : Takes(p, c)
<1> DEFINE Taken == \E c : Takes(p, c)
<1>0. IsItemFile(active) /\ issued \in SUBSET Ids
  BY DEF TypeOK
<1>1. ASSUME NEW new, IsItemFile(new), SaveActive(p, new), issued' \in SUBSET Ids
      PROVE  Taken
  <2> DEFINE c == [NoJob EXCEPT !.stage = "tasks", !.tasks = new]
  <2>1. IsJob(c) /\ WellFormed(c) /\ c.stage = "tasks"
    BY <1>1, SaveCommit
  <2>2. Begin(p, c)
    BY <1>1 DEF SaveActive
  <2> HIDE DEF c
  <2> QED
    BY <1>1, <2>1, <2>2 DEF Takes
<1>2. ASSUME NEW i \in DOMAIN active, NEW item \in Item, CommitStatusChange(p, i, item)
      PROVE  Taken
  <2> DEFINE new == PutItem(active, i, item)
             c == [kind |-> "status", stage |-> "event", id |-> i, item |-> item, tasks |-> new]
  <2>1. i \in Ids /\ IsItemFile(new)
    BY <1>0, PutItemType DEF IsItemFile
  <2>2. Begin(p, c) /\ issued' = issued
    BY <1>2 DEF CommitStatusChange
  <2> HIDE DEF new
  <2>3. IsJob(c) /\ WellFormed(c) /\ c.stage \in {"event", "tasks"}
    BY <2>1 DEF IsJob, WellFormed, Kind, Stage
  <2> QED
    BY <1>0, <2>2, <2>3 DEF Takes
<1>3. ASSUME NEW i \in DOMAIN active, NEW item \in Item, CommitDone(p, i, item)
      PROVE  Taken
  <2> DEFINE new == RemoveItem(active, i)
             c == [kind |-> "done", stage |-> "event", id |-> i, item |-> item, tasks |-> new]
  <2>1. i \in Ids /\ IsItemFile(new)
    BY <1>0, RemoveItemType DEF IsItemFile
  <2>2. Begin(p, c) /\ issued' = issued
    BY <1>3 DEF CommitDone
  <2> HIDE DEF new
  <2>3. IsJob(c) /\ WellFormed(c) /\ c.stage \in {"event", "tasks"}
    BY <2>1 DEF IsJob, WellFormed, Kind, Stage
  <2> QED
    BY <1>0, <2>2, <2>3 DEF Takes
<1> HIDE DEF Taken
<1>4. ASSUME NEW i \in DOMAIN active PROVE active[i] \in Item
  BY <1>0 DEF IsItemFile
<1>5. ASSUME NEW i \in Ids, NEW deps \in SUBSET Ids, NEW parent \in Ids \cup {None},
             Add(p, i, deps, parent)
      PROVE  Taken
  <2> DEFINE base == PutItem(active, i, NewItem(deps, None))
  <2>1. IsItemFile(base) /\ i \in DOMAIN base
    <3>1. NewItem(deps, None) \in Item
      BY NewItemType
    <3> QED
      BY <1>0, <3>1, PutItemType DEF PutItem
  <2>2. SaveActive(p, [base EXCEPT ![i].parent = parent]) /\ issued' = issued \cup {i}
    BY <1>5 DEF Add
  <2> HIDE DEF base
  <2>3. IsItemFile([base EXCEPT ![i].parent = parent])
    BY <2>1, EditedType
  <2> QED
    BY <1>0, <1>1, <2>2, <2>3
<1>6. ASSUME NEW i \in Ids, NEW deps \in SUBSET Ids, NEW parent \in Ids \cup {None},
             Edit(p, i, deps, parent)
      PROVE  Taken
  <2> DEFINE half == [active EXCEPT ![i].dependencies = deps]
  <2>1. i \in DOMAIN active
    BY <1>6 DEF Edit
  <2>2. IsItemFile(half) /\ i \in DOMAIN half
    BY <1>0, <2>1, EditedType
  <2>3. SaveActive(p, [half EXCEPT ![i].parent = parent]) /\ issued' = issued
    BY <1>6 DEF Edit
  <2> HIDE DEF half
  <2>4. IsItemFile([half EXCEPT ![i].parent = parent])
    BY <2>2, EditedType
  <2> QED
    BY <1>0, <1>1, <2>3, <2>4
<1>7. ASSUME NEW i \in Ids, NEW claim \in Agents \cup {None}, Do(p, i, claim)
      PROVE  Taken
  <2>1. i \in DOMAIN active /\ CommitStatusChange(p, i, ApplyDo(active[i], claim))
    BY <1>7 DEF Do
  <2>2. ApplyDo(active[i], claim) \in Item
    BY <1>4, <2>1, TransitionType
  <2> QED
    BY <1>2, <2>1, <2>2
<1>8. ASSUME NEW i \in Ids, NEW claim \in Agents, Claim(p, i, claim)
      PROVE  Taken
  <2>1. /\ i \in DOMAIN active /\ issued' = issued
        /\ SaveActive(p, [active EXCEPT ![i].claimed_by = claim])
    BY <1>8 DEF Claim
  <2> QED
    BY <1>0, <1>1, <2>1, EditedType
<1>9. ASSUME NEW i \in Ids, SaveDoneItem(p, i) PROVE Taken
  <2>1. /\ i \in DOMAIN active /\ issued' = issued
        /\ SaveActive(p, [active EXCEPT ![i].status = "done"])
    BY <1>9 DEF SaveDoneItem
  <2> QED
    BY <1>0, <1>1, <2>1, EditedType
<1>10. ASSUME NEW i \in Ids, Rm(p, i) PROVE Taken
  BY <1>0, <1>1, <1>10, RemoveItemType DEF Rm
<1>11. ASSUME NEW i \in Ids, Todo(p, i) \/ Block(p, i) \/ Unblock(p, i) PROVE Taken
  <2>1. i \in DOMAIN active
    BY <1>11 DEF Todo, Block, Unblock
  <2>2. \E new \in {ApplyTodo(active[i]), ApplyBlock(active[i]), ApplyUnblock(active[i])} :
           CommitStatusChange(p, i, new)
    BY <1>11 DEF Todo, Block, Unblock
  <2>3. {ApplyTodo(active[i]), ApplyBlock(active[i]), ApplyUnblock(active[i])} \subseteq Item
    BY <1>4, <2>1, TransitionType
  <2> QED
    BY <1>2, <2>1, <2>2, <2>3
<1>12. ASSUME NEW i \in Ids, Done(p, i) PROVE Taken
  <2>1. i \in DOMAIN active /\ CommitDone(p, i, ApplyDone(active[i]))
    BY <1>12 DEF Done
  <2>2. ApplyDone(active[i]) \in Item
    BY <1>4, <2>1, TransitionType
  <2> QED
    BY <1>3, <2>1, <2>2
<1> QED
  BY <1>5, <1>6, <1>7, <1>8, <1>9, <1>10, <1>11, <1>12 DEF Command, Taken

-----------------------------------------------------------------------------
(***************************************************************************)
(* Types, and the lock: a sweep holds it like a commit.                    *)
(***************************************************************************)
(* Commits are of their type, and only the holder of the lock has one. *)
CommitsOK ==
  /\ DOMAIN job = Procs
  /\ \A p \in Procs : IsJob(job[p]) /\ WellFormed(job[p])
  /\ lock \in Procs \cup {None}
  /\ LockProtects

ArchiveInv == ArchiveTypeOK /\ CommitsOK /\ SweepOK

LEMMA NoJobType == IsJob(NoJob) /\ WellFormed(NoJob) /\ NoJob.stage = "idle"
  BY EmptyFileType DEF IsJob, NoJob, Kind, Stage, WellFormed

(* What is left of TypeOK once the commits are in order. *)
LEMMA TypesFollow ==
  ASSUME CommitsOK',
         IsItemFile(active'), IsItemFile(archive'),
         events' \in [Ids -> Status \cup {None}],
         events_archive' \in [Ids -> Status \cup {None}],
         issued' \in SUBSET Ids, crashes' \in 0..MaxCrashes
  PROVE  TypeOK'
<1>1. \A p \in Procs : job'[p].stage \notin {"idle", "tasks"} =>
         job'[p].id \in Ids /\ job'[p].item \in Item
  BY DEF CommitsOK, WellFormed, IsJob, Kind
<1> QED
  BY <1>1 DEF TypeOK, CommitsOK, IsItemFile

LEMMA CommitsFollow ==
  ASSUME CommitsOK, NEW p \in Procs, lock = p, NEW c, IsJob(c), WellFormed(c),
         job' = [job EXCEPT ![p] = c],
         \/ lock' = p
         \/ lock' = None /\ c.stage = "idle"
  PROVE  CommitsOK'
<1>1. /\ DOMAIN job' = Procs /\ job'[p] = c
      /\ \A q \in Procs \ {p} : job'[q] = job[q] /\ job'[q].stage = "idle"
  BY DEF CommitsOK, LockProtects, InProgress
<1>2. \A q \in Procs : IsJob(job'[q]) /\ WellFormed(job'[q])
  BY <1>1 DEF CommitsOK
<1>3. LockProtects'
  BY <1>1 DEF LockProtects, InProgress
<1>4. DOMAIN job' = Procs /\ lock' \in Procs \cup {None}
  BY <1>1
<1>5. CommitsOK'
  <2>1. \A q \in Procs : IsJob(job[q])' /\ WellFormed(job[q])'
    BY <1>2 DEF IsJob, WellFormed
  <2> QED
    BY <1>3, <1>4, <2>1 DEF CommitsOK
<1> QED
  BY <1>5

LEMMA ReleaseKeepsCommits ==
  ASSUME CommitsOK, NEW p \in Procs, lock = p, Release(p)
  PROVE  CommitsOK'
  BY NoJobType, CommitsFollow DEF Release

LEMMA AdvanceKeepsCommits ==
  ASSUME CommitsOK, NEW p \in Procs, lock = p, job[p].stage # "idle", Advance(p)
  PROVE  CommitsOK'
<1> DEFINE next == NextStage(job[p].kind, job[p].stage)
<1>1. CASE next = "idle"
  BY <1>1, ReleaseKeepsCommits DEF Advance
<1>2. CASE next # "idle"
  <2> DEFINE c == [job[p] EXCEPT !.stage = next]
  <2>1. lock' = p /\ job' = [job EXCEPT ![p] = c]
    BY <1>2 DEF Advance
  <2>2. IsJob(job[p]) /\ WellFormed(job[p])
    BY DEF CommitsOK
  <2>3. /\ next \in Stage
        /\ job[p].kind = "status" => next \in {"event", "tasks"}
        /\ job[p].kind # "save"
    BY <1>2, <2>2 DEF NextStage, Stage, WellFormed, IsJob, Kind
  <2> HIDE DEF next
  <2>4. /\ c.stage = next /\ c.kind = job[p].kind /\ c.id = job[p].id
        /\ c.item = job[p].item /\ c.tasks = job[p].tasks
        /\ c = [ kind |-> c.kind, stage |-> c.stage, id |-> c.id, item |-> c.item,
                 tasks |-> c.tasks ]
    BY <2>2 DEF IsJob
  <2> HIDE DEF c
  <2>5. IsJob(c) /\ WellFormed(c)
    BY <1>2, <2>2, <2>3, <2>4 DEF IsJob, WellFormed
  <2> QED
    BY <2>1, <2>5, CommitsFollow
<1> QED
  BY <1>1, <1>2

LEMMA StoreStepKeepsTypes ==
  ASSUME ArchiveInv, NEW p \in Procs, StoreStep(p)
  PROVE  TypeOK' /\ CommitsOK'
<1> USE DEF ArchiveInv, ArchiveTypeOK
<1>0. TypeOK /\ CommitsOK
  OBVIOUS
<1>1. ASSUME Command(p) \/ \E i \in Ids : SaveDoneItem(p, i)
      PROVE  TypeOK' /\ CommitsOK'
  <2>1. PICK c : Takes(p, c)
    BY <1>1, CommandTakes
  <2>2. /\ lock = None /\ lock' = p /\ job' = [job EXCEPT ![p] = c]
        /\ UNCHANGED files /\ crashes' = crashes /\ issued' \in SUBSET Ids
        /\ IsJob(c) /\ WellFormed(c)
    BY <2>1 DEF Takes, Begin
  <2>3. CommitsOK'
    <3>1. \A q \in Procs : job[q].stage = "idle"
      BY <2>2, NoneIsNoProc DEF CommitsOK, LockProtects, InProgress
    <3>2. /\ DOMAIN job' = Procs /\ job'[p] = c
          /\ \A q \in Procs \ {p} : job'[q] = job[q] /\ job'[q].stage = "idle"
      BY <2>2, <3>1 DEF CommitsOK
    <3>3. \A q \in Procs : IsJob(job'[q]) /\ WellFormed(job'[q])
      BY <2>2, <3>2 DEF CommitsOK
    <3>4. \A q \in Procs : IsJob(job[q])' /\ WellFormed(job[q])'
      BY <3>3 DEF IsJob, WellFormed
    <3>5. LockProtects' /\ lock' \in Procs \cup {None}
      BY <2>2, <3>2 DEF LockProtects, InProgress
    <3> QED
      BY <3>2, <3>4, <3>5 DEF CommitsOK
  <2>4. TypeOK'
    BY <1>0, <2>2, <2>3, TypesFollow DEF TypeOK, files
  <2> QED
    BY <2>3, <2>4
<1>2. ASSUME Write(p) \/ Crash(p)
      PROVE  lock = p /\ CommitsOK'
  <2>1. /\ lock = p
        /\ Release(p) \/ (Advance(p) /\ job[p].stage # "idle")
    BY <1>2 DEF Write, AppendEvent, AppendToArchive, WriteTasks, CopyEvents, ClearEvents,
                Crash, At
  <2> QED
    BY <2>1, ReleaseKeepsCommits, AdvanceKeepsCommits
<1>3. IsJob(job[p]) /\ IsItemFile(job[p].tasks)
  BY DEF CommitsOK, IsJob
<1>4. job[p].stage \notin {"idle", "tasks"} => job[p].id \in Ids /\ job[p].item \in Item
  BY DEF TypeOK
<1>5. ASSUME AppendEvent(p) PROVE TypeOK'
  <2>1. job[p].id \in Ids /\ job[p].item.status \in Status
    BY <1>4, <1>5 DEF AppendEvent, At, Item
  <2>2. events' \in [Ids -> Status \cup {None}]
    BY <1>5, <2>1 DEF AppendEvent, TypeOK
  <2> QED
    BY <1>2, <1>5, <2>2, TypesFollow DEF Write, AppendEvent, TypeOK
<1>6. ASSUME AppendToArchive(p) PROVE TypeOK'
  <2>1. IsItemFile(archive')
    BY <1>4, <1>6, PutItemType DEF AppendToArchive, At, TypeOK
  <2> QED
    BY <1>2, <1>6, <2>1, TypesFollow DEF Write, AppendToArchive, TypeOK, IsItemFile
<1>7. ASSUME WriteTasks(p) PROVE TypeOK'
  <2>1. IsItemFile(active')
    BY <1>3, <1>7 DEF WriteTasks
  <2> QED
    BY <1>2, <1>7, <2>1, TypesFollow DEF Write, WriteTasks, TypeOK, IsItemFile
<1>8. ASSUME CopyEvents(p) PROVE TypeOK'
  <2>1. job[p].id \in Ids
    BY <1>4, <1>8 DEF CopyEvents, At
  <2>2. events_archive' \in [Ids -> Status \cup {None}]
    BY <1>8, <2>1 DEF CopyEvents, TypeOK
  <2> QED
    BY <1>2, <1>8, <2>2, TypesFollow DEF Write, CopyEvents, TypeOK
<1>9. ASSUME ClearEvents(p) PROVE TypeOK'
  <2>1. events' \in [Ids -> Status \cup {None}]
    BY <1>9 DEF ClearEvents, TypeOK
  <2> QED
    BY <1>2, <1>9, <2>1, TypesFollow DEF Write, ClearEvents, TypeOK
<1>10. ASSUME Crash(p) PROVE TypeOK'
  <2>1. crashes' \in 0..MaxCrashes
    BY <1>10, CrashBound DEF Crash, TypeOK
  <2> QED
    BY <1>2, <1>10, <2>1, TypesFollow DEF Crash, TypeOK, files
<1> QED
  BY <1>1, <1>2, <1>5, <1>6, <1>7, <1>8, <1>9, <1>10 DEF StoreStep, Write

LEMMA StoreStepKeepsArchiveInv ==
  ASSUME ArchiveInv, NEW p \in Procs, StoreStep(p)
  PROVE  ArchiveInv'
<1>1. TypeOK' /\ CommitsOK'
  BY StoreStepKeepsTypes
<1>2. pruned' = pruned /\ sweep' = sweep /\ sweep.stage = "idle"
  BY DEF StoreStep, Sweeping
<1>3. ArchiveTypeOK'
  BY <1>1, <1>2 DEF ArchiveInv, ArchiveTypeOK, IsItemFile
<1>4. SweepOK'
  BY <1>2 DEF SweepOK, Sweeping
<1> QED
  BY <1>1, <1>3, <1>4 DEF ArchiveInv

-----------------------------------------------------------------------------
(***************************************************************************)
(* The steps of a sweep.                                                   *)
(***************************************************************************)
LEMMA NoSweepType == NoSweep \in Sweep /\ NoSweep.stage = "idle"
  BY DEF NoSweep, Sweep, SweepStage

(* A sweep that ends, however it does, leaves nothing to be said of it. *)
LEMMA EndKeepsArchiveInv ==
  ASSUME ArchiveInv, NEW p \in Procs, lock = p, EndSweep(p),
         UNCHANGED <<active, events, events_archive, issued, pruned>>,
         IsItemFile(archive'), crashes' \in 0..MaxCrashes
  PROVE  ArchiveInv'
<1>1. CommitsOK'
  BY ReleaseKeepsCommits DEF ArchiveInv, EndSweep
<1>2. TypeOK'
  BY <1>1, TypesFollow DEF ArchiveInv, ArchiveTypeOK, TypeOK, IsItemFile
<1>3. sweep' = NoSweep
  BY DEF EndSweep
<1>4. ArchiveTypeOK'
  BY <1>2, <1>3, NoSweepType DEF ArchiveInv, ArchiveTypeOK, IsItemFile
<1>5. SweepOK'
  BY <1>3, NoSweepType DEF SweepOK, Sweeping
<1> QED
  BY <1>1, <1>4, <1>5 DEF ArchiveInv

(* A step that goes on keeps the lock and touches no commit. *)
LEMMA SweepGoesOn ==
  ASSUME ArchiveInv, UNCHANGED <<lock, job, issued, crashes>>,
         IsItemFile(active'), IsItemFile(archive'), IsItemFile(pruned'),
         events' \in [Ids -> Status \cup {None}],
         events_archive' \in [Ids -> Status \cup {None}],
         sweep' \in Sweep,
         sweep'.stage \in {"tasks", "copy", "clear"} => sweep'.id \in Ids
  PROVE  ArchiveTypeOK' /\ CommitsOK'
<1>1. CommitsOK'
  BY DEF ArchiveInv, CommitsOK, LockProtects, InProgress, IsJob, WellFormed
<1>2. issued' \in SUBSET Ids /\ crashes' \in 0..MaxCrashes
  BY DEF ArchiveInv, ArchiveTypeOK, TypeOK
<1>3. TypeOK'
  BY <1>1, <1>2, TypesFollow
<1> QED
  BY <1>1, <1>3 DEF ArchiveTypeOK, IsItemFile

LEMMA RunKeepsArchiveInv ==
  ASSUME ArchiveInv, NEW p \in Procs, NEW before \in SUBSET Ids, RunArchive(p, before)
  PROVE  ArchiveInv'
<1> DEFINE s == [ stage |-> "recover", before |-> before, left |-> RecoverableItems,
                  id |-> None, recovered |-> {} ]
<1>1. /\ lock = None /\ lock' = p /\ sweep' = s
      /\ UNCHANGED files /\ UNCHANGED <<issued, job, crashes, pruned>>
      /\ \A i \in OldArchived(before) : ActiveDependents(active, i) = {}
  BY DEF RunArchive
<1>2. active' = active /\ archive' = archive /\ events' = events
      /\ events_archive' = events_archive
  BY <1>1 DEF files
<1>3. RecoverableItems \subseteq DOMAIN active /\ DOMAIN active \subseteq Ids
  BY DEF RecoverableItems, ArchiveInv, ArchiveTypeOK, TypeOK, IsItemFile
<1>4. s \in Sweep
  BY <1>3 DEF Sweep, SweepStage
<1>5. /\ s.stage = "recover" /\ s.left = RecoverableItems /\ s.before = before
      /\ s.recovered = {} /\ s.id = None
  OBVIOUS
<1> HIDE DEF s
<1>6. \A q \in Procs : ~InProgress(q)'
  BY <1>1, NoneIsNoProc DEF ArchiveInv, CommitsOK, LockProtects, InProgress
<1>7. CommitsOK'
  BY <1>1, <1>6 DEF ArchiveInv, CommitsOK, LockProtects, IsJob, WellFormed
<1>8. TypeOK'
  BY <1>1, <1>2, <1>7, TypesFollow DEF ArchiveInv, ArchiveTypeOK, TypeOK
<1>9. ArchiveTypeOK'
  BY <1>1, <1>4, <1>5, <1>8 DEF ArchiveInv, ArchiveTypeOK, IsItemFile
<1>10. SweepOK'
  <2>1. Recovered' = {}
    BY <1>1, <1>5 DEF Recovered
  <2>2. None \notin DOMAIN active
    BY <1>3, NoneIsFresh
  <2>3. \A i \in (OldArchived(sweep.before) \ Recovered)' : ActiveDependents(active', i) = {}
    BY <1>1, <1>2, <1>5, <2>1 DEF OldArchived
  <2> QED
    BY <1>1, <1>2, <1>3, <1>5, <1>6, <2>2, <2>3, NoneIsNoProc DEF SweepOK, Sweeping
<1> QED
  BY <1>7, <1>9, <1>10 DEF ArchiveInv

(* The record of a recovered item goes into the archive as it is; nothing  *)
(* is asked about what depends on it.                                      *)
LEMMA RecoverKeepsArchiveInv ==
  ASSUME ArchiveInv, NEW p \in Procs, RecoverToArchive(p)
  PROVE  ArchiveInv'
<1>1. /\ lock = p /\ sweep.stage = "recover"
      /\ UNCHANGED <<active, events, events_archive, issued, crashes, pruned>>
  BY DEF RecoverToArchive, SweepAt
<1>2. PICK i \in sweep.left :
        IF ValidateArchiveMove(RemoveItem(active, i), i)
        THEN /\ archive' = PutItem(archive, i, active[i])
             /\ sweep' = [sweep EXCEPT !.stage = "tasks", !.id = i, !.left = @ \ {i}]
             /\ UNCHANGED <<lock, job>>
        ELSE EndSweep(p) /\ UNCHANGED archive
  BY DEF RecoverToArchive
<1>3. CASE ~ValidateArchiveMove(RemoveItem(active, i), i)
  BY <1>1, <1>2, <1>3, EndKeepsArchiveInv DEF ArchiveInv, ArchiveTypeOK, TypeOK
<1>4. CASE ValidateArchiveMove(RemoveItem(active, i), i)
  <2> DEFINE s == [sweep EXCEPT !.stage = "tasks", !.id = i, !.left = @ \ {i}]
  <2>1. /\ archive' = PutItem(archive, i, active[i]) /\ sweep' = s
        /\ UNCHANGED <<lock, job>>
    BY <1>2, <1>4
  <2>2. /\ IsItemFile(active) /\ IsItemFile(archive) /\ sweep \in Sweep
        /\ sweep.left \subseteq DOMAIN active
    BY <1>1 DEF ArchiveInv, ArchiveTypeOK, TypeOK, SweepOK
  <2>3. i \in Ids /\ i \in DOMAIN active /\ active[i] \in Item
    BY <2>2 DEF IsItemFile
  <2>4. /\ s \in Sweep /\ s.stage = "tasks" /\ s.id = i /\ s.left = sweep.left \ {i}
        /\ s.before = sweep.before /\ s.recovered = sweep.recovered
    BY <2>2, <2>3 DEF Sweep, SweepStage
  <2> HIDE DEF s
  <2>5. IsItemFile(archive')
    BY <2>1, <2>2, <2>3, PutItemType
  <2>6. ArchiveTypeOK' /\ CommitsOK'
    <3>1. /\ IsItemFile(active') /\ IsItemFile(pruned')
          /\ events' \in [Ids -> Status \cup {None}]
          /\ events_archive' \in [Ids -> Status \cup {None}]
      BY <1>1 DEF ArchiveInv, ArchiveTypeOK, TypeOK
    <3> QED
      BY <1>1, <2>1, <2>3, <2>4, <2>5, <3>1, SweepGoesOn
  <2>7. SweepOK'
    <3>1. Recovered' = sweep.recovered \cup {i} /\ Recovered = sweep.recovered
      BY <1>1, <2>1, <2>4 DEF Recovered
    <3>2. OldArchived(sweep.before)' \subseteq OldArchived(sweep.before) \cup {i}
      BY <2>1, <2>4 DEF OldArchived, PutItem
    <3>3. \A j \in OldArchived(sweep.before) \ Recovered : ActiveDependents(active, j) = {}
      BY <1>1 DEF ArchiveInv, SweepOK, Sweeping
    <3>4. \A j \in (OldArchived(sweep.before) \ Recovered)' : ActiveDependents(active', j) = {}
      BY <1>1, <3>1, <3>2, <3>3
    <3>5. lock' # None /\ \A q \in Procs : ~InProgress(q)'
      BY <1>1, <2>1 DEF ArchiveInv, SweepOK, Sweeping, InProgress
    <3>6. sweep'.left \subseteq DOMAIN active' \ {sweep'.id}
      BY <1>1, <2>1, <2>2, <2>4
    <3>7. sweep'.id \in DOMAIN active' \cap DOMAIN archive' /\ archive'[sweep'.id] = active'[sweep'.id]
      BY <1>1, <2>1, <2>3, <2>4 DEF PutItem
    <3> QED
      BY <2>1, <2>4, <3>4, <3>5, <3>6, <3>7 DEF SweepOK, Sweeping
  <2> QED
    BY <2>6, <2>7 DEF ArchiveInv
<1> QED
  BY <1>3, <1>4

(* The rewrite of tasks.jsonl takes a dependent away and adds none. *)
LEMMA TakeOutKeepsArchiveInv ==
  ASSUME ArchiveInv, NEW p \in Procs, RecoverFromTasks(p)
  PROVE  ArchiveInv'
<1> DEFINE s == [sweep EXCEPT !.stage = "copy", !.recovered = @ \cup {sweep.id}]
<1>1. /\ lock = p /\ sweep.stage = "tasks" /\ sweep' = s
      /\ active' = RemoveItem(active, sweep.id)
      /\ UNCHANGED <<archive, events, events_archive, issued, lock, job, crashes, pruned>>
  BY DEF RecoverFromTasks, SweepAt
<1>2. sweep \in Sweep /\ sweep.id \in Ids /\ IsItemFile(active)
  BY <1>1 DEF ArchiveInv, ArchiveTypeOK, TypeOK
<1>3. /\ s \in Sweep /\ s.stage = "copy" /\ s.id = sweep.id /\ s.left = sweep.left
      /\ s.before = sweep.before /\ s.recovered = sweep.recovered \cup {sweep.id}
  BY <1>2 DEF Sweep, SweepStage
<1> HIDE DEF s
<1>4. ArchiveTypeOK' /\ CommitsOK'
  <2>1. /\ IsItemFile(active') /\ IsItemFile(archive') /\ IsItemFile(pruned')
        /\ events' \in [Ids -> Status \cup {None}]
        /\ events_archive' \in [Ids -> Status \cup {None}]
    BY <1>1, <1>2, RemoveItemType DEF ArchiveInv, ArchiveTypeOK, TypeOK
  <2> QED
    BY <1>1, <1>2, <1>3, <2>1, SweepGoesOn
<1>5. SweepOK'
  <2>1. Recovered' = Recovered /\ OldArchived(sweep.before)' = OldArchived(sweep.before)
    BY <1>1, <1>3 DEF Recovered, OldArchived
  <2>2. \A j : ActiveDependents(active', j) \subseteq ActiveDependents(active, j)
    BY <1>1 DEF ActiveDependents, RemoveItem
  <2>3. \A j \in (OldArchived(sweep.before) \ Recovered)' : ActiveDependents(active', j) = {}
    BY <1>1, <2>1, <2>2 DEF ArchiveInv, SweepOK, Sweeping
  <2>4. lock' # None /\ \A q \in Procs : ~InProgress(q)'
    BY <1>1 DEF ArchiveInv, SweepOK, Sweeping, InProgress
  <2>5. sweep'.left \subseteq DOMAIN active' \ {sweep'.id}
    BY <1>1, <1>3 DEF ArchiveInv, SweepOK, RemoveItem
  <2> QED
    BY <1>1, <1>3, <2>3, <2>4, <2>5 DEF SweepOK, Sweeping
<1> QED
  BY <1>4, <1>5 DEF ArchiveInv

(* The move of the events is none of the item files' business. *)
LEMMA MoveKeepsArchiveInv ==
  ASSUME ArchiveInv, NEW p \in Procs, RecoverCopiesEvents(p) \/ RecoverClearsEvents(p)
  PROVE  ArchiveInv'
<1>1. /\ lock = p /\ sweep.stage \in {"copy", "clear"}
      /\ UNCHANGED <<active, archive, issued, lock, job, crashes, pruned>>
  BY DEF RecoverCopiesEvents, RecoverClearsEvents, SweepAt
<1>2. sweep \in Sweep /\ sweep.id \in Ids /\ TypeOK
  BY <1>1 DEF ArchiveInv, ArchiveTypeOK
<1>3. /\ sweep' \in Sweep /\ sweep'.stage \in {"recover", "clear"}
      /\ sweep'.left = sweep.left /\ sweep'.before = sweep.before
      /\ sweep'.recovered = sweep.recovered
      /\ sweep'.id \in {sweep.id, None}
      /\ sweep'.stage = "clear" => sweep'.id = sweep.id
  <2>1. [sweep EXCEPT !.stage = "recover", !.id = None] \in Sweep
    BY <1>2 DEF Sweep, SweepStage
  <2>2. [sweep EXCEPT !.stage = "clear"] \in Sweep
    BY <1>2 DEF Sweep, SweepStage
  <2>3. CASE sweep' = [sweep EXCEPT !.stage = "recover", !.id = None]
    BY <1>2, <2>1, <2>3 DEF Sweep
  <2>4. CASE sweep' = [sweep EXCEPT !.stage = "clear"]
    BY <1>2, <2>2, <2>4 DEF Sweep
  <2> QED
    BY <2>3, <2>4 DEF RecoverCopiesEvents, RecoverClearsEvents
<1>4. /\ events' \in [Ids -> Status \cup {None}]
      /\ events_archive' \in [Ids -> Status \cup {None}]
  <2>1. CASE RecoverCopiesEvents(p)
    BY <1>2, <2>1 DEF RecoverCopiesEvents, TypeOK
  <2>2. CASE RecoverClearsEvents(p)
    BY <1>2, <2>2 DEF RecoverClearsEvents, TypeOK
  <2> QED
    BY <2>1, <2>2
<1>5. ArchiveTypeOK' /\ CommitsOK'
  <2>1. IsItemFile(active') /\ IsItemFile(archive') /\ IsItemFile(pruned')
    BY <1>1 DEF ArchiveInv, ArchiveTypeOK, TypeOK
  <2> QED
    BY <1>1, <1>2, <1>3, <1>4, <2>1, SweepGoesOn
<1>6. SweepOK'
  <2>1. Recovered' = Recovered /\ OldArchived(sweep.before)' = OldArchived(sweep.before)
    BY <1>1, <1>3 DEF Recovered, OldArchived
  <2>2. \A j \in (OldArchived(sweep.before) \ Recovered)' : ActiveDependents(active', j) = {}
    BY <1>1, <2>1 DEF ArchiveInv, SweepOK, Sweeping
  <2>3. lock' # None /\ \A q \in Procs : ~InProgress(q)'
    BY <1>1 DEF ArchiveInv, SweepOK, Sweeping, InProgress
  <2>4. None \notin DOMAIN active
    BY <1>2, NoneIsFresh DEF TypeOK, IsItemFile
  <2>5. sweep'.left \subseteq DOMAIN active' \ {sweep'.id}
    BY <1>1, <1>3, <2>4 DEF ArchiveInv, SweepOK
  <2> QED
    BY <1>3, <2>2, <2>3, <2>5 DEF SweepOK, Sweeping
<1> QED
  BY <1>5, <1>6 DEF ArchiveInv

(* The prune begins with everything still to do. *)
LEMMA StartKeepsArchiveInv ==
  ASSUME ArchiveInv, NEW p \in Procs, StartPrune(p)
  PROVE  ArchiveInv'
<1>1. /\ lock = p /\ sweep.stage = "recover" /\ UNCHANGED files
      /\ UNCHANGED <<issued, crashes, pruned>>
  BY DEF StartPrune, SweepAt
<1>2. /\ active' = active /\ archive' = archive
      /\ events' = events /\ events_archive' = events_archive
  BY <1>1 DEF files
<1>3. TypeOK /\ sweep \in Sweep
  BY DEF ArchiveInv, ArchiveTypeOK
<1>4. CASE OldArchived(sweep.before) = {}
  BY <1>1, <1>2, <1>3, <1>4, EndKeepsArchiveInv DEF StartPrune, TypeOK
<1>5. CASE OldArchived(sweep.before) # {}
  <2> DEFINE s == [sweep EXCEPT !.stage = "prune", !.left = OldArchived(sweep.before)]
  <2>1. sweep' = s /\ UNCHANGED <<lock, job>>
    BY <1>5 DEF StartPrune
  <2>2. OldArchived(sweep.before) \subseteq Ids
    BY <1>3 DEF OldArchived, Sweep
  <2>3. /\ s \in Sweep /\ s.stage = "prune" /\ s.left = OldArchived(sweep.before)
        /\ s.before = sweep.before /\ s.recovered = sweep.recovered
    BY <1>3, <2>2 DEF Sweep, SweepStage
  <2> HIDE DEF s
  <2>4. ArchiveTypeOK' /\ CommitsOK'
    <3>1. /\ IsItemFile(active') /\ IsItemFile(archive') /\ IsItemFile(pruned')
          /\ events' \in [Ids -> Status \cup {None}]
          /\ events_archive' \in [Ids -> Status \cup {None}]
      BY <1>1, <1>2 DEF ArchiveInv, ArchiveTypeOK, TypeOK
    <3> QED
      BY <1>1, <2>1, <2>3, <3>1, SweepGoesOn
  <2>5. SweepOK'
    <3>1. Recovered' = sweep.recovered /\ Recovered = sweep.recovered
      BY <1>1, <2>1, <2>3 DEF Recovered
    <3>2. OldArchived(sweep.before)' = OldArchived(sweep.before)
      BY <1>2, <2>1, <2>3 DEF OldArchived
    <3>3. \A j \in (OldArchived(sweep.before) \ Recovered)' : ActiveDependents(active', j) = {}
      BY <1>1, <1>2, <3>1, <3>2 DEF ArchiveInv, SweepOK, Sweeping
    <3>4. lock' # None /\ \A q \in Procs : ~InProgress(q)'
      BY <1>1, <2>1 DEF ArchiveInv, SweepOK, Sweeping, InProgress
    <3> QED
      BY <2>1, <2>3, <3>2, <3>3, <3>4 DEF SweepOK, Sweeping
  <2> QED
    BY <2>4, <2>5 DEF ArchiveInv
<1> QED
  BY <1>4, <1>5

(* What is appended to the pruned file is the archived record. *)
LEMMA PruneKeepsArchiveInv ==
  ASSUME ArchiveInv, NEW p \in Procs, AppendPruned(p)
  PROVE  ArchiveInv'
<1>1. /\ lock = p /\ sweep.stage = "prune" /\ UNCHANGED files
      /\ UNCHANGED <<issued, crashes>>
  BY DEF AppendPruned, SweepAt
<1>2. /\ active' = active /\ archive' = archive
      /\ events' = events /\ events_archive' = events_archive
  BY <1>1 DEF files
<1>3. TypeOK /\ sweep \in Sweep /\ IsItemFile(pruned)
  BY DEF ArchiveInv, ArchiveTypeOK
<1>4. PICK i \in sweep.left :
        IF i \in DOMAIN pruned
        THEN EndSweep(p) /\ UNCHANGED pruned
        ELSE /\ pruned' = PutItem(pruned, i, archive[i])
             /\ sweep' = [sweep EXCEPT !.left = @ \ {i}]
             /\ UNCHANGED <<lock, job>>
  BY DEF AppendPruned
<1>5. CASE i \in DOMAIN pruned
  BY <1>1, <1>2, <1>3, <1>4, <1>5, EndKeepsArchiveInv DEF TypeOK
<1>6. CASE i \notin DOMAIN pruned
  <2> DEFINE s == [sweep EXCEPT !.left = @ \ {i}]
  <2>1. /\ sweep' = s /\ UNCHANGED <<lock, job>>
        /\ pruned' = PutItem(pruned, i, archive[i])
    BY <1>4, <1>6
  <2>2. /\ s \in Sweep /\ s.stage = "prune" /\ s.left = sweep.left \ {i}
        /\ s.before = sweep.before /\ s.recovered = sweep.recovered
    BY <1>1, <1>3 DEF Sweep
  <2> HIDE DEF s
  <2>3. i \in OldArchived(sweep.before)
    BY <1>1 DEF ArchiveInv, SweepOK
  <2>4. i \in Ids /\ archive[i] \in Item
    BY <1>3, <2>3 DEF OldArchived, TypeOK, IsItemFile
  <2>5. ArchiveTypeOK' /\ CommitsOK'
    <3>1. /\ IsItemFile(active') /\ IsItemFile(archive')
          /\ events' \in [Ids -> Status \cup {None}]
          /\ events_archive' \in [Ids -> Status \cup {None}]
      BY <1>1, <1>2 DEF ArchiveInv, ArchiveTypeOK, TypeOK
    <3>2. IsItemFile(pruned')
      BY <1>3, <2>1, <2>4, PutItemType
    <3> QED
      BY <1>1, <2>1, <2>2, <3>1, <3>2, SweepGoesOn
  <2>6. SweepOK'
    <3>1. Recovered' = sweep.recovered /\ Recovered = sweep.recovered
      BY <1>1, <2>1, <2>2 DEF Recovered
    <3>2. OldArchived(sweep.before)' = OldArchived(sweep.before)
      BY <1>2, <2>1, <2>2 DEF OldArchived
    <3>3. \A j \in (OldArchived(sweep.before) \ Recovered)' : ActiveDependents(active', j) = {}
      BY <1>1, <1>2, <3>1, <3>2 DEF ArchiveInv, SweepOK, Sweeping
    <3>4. lock' # None /\ \A q \in Procs : ~InProgress(q)'
      BY <1>1, <2>1 DEF ArchiveInv, SweepOK, Sweeping, InProgress
    <3>5. ASSUME NEW j \in OldArchived(sweep.before) \ sweep'.left
          PROVE  j \in DOMAIN pruned' /\ pruned'[j] = archive[j]
      <4>1. CASE j = i
        BY <2>1, <4>1 DEF PutItem
      <4>2. CASE j # i
        <5>1. j \in DOMAIN pruned /\ pruned[j] = archive[j]
          BY <1>1, <2>1, <2>2, <3>5, <4>2 DEF ArchiveInv, SweepOK
        <5> QED
          BY <2>1, <4>2, <5>1 DEF PutItem
      <4> QED
        BY <4>1, <4>2
    <3>6. sweep'.left \subseteq OldArchived(sweep.before)
      BY <1>1, <2>1, <2>2 DEF ArchiveInv, SweepOK
    <3> QED
      BY <1>2, <2>1, <2>2, <3>2, <3>3, <3>4, <3>5, <3>6 DEF SweepOK, Sweeping
  <2> QED
    BY <2>5, <2>6 DEF ArchiveInv
<1> QED
  BY <1>5, <1>6

LEMMA SweepStepKeepsArchiveInv ==
  ASSUME ArchiveInv, NEW p \in Procs, ArchiveCommand(p)
  PROVE  ArchiveInv'
<1>1. ASSUME RewriteArchive(p) PROVE ArchiveInv'
  <2>1. IsItemFile(archive')
    BY <1>1 DEF RewriteArchive, ArchiveInv, ArchiveTypeOK, TypeOK, IsItemFile
  <2>2. crashes' \in 0..MaxCrashes
    BY <1>1 DEF RewriteArchive, ArchiveInv, ArchiveTypeOK, TypeOK
  <2> QED
    BY <1>1, <2>1, <2>2, EndKeepsArchiveInv DEF RewriteArchive, SweepAt
<1>2. ASSUME SweepCrash(p) PROVE ArchiveInv'
  <2>1. /\ lock = p /\ EndSweep(p) /\ crashes' \in 0..MaxCrashes
        /\ UNCHANGED <<active, events, events_archive, issued, pruned>>
        /\ IsItemFile(archive')
    BY <1>2, CrashBound DEF SweepCrash, files, ArchiveInv, ArchiveTypeOK, TypeOK
  <2> QED
    BY <2>1, EndKeepsArchiveInv
<1> QED
  BY <1>1, <1>2, RunKeepsArchiveInv, RecoverKeepsArchiveInv, TakeOutKeepsArchiveInv,
     MoveKeepsArchiveInv, StartKeepsArchiveInv, PruneKeepsArchiveInv
     DEF ArchiveCommand, SweepStep

-----------------------------------------------------------------------------
(***************************************************************************)
(* The theorems.                                                           *)
(***************************************************************************)
LEMMA InitArchive == ArchiveInit => ArchiveInv
<1> SUFFICES ASSUME ArchiveInit PROVE ArchiveInv
  OBVIOUS
<1>1. StoreInv /\ pruned = EmptyFile /\ sweep = NoSweep
  BY InitInv DEF ArchiveInit
<1>2. ArchiveTypeOK
  BY <1>1, NoSweepType, EmptyFileType DEF ArchiveTypeOK, StoreInv
<1>3. CommitsOK
  BY <1>1 DEF CommitsOK, StoreInv, TypeOK, JobsOK
<1>4. SweepOK
  BY <1>1, NoSweepType DEF SweepOK, Sweeping
<1> QED
  BY <1>2, <1>3, <1>4 DEF ArchiveInv

LEMMA NextArchive == ArchiveInv /\ [ArchiveNext]_archiveVars => ArchiveInv'
<1> SUFFICES ASSUME ArchiveInv, [ArchiveNext]_archiveVars PROVE ArchiveInv'
  OBVIOUS
<1>1. CASE UNCHANGED archiveVars
  <2>1. ArchiveTypeOK'
    BY <1>1 DEF archiveVars, ArchiveInv, ArchiveTypeOK, TypeOK
  <2>2. CommitsOK'
    BY <1>1 DEF archiveVars, ArchiveInv, CommitsOK, LockProtects, InProgress
  <2>3. SweepOK'
    BY <1>1 DEF archiveVars, ArchiveInv, SweepOK, Sweeping, InProgress, OldArchived, Recovered
  <2> QED
    BY <2>1, <2>2, <2>3 DEF ArchiveInv
<1> QED
  BY <1>1, StoreStepKeepsArchiveInv, SweepStepKeepsArchiveInv DEF ArchiveNext

(* Every behavior with tg archive keeps the invariant. *)
THEOREM ArchiveInvariant == ArchiveSpec => []ArchiveInv
  BY InitArchive, NextArchive, PTL DEF ArchiveSpec

(* Files, commits and sweeps hold values of their types, also when a done  *)
(* item has been saved and a dependency has been pruned (ArchiveTypeOK).   *)
THEOREM ArchiveTypes == ArchiveSpec => []ArchiveTypeOK
<1>1. ArchiveInv => ArchiveTypeOK
  BY DEF ArchiveInv
<1> QED
  BY <1>1, ArchiveInvariant, PTL

(* Every step of the store or of a sweep keeps what the archive has, but   *)
(* for the rewrite that ends a prune. *)
LEMMA ArchiveSteps ==
  ASSUME ArchiveInv, [ArchiveNext]_archiveVars
  PROVE  \/ /\ sweep.stage = "prune" /\ sweep.left = {} /\ pruned' = pruned
            /\ archive' = [i \in DOMAIN archive \ sweep.before |-> archive[i]]
         \/ /\ \A i \in DOMAIN archive : i \in DOMAIN archive' /\ archive'[i] = archive[i]
            /\ \A i \in DOMAIN pruned : i \in DOMAIN pruned' /\ pruned'[i] = pruned[i]
<1> DEFINE Kept(f, g) == \A i \in DOMAIN f : i \in DOMAIN g /\ g[i] = f[i]
<1>1. ASSUME NEW f, NEW i, i \notin DOMAIN f, NEW item PROVE Kept(f, PutItem(f, i, item))
  BY <1>1 DEF PutItem
<1>2. ASSUME NEW p \in Procs, StoreStep(p)
      PROVE  Kept(archive, archive') /\ Kept(pruned, pruned')
  <2>1. pruned' = pruned
    BY <1>2 DEF StoreStep
  <2>2. ASSUME AppendToArchive(p) PROVE Kept(archive, archive')
    BY <1>1, <2>2 DEF AppendToArchive
  <2>3. ASSUME AppendEvent(p) \/ WriteTasks(p) \/ CopyEvents(p) \/ ClearEvents(p) \/ Crash(p)
        PROVE  archive' = archive
    BY <2>3 DEF AppendEvent, WriteTasks, CopyEvents, ClearEvents, Crash, files
  <2>4. ASSUME Command(p) \/ \E i \in Ids : SaveDoneItem(p, i) PROVE archive' = archive
    <3>1. PICK c : Takes(p, c)
      BY <2>4, CommandTakes DEF ArchiveInv, ArchiveTypeOK
    <3> QED
      BY <3>1 DEF Takes, Begin, files
  <2> QED
    BY <1>2, <2>1, <2>2, <2>3, <2>4 DEF StoreStep, Write
<1>3. ASSUME NEW p \in Procs, RecoverToArchive(p)
      PROVE  Kept(archive, archive') /\ pruned' = pruned
  <2>1. PICK i \in sweep.left :
          IF ValidateArchiveMove(RemoveItem(active, i), i)
          THEN archive' = PutItem(archive, i, active[i])
          ELSE UNCHANGED archive
    BY <1>3 DEF RecoverToArchive
  <2>2. CASE ValidateArchiveMove(RemoveItem(active, i), i)
    BY <1>1, <1>3, <2>1, <2>2 DEF ValidateArchiveMove, RecoverToArchive
  <2> QED
    BY <1>3, <2>1, <2>2 DEF RecoverToArchive
<1>4. ASSUME NEW p \in Procs, AppendPruned(p)
      PROVE  archive' = archive /\ Kept(pruned, pruned')
  <2>1. PICK i \in sweep.left :
          IF i \in DOMAIN pruned THEN UNCHANGED pruned
                                 ELSE pruned' = PutItem(pruned, i, archive[i])
    BY <1>4 DEF AppendPruned
  <2>2. Kept(pruned, pruned')
    BY <1>1, <2>1
  <2> QED
    BY <1>4, <2>2 DEF AppendPruned, files
<1>5. ASSUME NEW p \in Procs, RewriteArchive(p)
      PROVE  /\ sweep.stage = "prune" /\ sweep.left = {} /\ pruned' = pruned
             /\ archive' = [i \in DOMAIN archive \ sweep.before |-> archive[i]]
  BY <1>5 DEF RewriteArchive, SweepAt
<1>6. ASSUME NEW p \in Procs,
             \/ \E before \in SUBSET Ids : RunArchive(p, before)
             \/ RecoverFromTasks(p) \/ RecoverCopiesEvents(p) \/ RecoverClearsEvents(p)
             \/ StartPrune(p) \/ SweepCrash(p)
      PROVE  archive' = archive /\ pruned' = pruned
  BY <1>6 DEF RunArchive, RecoverFromTasks, RecoverCopiesEvents, RecoverClearsEvents,
              StartPrune, SweepCrash, files
<1>7. CASE UNCHANGED archiveVars
  BY <1>7 DEF archiveVars
<1> QED
  BY <1>2, <1>3, <1>4, <1>5, <1>6, <1>7 DEF ArchiveNext, ArchiveCommand, SweepStep

(* During a sweep tasks.jsonl changes only by the rewrite that takes the   *)
(* archived item out.                                                      *)
LEMMA SweepTakesOut ==
  ASSUME Sweeping, [ArchiveNext]_archiveVars
  PROVE  \/ active' = active
         \/ /\ sweep.stage = "tasks" /\ archive' = archive
            /\ active' = RemoveItem(active, sweep.id)
<1>1. ASSUME NEW p \in Procs, RecoverFromTasks(p)
      PROVE  /\ sweep.stage = "tasks" /\ archive' = archive
             /\ active' = RemoveItem(active, sweep.id)
  BY <1>1 DEF RecoverFromTasks, SweepAt
<1>2. ASSUME NEW p \in Procs,
             \/ RecoverToArchive(p) \/ RecoverCopiesEvents(p) \/ RecoverClearsEvents(p)
             \/ StartPrune(p) \/ AppendPruned(p) \/ RewriteArchive(p) \/ SweepCrash(p)
             \/ \E before \in SUBSET Ids : RunArchive(p, before)
      PROVE  active' = active
  BY <1>2 DEF RecoverToArchive, RecoverCopiesEvents, RecoverClearsEvents, StartPrune,
              AppendPruned, RewriteArchive, SweepCrash, RunArchive, files
<1>3. ASSUME NEW p \in Procs, StoreStep(p) PROVE FALSE
  BY <1>3 DEF StoreStep
<1>4. CASE UNCHANGED archiveVars
  BY <1>4 DEF archiveVars
<1> QED
  BY <1>1, <1>2, <1>3, <1>4 DEF ArchiveNext, ArchiveCommand, SweepStep

(* No crash in a recovery or in a prune costs a record, and no second      *)
(* prune overwrites one (FinishedKept).                                    *)
THEOREM FinishedStay == ArchiveSpec => FinishedKept
<1>1. ASSUME ArchiveInv, [ArchiveNext]_archiveVars, Sweeping,
             NEW i \in DOMAIN active \ DOMAIN active'
      PROVE  i \in DOMAIN archive' /\ archive'[i] = active[i]
  <2>1. /\ sweep.stage = "tasks" /\ archive' = archive
        /\ active' = RemoveItem(active, sweep.id)
    BY <1>1, SweepTakesOut
  <2>2. i = sweep.id
    BY <1>1, <2>1 DEF RemoveItem
  <2> QED
    BY <1>1, <2>1, <2>2 DEF ArchiveInv, SweepOK
<1>2. ASSUME ArchiveInv, [ArchiveNext]_archiveVars
      PROVE  /\ \A i \in DOMAIN archive :
                  \/ i \in DOMAIN archive' /\ archive'[i] = archive[i]
                  \/ i \in DOMAIN pruned' /\ pruned'[i] = archive[i]
             /\ \A i \in DOMAIN pruned : i \in DOMAIN pruned' /\ pruned'[i] = pruned[i]
  <2>1. CASE /\ sweep.stage = "prune" /\ sweep.left = {} /\ pruned' = pruned
             /\ archive' = [i \in DOMAIN archive \ sweep.before |-> archive[i]]
    <3>1. \A i \in sweep.before \cap DOMAIN archive : i \in DOMAIN pruned /\ pruned[i] = archive[i]
      BY <1>2, <2>1 DEF ArchiveInv, SweepOK, OldArchived
    <3> QED
      BY <2>1, <3>1
  <2> QED
    BY <1>2, <2>1, ArchiveSteps
<1>3. ArchiveInv /\ [ArchiveNext]_archiveVars
        => [ /\ Sweeping => \A i \in DOMAIN active \ DOMAIN active' :
                               i \in DOMAIN archive' /\ archive'[i] = active[i]
             /\ \A i \in DOMAIN archive :
                  \/ i \in DOMAIN archive' /\ archive'[i] = archive[i]
                  \/ i \in DOMAIN pruned' /\ pruned'[i] = archive[i]
             /\ \A i \in DOMAIN pruned : i \in DOMAIN pruned' /\ pruned'[i] = pruned[i]
           ]_archiveVars
  BY <1>1, <1>2
<1> QED
  BY <1>3, ArchiveInvariant, PTL DEF ArchiveSpec, FinishedKept

(* A prune takes nothing an active item depends on, but for what the same  *)
(* command has recovered (PruneSparesDependencies).                        *)
THEOREM PrunesSpare == ArchiveSpec => PruneSparesDependencies
<1>1. ArchiveInv /\ [ArchiveNext]_archiveVars
        => [ \A i \in DOMAIN archive \ (DOMAIN archive' \cup sweep.recovered) :
                ActiveDependents(active, i) = {} ]_archiveVars
  <2> SUFFICES ASSUME ArchiveInv, [ArchiveNext]_archiveVars,
                      NEW i \in DOMAIN archive \ (DOMAIN archive' \cup sweep.recovered)
               PROVE  ActiveDependents(active, i) = {}
    OBVIOUS
  <2>1. /\ sweep.stage = "prune"
        /\ archive' = [j \in DOMAIN archive \ sweep.before |-> archive[j]]
    BY ArchiveSteps
  <2>2. i \in OldArchived(sweep.before) \ Recovered
    BY <2>1 DEF OldArchived, Recovered
  <2> QED
    BY <2>1, <2>2 DEF ArchiveInv, SweepOK, Sweeping
<1> QED
  BY <1>1, ArchiveInvariant, PTL DEF ArchiveSpec, PruneSparesDependencies
=============================================================================
