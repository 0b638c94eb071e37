------------------------------- MODULE Archive ------------------------------
(***************************************************************************)
(* `tg archive [--before DATE]` (cli/commands/archive.rs).  Under one lock *)
(* it moves items that are already done out of tasks.jsonl, one by one,    *)
(* and then, given a date, moves the items of archive.jsonl last updated   *)
(* before it to archive-pruned.jsonl.                                      *)
(*                                                                         *)
(* No command leaves a done item in tasks.jsonl, but the library's         *)
(* save_active writes any record, and so does an editor: it is for their   *)
(* items that the recovery exists.                                         *)
(***************************************************************************)
EXTENDS TaskStore

VARIABLES
  pruned,   (* archive-pruned.jsonl                           *)
  sweep     (* the progress of the lock holder's tg archive   *)

archiveVars == <<active, archive, events, events_archive, issued, lock, job,
                 crashes, pruned, sweep>>

SweepStage == {"idle", "recover", "tasks", "copy", "clear", "prune"}

(* `before` is the set of items last updated before the date, empty        *)
(* without one; `left` is what the stage has still to go through.          *)
Sweep ==
  [ stage:     SweepStage,
    before:    SUBSET Ids,
    left:      SUBSET Ids,
    id:        Ids \cup {None},
    recovered: SUBSET Ids ]

NoSweep ==
  [stage |-> "idle", before |-> {}, left |-> {}, id |-> None, recovered |-> {}]

Sweeping == sweep.stage # "idle"

ArchiveInit == Init /\ pruned = EmptyFile /\ sweep = NoSweep

-----------------------------------------------------------------------------
(* Store::save_active with a done item, by a caller of the library. *)
SaveDoneItem(p, i) ==
  /\ i \in DOMAIN active
  /\ active[i].status # "done"
  /\ SaveActive(p, [active EXCEPT ![i].status = "done"])
  /\ UNCHANGED issued

(* The done items, without those that an unfinished item has as parent. *)
RecoverableItems ==
  {i \in DOMAIN active :
     /\ active[i].status = "done"
     /\ \A c \in ActiveChildren(active, i) : active[c].status = "done"}

OldArchived(before) == before \cap DOMAIN archive

(* Faulty: what is to be pruned is not looked for among the dependencies. *)
RunArchive_Unchecked(p, before) ==
  /\ lock = None
  /\ RecoverableItems \cup OldArchived(before) # {}
  /\ lock' = p
  /\ sweep' = [ stage |-> "recover", before |-> before, left |-> RecoverableItems,
                id |-> None, recovered |-> {} ]
  /\ UNCHANGED <<files, issued, job, crashes, pruned>>

(* The command is refused while an active item depends on an old one; with *)
(* nothing to recover or to prune it is no step.                           *)
RunArchive(p, before) ==
  /\ lock = None
  /\ \A i \in OldArchived(before) : ActiveDependents(active, i) = {}
  /\ RecoverableItems \cup OldArchived(before) # {}
  /\ lock' = p
  /\ sweep' = [ stage |-> "recover", before |-> before, left |-> RecoverableItems,
                id |-> None, recovered |-> {} ]
  /\ UNCHANGED <<files, issued, job, crashes, pruned>>

(* The closure returns, after its last write or with an error. *)
EndSweep(p) == sweep' = NoSweep /\ Release(p)

SweepAt(p, stage) == lock = p /\ sweep.stage = stage

-----------------------------------------------------------------------------
(* commit_archive_recovery, first write; refused, it ends the command. *)
RecoverToArchive(p) ==
  /\ SweepAt(p, "recover")
  /\ \E i \in sweep.left :
        IF ValidateArchiveMove(RemoveItem(active, i), i)
        THEN /\ archive' = PutItem(archive, i, active[i])
             /\ sweep' = [sweep EXCEPT !.stage = "tasks", !.id = i, !.left = @ \ {i}]
             /\ UNCHANGED <<lock, job>>
        ELSE EndSweep(p) /\ UNCHANGED archive
  /\ UNCHANGED <<active, events, events_archive, issued, crashes, pruned>>

(* commit_archive_recovery, second write. *)
RecoverFromTasks(p) ==
  /\ SweepAt(p, "tasks")
  /\ active' = RemoveItem(active, sweep.id)
  /\ sweep' = [sweep EXCEPT !.stage = "copy", !.recovered = @ \cup {sweep.id}]
  /\ UNCHANGED <<archive, events, events_archive, issued, lock, job, crashes, pruned>>

(* move_for_task, as in a done commit; then on to the next item. *)
RecoverCopiesEvents(p) ==
  /\ SweepAt(p, "copy")
  /\ IF events[sweep.id] = None
     THEN /\ sweep' = [sweep EXCEPT !.stage = "recover", !.id = None]
          /\ UNCHANGED events_archive
     ELSE /\ sweep' = [sweep EXCEPT !.stage = "clear"]
          /\ events_archive' = [events_archive EXCEPT ![sweep.id] = events[sweep.id]]
  /\ UNCHANGED <<active, archive, events, issued, lock, job, crashes, pruned>>

RecoverClearsEvents(p) ==
  /\ SweepAt(p, "clear")
  /\ events' = [events EXCEPT ![sweep.id] = None]
  /\ sweep' = [sweep EXCEPT !.stage = "recover", !.id = None]
  /\ UNCHANGED <<active, archive, events_archive, issued, lock, job, crashes, pruned>>

(* Recovered items that are old enough are pruned along with the others. *)
StartPrune(p) ==
  /\ SweepAt(p, "recover")
  /\ sweep.left = {}
  /\ IF OldArchived(sweep.before) = {}
     THEN EndSweep(p)
     ELSE /\ sweep' = [sweep EXCEPT !.stage = "prune", !.left = OldArchived(sweep.before)]
          /\ UNCHANGED <<lock, job>>
  /\ UNCHANGED <<files, issued, crashes, pruned>>

(* append_to_archive on the pruned file: it takes no identifier twice, and *)
(* its refusal ends the command.  The model keeps no order of the lines of *)
(* a file: any of the items may be the next.                               *)
AppendPruned(p) ==
  /\ SweepAt(p, "prune")
  /\ \E i \in sweep.left :
        IF i \in DOMAIN pruned
        THEN EndSweep(p) /\ UNCHANGED pruned
        ELSE /\ pruned' = PutItem(pruned, i, archive[i])
             /\ sweep' = [sweep EXCEPT !.left = @ \ {i}]
             /\ UNCHANGED <<lock, job>>
  /\ UNCHANGED <<files, issued, crashes>>

(* Faulty: archive.jsonl is rewritten once one item has been appended. *)
RewriteArchive_Early(p) ==
  /\ SweepAt(p, "prune")
  /\ sweep.left # OldArchived(sweep.before)
  /\ archive' = [i \in DOMAIN archive \ sweep.before |-> archive[i]]
  /\ EndSweep(p)
  /\ UNCHANGED <<active, events, events_archive, issued, crashes, pruned>>

(* write_atomic with the items to keep, after all appends. *)
RewriteArchive(p) ==
  /\ SweepAt(p, "prune")
  /\ sweep.left = {}
  /\ archive' = [i \in DOMAIN archive \ sweep.before |-> archive[i]]
  /\ EndSweep(p)
  /\ UNCHANGED <<active, events, events_archive, issued, crashes, pruned>>

(* The process dies, or its next write fails. *)
SweepCrash(p) ==
  /\ lock = p
  /\ crashes < MaxCrashes
  /\ crashes' = crashes + 1
  /\ EndSweep(p)
  /\ UNCHANGED <<files, issued, pruned>>

-----------------------------------------------------------------------------
SweepStep(p) ==
  \/ RecoverToArchive(p)
  \/ RecoverFromTasks(p)
  \/ RecoverCopiesEvents(p)
  \/ RecoverClearsEvents(p)
  \/ StartPrune(p)
  \/ AppendPruned(p)
  \/ RewriteArchive(p)

ArchiveCommand(p) ==
  \/ \E before \in SUBSET Ids : RunArchive(p, before)
  \/ Sweeping /\ (SweepStep(p) \/ SweepCrash(p))

StoreStep(p) ==
  /\ ~Sweeping
  /\ \/ Command(p) \/ Write(p) \/ Crash(p)
     \/ \E i \in Ids : SaveDoneItem(p, i)
  /\ UNCHANGED <<pruned, sweep>>

ArchiveNext == \E p \in Procs : StoreStep(p) \/ ArchiveCommand(p)

ArchiveSpec == ArchiveInit /\ [][ArchiveNext]_archiveVars
-----------------------------------------------------------------------------
(* Every file holds valid records, and a recovery under way has an item. *)
ArchiveTypeOK ==
  /\ TypeOK
  /\ IsItemFile(pruned)
  /\ sweep \in Sweep
  /\ sweep.stage \in {"tasks", "copy", "clear"} => sweep.id \in Ids

(* The items of the archive that this command has put there. *)
Recovered == sweep.recovered \cup (IF sweep.stage = "tasks" THEN {sweep.id} ELSE {})

(* The items still to be recovered are active, and the one that is about   *)
(* to leave tasks.jsonl is archived; what the prune has dealt with is in   *)
(* the pruned file; and what was checked before the recoveries, that no    *)
(* active item depends on an old one, they have left true.                 *)
SweepOK ==
  /\ Sweeping => lock # None /\ \A p \in Procs : ~InProgress(p)
  /\ sweep.stage \in {"recover", "tasks", "copy", "clear"} =>
        sweep.left \subseteq DOMAIN active \ {sweep.id}
  /\ sweep.stage = "prune" =>
        \A i \in OldArchived(sweep.before) \ sweep.left :
           i \in DOMAIN pruned /\ pruned[i] = archive[i]
  /\ sweep.stage = "prune" => sweep.left \subseteq OldArchived(sweep.before)
  /\ sweep.stage = "tasks" =>
        /\ sweep.id \in DOMAIN active \cap DOMAIN archive
        /\ archive[sweep.id] = active[sweep.id]
  /\ Sweeping =>
        \A i \in OldArchived(sweep.before) \ Recovered : ActiveDependents(active, i) = {}

(* No record of a finished item is lost or altered on its way through the  *)
(* three files, whichever write is the last: a recovery takes it from      *)
(* tasks.jsonl when archive.jsonl has it (archive.rs:114), a prune from    *)
(* archive.jsonl when archive-pruned.jsonl has it (archive.rs:153), which  *)
(* keeps it for ever.                                                      *)
FinishedKept ==
  [][ /\ Sweeping => \A i \in DOMAIN active \ DOMAIN active' :
                        i \in DOMAIN archive' /\ archive'[i] = active[i]
      /\ \A i \in DOMAIN archive :
           \/ i \in DOMAIN archive' /\ archive'[i] = archive[i]
           \/ i \in DOMAIN pruned' /\ pruned'[i] = archive[i]
      /\ \A i \in DOMAIN pruned : i \in DOMAIN pruned' /\ pruned'[i] = pruned[i] ]_archiveVars

(* What leaves archive.jsonl has no active dependents at that write, as    *)
(* was checked before the recoveries (archive.rs:52-69).  The items this   *)
(* command has itself recovered were not checked and are excepted.         *)
PruneSparesDependencies ==
  [][ \A i \in DOMAIN archive \ (DOMAIN archive' \cup sweep.recovered) :
        ActiveDependents(active, i) = {} ]_archiveVars

=============================================================================
