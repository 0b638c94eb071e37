------------------------------ MODULE MCArchive -----------------------------
(***************************************************************************)
(* Small instances of Archive for TLC: beside tg archive, the commands     *)
(* that add, remove, finish and archive items; edits of relations are left *)
(* out, an added item comes with any.                                      *)
(***************************************************************************)
EXTENDS Archive, TLC

Symmetry == Permutations(Ids) \cup Permutations(Agents) \cup Permutations(Procs)

ItemCommand(p) ==
  \E i \in Ids :
     \/ \E deps \in SUBSET Ids, parent \in Ids \cup {None} : Add(p, i, deps, parent)
     \/ Rm(p, i)
     \/ Done(p, i)
     \/ SaveDoneItem(p, i)

ItemStep(p) ==
  /\ ~Sweeping
  /\ ItemCommand(p) \/ Write(p) \/ Crash(p)
  /\ UNCHANGED <<pruned, sweep>>

MCArchiveNext == \E p \in Procs : ItemStep(p) \/ ArchiveCommand(p)

MCArchiveSpec == ArchiveInit /\ [][MCArchiveNext]_archiveVars
=============================================================================
