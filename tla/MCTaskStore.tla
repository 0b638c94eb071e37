---------------------------- MODULE MCTaskStore ----------------------------
(***************************************************************************)
(* A small instance of TaskStore and of its refinement for TLC.            *)
(***************************************************************************)
EXTENDS TaskStoreRefinement, TaskStoreInv, TLC

Symmetry == Permutations(Ids) \cup Permutations(Agents) \cup Permutations(Procs)
=============================================================================
