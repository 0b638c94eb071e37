------------------------ MODULE TaskStoreRefinement ------------------------
(***************************************************************************)
(* The task store implements the task board.  A task's record is that of   *)
(* archive.jsonl when there is one and that of tasks.jsonl otherwise, so a *)
(* commit takes effect at one write: done at its archive append, every     *)
(* other commit at the rename of tasks.jsonl.  All other writes, and every *)
(* crash, are invisible.                                                   *)
(***************************************************************************)
EXTENDS TaskStore

BoardOf(activeItems, archivedItems) ==
  [i \in DOMAIN activeItems \cup DOMAIN archivedItems |->
     IF i \in DOMAIN archivedItems THEN archivedItems[i] ELSE activeItems[i]]

Board == INSTANCE TaskBoard WITH board <- BoardOf(active, archive)

(* Every behavior of the store, with all its interleavings and crashes, is *)
(* one of the board: each command happens entirely, once, or not at all.   *)
ImplementsBoard == Board!Spec
=============================================================================
