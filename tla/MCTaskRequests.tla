--------------------------- MODULE MCTaskRequests ---------------------------
(***************************************************************************)
(* A small instance of TaskRequests for TLC, with the commands that change *)
(* the relations between items and the set of items: it allows more items  *)
(* than the full command set does.                                         *)
(***************************************************************************)
EXTENDS TaskRequests, TLC

Symmetry == Permutations(Ids) \cup Permutations(Agents) \cup Permutations(Procs)

EditOrDone(p) ==
  \E i \in Ids :
     \/ \E deps \in SUBSET Ids, parent \in Ids \cup {None} : Edit(p, i, deps, parent)
     \/ Done(p, i)

GraphNext ==
  \E p \in Procs :
     \/ AskNewItems(p)
     \/ \E i \in Ids : AskRm(p, i)
     \/ EditOrDone(p) /\ asked' = NoRequest
     \/ GoOn(p)

GraphSpec == RequestInit /\ [][GraphNext]_requestVars
=============================================================================
