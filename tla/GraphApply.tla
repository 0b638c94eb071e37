----------------------------- MODULE GraphApply -----------------------------
(***************************************************************************)
(* `tg apply`: a whole graph of new items created by one write of          *)
(* tasks.jsonl (store/graph_apply.rs, model/graph.rs).                     *)
(*                                                                         *)
(* Unlike the other commands it does not go through save_active: it judges *)
(* the store it loads by a validation of its own, stricter than any other, *)
(* and the store it is about to write by a full search for cycles.         *)
(***************************************************************************)
EXTENDS TaskStoreInv

(* What a request asks of one new item: the edges are references to items  *)
(* of the request, here already mapped to their new identifiers, or to     *)
(* existing items.                                                         *)
RequestItem == [dependencies: SUBSET Ids, parent: Ids \cup {None}]

FreshIds == Ids \ (Known \cup issued)

(* A request has at least one item, and fresh identifiers for all.         *)
Requests == UNION {[S -> RequestItem] : S \in (SUBSET FreshIds) \ {{}}}

(***************************************************************************)
(* validate_snapshot, of the active items it is given and the archive:     *)
(* identifiers are unique across both files, every edge of an active item  *)
(* leads somewhere, a parent to an active item, and neither relation has a *)
(* cycle.                                                                  *)
(***************************************************************************)
UniqueIdentities(items) == DOMAIN items \cap DOMAIN archive = {}

(* detect_all_parent_cycles and detect_all_cycles find none. *)
ParentCycleFree(items) == Acyclic(ParentEdges(items))

DependencyCycleFree(items) == Acyclic(DependencyEdges(items))

(* Faulty: a dependency on an archived item counts as missing. *)
EdgesLead_ActiveOnly(items) ==
  \A i \in DOMAIN items :
     /\ items[i].parent \in (DOMAIN items \ {i}) \cup {None}
     /\ items[i].dependencies \subseteq DOMAIN items \ {i}

EdgesLead(items) ==
  \A i \in DOMAIN items :
     /\ items[i].parent \in (DOMAIN items \ {i}) \cup {None}
     /\ items[i].dependencies \subseteq (DOMAIN items \cup DOMAIN archive) \ {i}

StrictSnapshot(items) ==
  /\ UniqueIdentities(items)
  /\ EdgesLead(items)
  /\ ParentCycleFree(items)
  /\ DependencyCycleFree(items)

(* resolve_target: an archived item is a valid dependency only with the    *)
(* status that proves its completion, and never a valid parent.            *)
DependencyTargets(request) ==
  DOMAIN request \cup DOMAIN active \cup {i \in DOMAIN archive : archive[i].status = "done"}

ParentTargets(request) == DOMAIN request \cup DOMAIN active

ResolveItems(request) ==
  \A i \in DOMAIN request :
     /\ request[i].dependencies \subseteq DependencyTargets(request) \ {i}
     /\ request[i].parent \in (ParentTargets(request) \ {i}) \cup {None}

(* Faulty: the edges within the request are left out. *)
ProposedActive_NoLocalEdges(request) ==
  [i \in DOMAIN active \cup DOMAIN request |->
     IF i \in DOMAIN request
     THEN NewItem(request[i].dependencies \ DOMAIN request, request[i].parent)
     ELSE active[i]]

(* The new items beside the ones that are there, which stay as they are. *)
ProposedActive(request) ==
  [i \in DOMAIN active \cup DOMAIN request |->
     IF i \in DOMAIN request
     THEN NewItem(request[i].dependencies, request[i].parent)
     ELSE active[i]]

ValidProposedGraph(proposed) ==
  /\ ParentCycleFree(proposed)
  /\ DependencyCycleFree(proposed)

(* tg apply, under one lock. *)
ApplyGraph(p, request) ==
  /\ DOMAIN request # {}
  /\ DOMAIN request \subseteq FreshIds
  /\ StrictSnapshot(active)
  /\ ResolveItems(request)
  /\ ValidProposedGraph(ProposedActive(request))
  /\ Begin(p, [NoJob EXCEPT !.stage = "tasks", !.tasks = ProposedActive(request)])
  /\ issued' = issued \cup DOMAIN request

ApplyNext == \E p \in Procs, request \in Requests : ApplyGraph(p, request)

(* The store with the command added. *)
GraphApplySpec == Init /\ [][Next \/ ApplyNext]_vars
-----------------------------------------------------------------------------
(* The active items whose parent was archived before them, which is not    *)
(* forbidden (transition.rs:131) and which validate_snapshot refuses.      *)
Orphans == {i \in DOMAIN active : active[i].parent \in DOMAIN archive}

WithoutParent(i) == [active EXCEPT ![i].parent = None]

Mended ==
  [i \in DOMAIN active |-> IF i \in Orphans THEN WithoutParent(i)[i] ELSE active[i]]

(* The refusal of tg apply for an archived parent is no dead end: as long  *)
(* as no item is in both files, every `tg edit --parent-clear` of such a   *)
(* child is accepted by the save it makes, and when all are made the store *)
(* passes validate_snapshot, whatever commands and crashes led to it.  The *)
(* items are those of intact files: what read_archive_strict says of a cut *)
(* line of archive.jsonl, or of a dependency that was pruned, is not here. *)
EditsMendRefusal ==
  Split = {} =>
    /\ \A i \in Orphans : ValidateActiveWrite(WithoutParent(i))
    /\ StrictSnapshot(Mended)
=============================================================================
