----------------------------- MODULE TaskGraph ------------------------------
(***************************************************************************)
(* The two relations between items, `dependencies` and `parent`, and the   *)
(* checks the program makes on them (model/deps.rs).  A set of items is a  *)
(* function from the identifiers present to their records: what a JSONL    *)
(* file holds once the uniqueness of identifiers has been validated.       *)
(***************************************************************************)
EXTENDS TaskItem

(* A validated JSONL item file: one record per identifier. *)
IsItemFile(f) == DOMAIN f \subseteq Ids /\ f \in [DOMAIN f -> Item]

EmptyFile == [i \in {} |-> None]

PutItem(f, i, item) == [j \in DOMAIN f \cup {i} |-> IF j = i THEN item ELSE f[j]]

RemoveItem(f, i) == [j \in DOMAIN f \ {i} |-> f[j]]

(***************************************************************************)
(* Edges.  An edge map gives every node that has a record its successors;  *)
(* successors need not have a record of their own (archived, missing).     *)
(***************************************************************************)
DependencyEdges(items) == [i \in DOMAIN items |-> items[i].dependencies]

ParentEdges(items) == [i \in DOMAIN items |-> {items[i].parent} \ {None}]

(* The nodes a depth-first search started at `start` visits: the least set *)
(* that holds `start` and is closed under the edges.                       *)
IsClosed(edges, S) == \A x \in S \cap DOMAIN edges : edges[x] \subseteq S

Reachable(edges, start) ==
  {x \in Ids : \A S \in SUBSET Ids :
                  start \in S /\ IsClosed(edges, S) => x \in S}

(* No set of items in which everyone has a successor of the set. *)
Acyclic(edges) ==
  \A S \in SUBSET DOMAIN edges :
     S # {} => \E x \in S : edges[x] \cap S = {}

(* Faulty: only the target's own dependencies are looked at. *)
WouldCreateCycle_OneLevel(items, source, newDep) ==
  newDep \in DOMAIN items /\ source \in items[newDep].dependencies

(* Faulty: only the target's own parent is looked at. *)
WouldCreateParentCycle_OneLevel(items, source, newParent) ==
  newParent \in DOMAIN items /\ items[newParent].parent = source

(* Would an edge from `source` to the target close a cycle?  Only active   *)
(* items are given, so the search never leaves tasks.jsonl.                *)
WouldCreateCycle(items, source, newDep) ==
  source \in Reachable(DependencyEdges(items), newDep)

WouldCreateParentCycle(items, source, newParent) ==
  source \in Reachable(ParentEdges(items), newParent)

(***************************************************************************)
(* References.                                                             *)
(***************************************************************************)
ActiveDependents(items, target) ==
  {i \in DOMAIN items \ {target} : target \in items[i].dependencies}

ActiveChildren(items, target) ==
  {i \in DOMAIN items : items[i].parent = target}

DependencyReferencesResolve(items, archivedIds) ==
  \A i \in DOMAIN items :
     items[i].dependencies \subseteq DOMAIN items \cup archivedIds

ValidDependency(source, dep, activeIds, archivedIds) ==
  source # dep /\ dep \in activeIds \cup archivedIds

ValidParent(source, parent, activeIds) ==
  source # parent /\ parent \in activeIds

(* reparent, the one place where an item is given a parent. *)
CanReparent(items, i, parent) ==
  ValidParent(i, parent, DOMAIN items) /\ ~WouldCreateParentCycle(items, i, parent)

(***************************************************************************)
(* evaluate_dependencies: an item is ready when it is todo and each of its *)
(* dependencies is done, the active record deciding when there is one.     *)
(***************************************************************************)
(* Faulty: a dependency need only exist. *)
DependencyMet_Known(dep, activeItems, archivedItems) ==
  dep \in DOMAIN activeItems \cup DOMAIN archivedItems

(* Faulty: archived items do not count. *)
DependencyMet_ActiveOnly(dep, activeItems, archivedItems) ==
  dep \in DOMAIN activeItems /\ activeItems[dep].status = "done"

DependencyMet(dep, activeItems, archivedItems) ==
  IF dep \in DOMAIN activeItems
  THEN activeItems[dep].status = "done"
  ELSE dep \in DOMAIN archivedItems /\ archivedItems[dep].status = "done"

ReadyItems(activeItems, archivedItems) ==
  {i \in DOMAIN activeItems :
     /\ activeItems[i].status = "todo"
     /\ \A d \in activeItems[i].dependencies :
          DependencyMet(d, activeItems, archivedItems)}
=============================================================================
