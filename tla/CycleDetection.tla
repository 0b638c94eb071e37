--------------------------- MODULE CycleDetection ---------------------------
(***************************************************************************)
(* The search for all cycles, of dependencies (detect_all_cycles) and of   *)
(* parents (detect_all_parent_cycles), step by step (model/deps.rs): which *)
(* items are left over by Kahn's topological sort, and the cycles among    *)
(* them.  The doctor reports what is found; tg apply and the rebuild of    *)
(* the cache refuse a graph if anything is.  A behavior is one call.       *)
(***************************************************************************)
EXTENDS TaskGraph, Naturals, Sequences, FiniteSets

VARIABLES
  kind,              (* "dependencies" or "parents"                      *)
  edges,             (* the relation of the items given                  *)
  phase,             (* where the call is                                *)
  in_degree,         (* how many items it leads to are still unprocessed *)
  queue,             (* processed next, in no order that matters         *)
  processed,
  starts,            (* cycle nodes no search has been started at        *)
  globally_visited,
  stack,             (* of nodes to enter, and to leave (backtrack)      *)
  path, path_set,    (* from the start to the node entered last          *)
  current,           (* the node the walk along parents has reached      *)
  found_cycles

sortVars == <<in_degree, queue, processed>>
pathVars == <<path, path_set>>
detectionVars ==
  <<kind, edges, phase, in_degree, queue, processed, starts, globally_visited,
    stack, path, path_set, current, found_cycles>>

AllItems == UNION {[D -> Item] : D \in SUBSET Ids}

Enter(n) == [node |-> n, backtrack |-> FALSE]
Leave(n) == [node |-> n, backtrack |-> TRUE]

(* The sequences in which the nodes of a set can be put on the stack. *)
Pushes(S) ==
  {s \in [1..Cardinality(S) -> {Enter(n) : n \in S}] :
     \A n \in S : \E k \in 1..Cardinality(S) : s[k] = Enter(n)}

Elements(seq) == {seq[k] : k \in 1..Len(seq)}

Butlast(seq) == SubSeq(seq, 1, Len(seq) - 1)

(* An edge to an item that is not among those given counts for nothing. *)
Detect(k, g) ==
  /\ kind = k /\ edges = g
  /\ phase = "sort"
  /\ in_degree = [i \in DOMAIN g |-> Cardinality(g[i] \cap DOMAIN g)]
  /\ queue = {i \in DOMAIN g : Cardinality(g[i] \cap DOMAIN g) = 0}
  /\ processed = {}
  /\ starts = {} /\ globally_visited = {}
  /\ stack = <<>> /\ path = <<>> /\ path_set = {} /\ current = None
  /\ found_cycles = {}

DetectionInit ==
  \E items \in AllItems :
     \/ Detect("dependencies", DependencyEdges(items))
     \/ Detect("parents", ParentEdges(items))

-----------------------------------------------------------------------------
(* The items that depend on the node, or are children of it. *)
Waiting(node) == {i \in DOMAIN edges : node \in edges[i]}

Process ==
  /\ phase = "sort"
  /\ \E node \in queue :
        /\ processed' = processed \cup {node}
        /\ in_degree' = [i \in DOMAIN edges |->
                           IF i \in Waiting(node) THEN in_degree[i] - 1 ELSE in_degree[i]]
        /\ queue' = (queue \ {node}) \cup {i \in Waiting(node) : in_degree'[i] = 0}
  /\ UNCHANGED <<kind, edges, phase, starts, globally_visited, stack, pathVars,
                 current, found_cycles>>

(* What is left over. *)
CycleNodes == DOMAIN edges \ processed

Sorted ==
  /\ phase = "sort"
  /\ queue = {}
  /\ phase' = IF CycleNodes = {} THEN "done" ELSE "pick"
  /\ starts' = CycleNodes
  /\ UNCHANGED <<kind, edges, sortVars, globally_visited, stack, pathVars,
                 current, found_cycles>>

(* The next start, if it has not been visited from an earlier one. *)
PickStart ==
  /\ phase = "pick"
  /\ \E start \in starts :
        /\ starts' = starts \ {start}
        /\ IF start \in globally_visited
           THEN UNCHANGED <<phase, stack, pathVars, current>>
           ELSE /\ path' = <<>> /\ path_set' = {}
                /\ IF kind = "parents"
                   THEN phase' = "walk" /\ current' = start /\ UNCHANGED stack
                   ELSE phase' = "search" /\ stack' = <<Enter(start)>> /\ UNCHANGED current
  /\ UNCHANGED <<kind, edges, sortVars, globally_visited, found_cycles>>

AllPicked ==
  /\ phase = "pick"
  /\ starts = {}
  /\ phase' = "done"
  /\ UNCHANGED <<kind, edges, sortVars, starts, globally_visited, stack, pathVars,
                 current, found_cycles>>

(* path.iter().position(..).unwrap(), on a node of the path. *)
Position(node) ==
  CHOOSE k \in 1..Len(path) : path[k] = node /\ \A j \in 1..(k - 1) : path[j] # node

CycleAt(node) == SubSeq(path, Position(node), Len(path))

-----------------------------------------------------------------------------
(* detect_all_cycles: all simple paths from the start, depth first.        *)
Top == stack[Len(stack)]

(* Faulty: the node stays in the set when it leaves the path. *)
Backtrack_KeepsSet ==
  /\ phase = "search" /\ stack # <<>>
  /\ Top.backtrack
  /\ path' = Butlast(path)
  /\ stack' = Butlast(stack)
  /\ UNCHANGED <<kind, edges, phase, sortVars, starts, globally_visited, path_set,
                 current, found_cycles>>

Backtrack ==
  /\ phase = "search" /\ stack # <<>>
  /\ Top.backtrack
  /\ path_set' = path_set \ {Top.node}
  /\ path' = Butlast(path)
  /\ stack' = Butlast(stack)
  /\ UNCHANGED <<kind, edges, phase, sortVars, starts, globally_visited,
                 current, found_cycles>>

CloseCycle ==
  /\ phase = "search" /\ stack # <<>>
  /\ ~Top.backtrack /\ Top.node \in path_set
  /\ found_cycles' = found_cycles \cup {CycleAt(Top.node)}
  /\ stack' = Butlast(stack)
  /\ UNCHANGED <<kind, edges, phase, sortVars, starts, globally_visited, pathVars, current>>

(* Faulty: a node visited before, on another path, is not entered again. *)
EnterNode_Once ==
  /\ phase = "search" /\ stack # <<>>
  /\ ~Top.backtrack /\ Top.node \notin path_set
  /\ LET node == Top.node
     IN  IF node \in globally_visited
         THEN stack' = Butlast(stack) /\ UNCHANGED <<globally_visited, pathVars>>
         ELSE /\ path' = Append(path, node)
              /\ path_set' = path_set \cup {node}
              /\ globally_visited' = globally_visited \cup {node}
              /\ \E next \in Pushes(edges[node] \cap CycleNodes) :
                    stack' = (Butlast(stack) \o <<Leave(node)>>) \o next
  /\ UNCHANGED <<kind, edges, phase, sortVars, starts, current, found_cycles>>

(* Only cycle nodes are ever pushed, so that the code's test for that is   *)
(* never the reason to skip one.                                           *)
EnterNode ==
  /\ phase = "search" /\ stack # <<>>
  /\ ~Top.backtrack /\ Top.node \notin path_set
  /\ LET node == Top.node
     IN  IF node \notin CycleNodes
         THEN stack' = Butlast(stack) /\ UNCHANGED <<globally_visited, pathVars>>
         ELSE /\ path' = Append(path, node)
              /\ path_set' = path_set \cup {node}
              /\ globally_visited' = globally_visited \cup {node}
              /\ \E next \in Pushes(edges[node] \cap CycleNodes) :
                    stack' = (Butlast(stack) \o <<Leave(node)>>) \o next
  /\ UNCHANGED <<kind, edges, phase, sortVars, starts, current, found_cycles>>

SearchEnds ==
  /\ phase = "search" /\ stack = <<>>
  /\ phase' = "pick"
  /\ UNCHANGED <<kind, edges, sortVars, starts, globally_visited, stack, pathVars,
                 current, found_cycles>>

-----------------------------------------------------------------------------
(* detect_all_parent_cycles: up from parent to parent until an item of the *)
(* path is met again; what was passed before it is no part of the cycle.   *)
WalkUp ==
  /\ phase = "walk" /\ current \notin Elements(path)
  /\ path' = Append(path, current)
  /\ LET parents == edges[current] \cap CycleNodes
     IN  IF parents = {} THEN phase' = "pick" /\ UNCHANGED current
                         ELSE UNCHANGED phase /\ current' \in parents
  /\ UNCHANGED <<kind, edges, sortVars, starts, globally_visited, stack, path_set,
                 found_cycles>>

CloseParentCycle ==
  /\ phase = "walk" /\ current \in Elements(path)
  /\ found_cycles' = found_cycles \cup {CycleAt(current)}
  /\ globally_visited' = globally_visited \cup Elements(CycleAt(current))
  /\ phase' = "pick"
  /\ UNCHANGED <<kind, edges, sortVars, starts, stack, pathVars, current>>

DetectionNext ==
  \/ Process \/ Sorted \/ PickStart \/ AllPicked
  \/ Backtrack \/ CloseCycle \/ EnterNode \/ SearchEnds
  \/ WalkUp \/ CloseParentCycle

DetectionSpec == DetectionInit /\ [][DetectionNext]_detectionVars
-----------------------------------------------------------------------------
(* Items each of which leads to the next, and the last one to the first.   *)
IsCycle(cycle) ==
  /\ cycle # <<>>
  /\ Elements(cycle) \subseteq DOMAIN edges
  /\ \A j, k \in 1..Len(cycle) : cycle[j] = cycle[k] => j = k
  /\ \A k \in 1..(Len(cycle) - 1) : cycle[k + 1] \in edges[cycle[k]]
  /\ cycle[1] \in edges[cycle[Len(cycle)]]

(* No two items of a cycle are the same, so this is all of them. *)
Cycles ==
  {cycle \in UNION {[1..n -> DOMAIN edges] : n \in 1..Cardinality(DOMAIN edges)} :
     IsCycle(cycle)}

(* The edges of a cycle: it is the same one wherever one begins. *)
EdgesOn(cycle) ==
  {<<cycle[k], cycle[k + 1]>> : k \in 1..(Len(cycle) - 1)}
    \cup {<<cycle[Len(cycle)], cycle[1]>>}

(* Whatever the order in which a hash set is walked: each report is a      *)
(* cycle of the relation, without the items that only lead into it; at the *)
(* end each cycle has been reported, those that share items with others    *)
(* and those an earlier start had visited included; and nothing is         *)
(* reported if and only if the relation is acyclic (deps.rs:134, 266).     *)
ReportsAreTheCycles ==
  /\ \A cycle \in found_cycles : IsCycle(cycle)
  /\ phase = "done" =>
        /\ \A cycle \in Cycles : \E f \in found_cycles : EdgesOn(f) = EdgesOn(cycle)
        /\ found_cycles = {} <=> Acyclic(edges)

(* path_set is the set of the path at every step, so that the unwrap at    *)
(* deps.rs:206 always has a position to unwrap, and the count of what an   *)
(* item still waits for never falls below zero (deps.rs:169).              *)
PathSetIsPath ==
  /\ phase = "search" => path_set = Elements(path)
  /\ phase = "sort" => \A i \in DOMAIN edges : in_degree[i] \in Nat
=============================================================================
