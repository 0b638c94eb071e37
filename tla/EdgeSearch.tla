----------------------------- MODULE EdgeSearch -----------------------------
(***************************************************************************)
(* The two searches a command makes before it adds an edge, step by step   *)
(* (model/deps.rs): would_create_cycle goes depth first along dependencies *)
(* with a stack, would_create_parent_cycle walks up from parent to parent. *)
(* TaskGraph has them by what they are to compute, WouldCreateCycle and    *)
(* WouldCreateParentCycle.  A behavior is one call.                        *)
(***************************************************************************)
EXTENDS TaskGraph, Naturals, Sequences, FiniteSets

(* A UUID has 128 bits. *)
ASSUME FiniteIds == IsFiniteSet(Ids)

VARIABLES
  items,      (* the active items the command has loaded            *)
  relation,   (* of the edge to be added                            *)
  source,     (* the item it would lead from                        *)
  target,     (* the one it would lead to                           *)
  to_visit,   (* the stack, or the one item the walk up has reached *)
  visited,
  answer

callVars == <<items, relation, source, target>>
searchVars == <<items, relation, source, target, to_visit, visited, answer>>

Relation == {"dependency", "parent"}

ItemFiles == UNION {[D -> Item] : D \in SUBSET Ids}

Edges(rel, file) ==
  IF rel = "parent" THEN ParentEdges(file) ELSE DependencyEdges(file)

(* The sequences in which a set can be gone through. *)
Orders(S) ==
  {s \in [1..Cardinality(S) -> S] : S = {s[k] : k \in 1..Cardinality(S)}}

Search(rel, file, from, to) ==
  /\ relation = rel /\ items = file /\ source = from /\ target = to
  /\ to_visit = <<to>>
  /\ visited = {}
  /\ answer = "searching"

SearchInit ==
  \E rel \in Relation, file \in ItemFiles, from, to \in Ids : Search(rel, file, from, to)

-----------------------------------------------------------------------------
Searching == answer = "searching"

Current == to_visit[Len(to_visit)]
Rest == SubSeq(to_visit, 1, Len(to_visit) - 1)

(* Both compare first: an item is found even if it has no record. *)
Reached ==
  /\ Searching
  /\ to_visit # <<>> /\ Current = source
  /\ answer' = "cycle"
  /\ to_visit' = Rest
  /\ UNCHANGED <<callVars, visited>>

(* Faulty: the depth-first search, too, gives up where it has been before. *)
MeetVisited_Stops ==
  /\ Searching
  /\ to_visit # <<>> /\ Current # source /\ Current \in visited
  /\ to_visit' = Rest
  /\ answer' = "no_cycle"
  /\ UNCHANGED <<callVars, visited>>

(* An item met again: the depth-first search goes on with what is left on  *)
(* the stack; the walk up, which has nothing left, ends.                   *)
MeetVisited ==
  /\ Searching
  /\ to_visit # <<>> /\ Current # source /\ Current \in visited
  /\ to_visit' = Rest
  /\ answer' = IF relation = "parent" THEN "no_cycle" ELSE answer
  /\ UNCHANGED <<callVars, visited>>

(* All its dependencies, or its one parent; an item without a record leads *)
(* nowhere.                                                                *)
Expand ==
  /\ Searching
  /\ to_visit # <<>> /\ Current # source /\ Current \notin visited
  /\ visited' = visited \cup {Current}
  /\ \E next \in Orders(IF Current \in DOMAIN items
                        THEN Edges(relation, items)[Current] ELSE {}) :
        to_visit' = Rest \o next
  /\ UNCHANGED <<callVars, answer>>

NothingLeft ==
  /\ Searching
  /\ to_visit = <<>>
  /\ answer' = "no_cycle"
  /\ UNCHANGED <<callVars, to_visit, visited>>

SearchNext == Reached \/ MeetVisited \/ Expand \/ NothingLeft

SearchSpec == SearchInit /\ [][SearchNext]_searchVars
-----------------------------------------------------------------------------
ClosesCycle ==
  IF relation = "parent" THEN WouldCreateParentCycle(items, source, target)
                         ELSE WouldCreateCycle(items, source, target)

(* Whatever the order in which dependencies are stored, and also on graphs *)
(* that are cyclic already or have edges to items without a record, either *)
(* search says that the new edge would close a cycle if and only if it     *)
(* would (deps.rs:51-79, 237-264): stopping at visited items overlooks no  *)
(* way to the source.                                                      *)
SearchIsExact ==
  /\ answer = "cycle" => ClosesCycle
  /\ answer = "no_cycle" => ~ClosesCycle

(* Each step marks one more item or shortens the stack: no search runs in  *)
(* circles, whatever the graph (deps.rs:68, 253).                          *)
SearchAdvances ==
  [][ \/ answer # answer'
      \/ visited \subseteq visited' /\ visited # visited'
      \/ visited' = visited /\ Len(to_visit') < Len(to_visit) ]_searchVars
=============================================================================
