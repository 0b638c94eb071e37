---------------------------- MODULE SearchProofs ----------------------------
(***************************************************************************)
(* Proofs about the searches of model/deps.rs: the search made before an   *)
(* edge is added and the search for all cycles compute, on every graph,    *)
(* what TaskGraph says they do.                                            *)
(***************************************************************************)
EXTENDS EdgeSearch, CycleDetection, SequenceTheorems, FiniteSetTheorems,
        WellFoundedInduction, TLAPS

(***************************************************************************)
(* The inductive invariant of EdgeSearch.                                  *)
(***************************************************************************)
Adjacent(x) == IF x \in DOMAIN items THEN Edges(relation, items)[x] ELSE {}

Found == Reachable(Edges(relation, items), target)

SearchTypeOK ==
  /\ IsItemFile(items) /\ relation \in Relation
  /\ source \in Ids /\ target \in Ids
  /\ to_visit \in Seq(Ids) /\ visited \subseteq Ids
  /\ answer \in {"searching", "cycle", "no_cycle"}
  /\ relation = "parent" => Len(to_visit) <= 1

(* What is on the stack can be reached; what a visited item leads to has   *)
(* been visited or is on the stack.                                        *)
SearchInv ==
  /\ SearchTypeOK
  /\ \A k \in 1..Len(to_visit) : to_visit[k] \in Found
  /\ source \notin visited
  /\ answer # "cycle" =>
        /\ target \in visited \cup Elements(to_visit)
        /\ \A x \in visited :
              Adjacent(x) \subseteq visited \cup Elements(to_visit)
  /\ answer = "cycle" => source \in Found
  /\ answer = "no_cycle" => to_visit = <<>>

-----------------------------------------------------------------------------
(* A set that is gone through is gone through completely.                  *)
LEMMA OrdersFacts ==
  ASSUME NEW S, IsFiniteSet(S), NEW s \in Orders(S)
  PROVE  /\ s \in Seq(S) /\ Len(s) = Cardinality(S) /\ Cardinality(S) \in Nat
         /\ S = Elements(s)
<1>1. Cardinality(S) \in Nat
  BY FS_CardinalityType
<1>2. s \in [1..Cardinality(S) -> S] /\ S = {s[k] : k \in 1..Cardinality(S)}
  BY DEF Orders
<1> QED BY <1>1, <1>2 DEF Elements

(* Reachable is closed, and the least closed set with the start in it.     *)
LEMMA ReachableFacts ==
  ASSUME NEW E, NEW start \in Ids
  PROVE  /\ start \in Reachable(E, start)
         /\ \A x \in Reachable(E, start) : x \in DOMAIN E =>
               \A y \in E[x] : y \in Ids => y \in Reachable(E, start)
         /\ \A S \in SUBSET Ids :
               start \in S /\ IsClosed(E, S) => Reachable(E, start) \subseteq S
<1>1. start \in Reachable(E, start)
  BY DEF Reachable
<1>2. ASSUME NEW x \in Reachable(E, start), x \in DOMAIN E, NEW y \in E[x], y \in Ids
      PROVE  y \in Reachable(E, start)
  <2>1. SUFFICES ASSUME NEW S \in SUBSET Ids, start \in S, IsClosed(E, S) PROVE y \in S
    BY <1>2 DEF Reachable
  <2>2. x \in S
    BY <2>1 DEF Reachable
  <2> QED BY <1>2, <2>1, <2>2 DEF IsClosed
<1>3. ASSUME NEW S \in SUBSET Ids, start \in S, IsClosed(E, S)
      PROVE  Reachable(E, start) \subseteq S
  BY <1>3 DEF Reachable
<1> QED BY <1>1, <1>2, <1>3

(* What an item leads to are identifiers; a parent is one at most.         *)
LEMMA EdgesFacts ==
  ASSUME NEW rel \in Relation, NEW file, IsItemFile(file)
  PROVE  /\ Edges(rel, file) \in [DOMAIN file -> SUBSET Ids]
         /\ DOMAIN Edges(rel, file) = DOMAIN file
         /\ rel = "parent" =>
              \A x \in DOMAIN file : \E p \in Ids \cup {None} : Edges(rel, file)[x] = {p} \ {None}
<1>1. \A i \in DOMAIN file : /\ file[i].dependencies \in SUBSET Ids
                             /\ file[i].parent \in Ids \cup {None}
  BY DEF IsItemFile, Item
<1>2. CASE rel = "parent"
  <2>1. Edges(rel, file) = [i \in DOMAIN file |-> {file[i].parent} \ {None}]
    BY <1>2 DEF Edges, ParentEdges
  <2> QED BY <1>1, <2>1
<1>3. CASE rel # "parent"
  <2>1. Edges(rel, file) = [i \in DOMAIN file |-> file[i].dependencies]
    BY <1>3 DEF Edges, DependencyEdges
  <2> QED BY <1>1, <1>3, <2>1
<1> QED BY <1>2, <1>3

(* An item file of the set is an item file.                                *)
LEMMA ItemFilesFacts ==
  ASSUME NEW file \in ItemFiles
  PROVE  IsItemFile(file)
BY DEF ItemFiles, IsItemFile

(* Popping the stack.                                                      *)
LEMMA PopFacts ==
  ASSUME NEW S, NEW s \in Seq(S), s # <<>>
  PROVE  /\ Len(s) \in Nat /\ Len(s) >= 1 /\ s[Len(s)] \in S
         /\ SubSeq(s, 1, Len(s) - 1) \in Seq(S)
         /\ Len(SubSeq(s, 1, Len(s) - 1)) = Len(s) - 1
         /\ \A k \in 1..(Len(s) - 1) : SubSeq(s, 1, Len(s) - 1)[k] = s[k]
<1>1. Len(s) \in Nat /\ Len(s) >= 1 /\ s[Len(s)] \in S
  OBVIOUS
<1>2. \A i \in 1..(Len(s) - 1) : s[i] \in S
  BY <1>1
<1> DEFINE r == SubSeq(s, 1, Len(s) - 1)
           n == Len(s)
<1>3. /\ r \in Seq(S)
      /\ Len(r) = IF 1 <= n - 1 THEN n - 1 - 1 + 1 ELSE 0
      /\ \A i \in 1..(n - 1 - 1 + 1) : r[i] = s[1 + i - 1]
  BY <1>1, <1>2, SubSeqProperties
<1> HIDE DEF r, n
<1>4. n \in Nat /\ n >= 1
  BY <1>1 DEF n
<1>5. Len(r) = n - 1
  BY ONLY <1>3, <1>4
<1>6. \A k \in 1..(n - 1) : r[k] = s[k]
  <2>1. SUFFICES ASSUME NEW k \in 1..(n - 1) PROVE r[k] = s[k]
    OBVIOUS
  <2>2. k \in 1..(n - 1 - 1 + 1) /\ 1 + k - 1 = k
    BY ONLY <1>4, <2>1
  <2> QED BY <1>3, <2>2
<1> QED BY <1>1, <1>3, <1>5, <1>6 DEF r, n

(* What is pushed comes above what is there.                               *)
LEMMA PushFacts ==
  ASSUME NEW S, NEW s \in Seq(S), NEW t \in Seq(S)
  PROVE  /\ s \o t \in Seq(S)
         /\ Len(s) \in Nat /\ Len(t) \in Nat /\ Len(s \o t) = Len(s) + Len(t)
         /\ \A k \in 1..Len(s) : (s \o t)[k] = s[k]
         /\ \A k \in 1..Len(t) : (s \o t)[Len(s) + k] = t[k]
         /\ \A k \in 1..Len(s \o t) :
               \/ k \in 1..Len(s)
               \/ (k - Len(s) \in 1..Len(t) /\ (s \o t)[k] = t[k - Len(s)])
         /\ Elements(s \o t) = Elements(s) \cup Elements(t)
<1> DEFINE u == s \o t
           m == Len(s)
           n == Len(t)
           l == Len(u)
<1>1. /\ u \in Seq(S) /\ l = m + n
      /\ \A i \in 1..(m + n) : u[i] = IF i <= m THEN s[i] ELSE t[i - m]
  BY ConcatProperties
<1>2. m \in Nat /\ n \in Nat
  OBVIOUS
<1> HIDE DEF u, m, n, l
<1>3. \A k \in 1..m : k \in 1..l /\ u[k] = s[k]
  <2>1. SUFFICES ASSUME NEW k \in 1..m PROVE k \in 1..l /\ u[k] = s[k]
    OBVIOUS
  <2>2. k \in 1..(m + n) /\ k <= m
    BY ONLY <1>2, <2>1
  <2> QED BY <1>1, <2>2
<1>4. \A k \in 1..n : m + k \in 1..l /\ u[m + k] = t[k]
  <2>1. SUFFICES ASSUME NEW k \in 1..n PROVE m + k \in 1..l /\ u[m + k] = t[k]
    OBVIOUS
  <2>2. PICK j \in Int : j = m + k
    BY ONLY <1>2, <2>1
  <2>3. j \in 1..(m + n) /\ ~(j <= m) /\ j - m = k
    BY ONLY <1>2, <2>1, <2>2
  <2>4. u[j] = t[j - m] /\ j \in 1..l
    BY <1>1, <2>3
  <2> QED BY ONLY <2>2, <2>3, <2>4
<1>5. \A k \in 1..l : k \in 1..m \/ (k - m \in 1..n /\ u[k] = t[k - m])
  <2>1. SUFFICES ASSUME NEW k \in 1..l, k \notin 1..m
                 PROVE  k - m \in 1..n /\ u[k] = t[k - m]
    OBVIOUS
  <2>2. k \in 1..(m + n) /\ ~(k <= m) /\ k - m \in 1..n
    BY ONLY <1>1, <1>2, <2>1
  <2> QED BY <1>1, <2>2
<1>6. Elements(u) = Elements(s) \cup Elements(t)
  <2>1. ASSUME NEW k \in 1..l PROVE u[k] \in Elements(s) \cup Elements(t)
    BY <1>3, <1>5 DEF Elements, m, n
  <2>2. ASSUME NEW k \in 1..m PROVE s[k] \in Elements(u)
    BY <1>3 DEF Elements, l
  <2>3. ASSUME NEW k \in 1..n PROVE t[k] \in Elements(u)
    BY <1>4 DEF Elements, l
  <2> QED BY <2>1, <2>2, <2>3 DEF Elements, m, n, l
<1> QED BY <1>1, <1>2, <1>3, <1>4, <1>5, <1>6 DEF u, m, n, l

-----------------------------------------------------------------------------
(* The search before an edge is added.                                     *)
LEMMA SearchInitInv == SearchInit => SearchInv
<1> SUFFICES ASSUME SearchInit PROVE SearchInv
  OBVIOUS
<1>1. PICK rel \in Relation, file \in ItemFiles, from \in Ids, to \in Ids :
        Search(rel, file, from, to)
  BY DEF SearchInit
<1>2. /\ relation = rel /\ items = file /\ source = from /\ target = to
      /\ to_visit = <<to>> /\ visited = {} /\ answer = "searching"
  BY <1>1 DEF Search
<1>3. SearchTypeOK
  BY <1>2, ItemFilesFacts DEF SearchTypeOK
<1>4. target \in Found
  BY <1>2, ReachableFacts DEF Found
<1> QED BY <1>2, <1>3, <1>4 DEF SearchInv, Elements

(* Each step of a search keeps its invariant.                              *)
LEMMA SearchStepInv == SearchInv /\ [SearchNext]_searchVars => SearchInv'
<1> SUFFICES ASSUME SearchInv, [SearchNext]_searchVars PROVE SearchInv'
  OBVIOUS
<1> DEFINE E == Edges(relation, items)
           OnStack == Elements(to_visit)
<1>0. /\ SearchTypeOK
      /\ \A k \in 1..Len(to_visit) : to_visit[k] \in Found
      /\ source \notin visited
  BY DEF SearchInv
<1>1. /\ E \in [DOMAIN items -> SUBSET Ids] /\ DOMAIN E = DOMAIN items
      /\ relation = "parent" =>
           \A x \in DOMAIN items : \E p \in Ids \cup {None} : E[x] = {p} \ {None}
  BY <1>0, EdgesFacts DEF SearchTypeOK
<1>2. CASE UNCHANGED searchVars
  BY <1>2 DEF searchVars, SearchInv, SearchTypeOK, Found, Adjacent
<1>3. ASSUME SearchNext PROVE SearchInv'
  <2>1. UNCHANGED callVars /\ answer = "searching"
    BY <1>3 DEF SearchNext, Reached, MeetVisited, Expand, NothingLeft, Searching
  <2>2. /\ Found' = Found /\ \A x : Adjacent(x)' = Adjacent(x)
    BY <2>1 DEF callVars, Found, Adjacent
  <2>3. /\ target \in visited \cup OnStack
        /\ \A x \in visited : Adjacent(x) \subseteq visited \cup OnStack
    BY <2>1 DEF SearchInv
  <2>4. ASSUME to_visit # <<>>
        PROVE  /\ Len(to_visit) \in Nat /\ Len(to_visit) >= 1 /\ Current \in Ids
               /\ Current \in Found
               /\ Rest \in Seq(Ids) /\ Len(Rest) = Len(to_visit) - 1
               /\ \A k \in 1..Len(Rest) : Rest[k] = to_visit[k]
               /\ OnStack = Elements(Rest) \cup {Current}
    <3>1. to_visit \in Seq(Ids)
      BY <1>0 DEF SearchTypeOK
    <3>2. /\ Len(to_visit) \in Nat /\ Len(to_visit) >= 1 /\ Current \in Ids
          /\ Rest \in Seq(Ids) /\ Len(Rest) = Len(to_visit) - 1
          /\ \A k \in 1..Len(Rest) : Rest[k] = to_visit[k]
      BY <2>4, <3>1, PopFacts DEF Current, Rest
    <3>3. Current \in Found
      BY <1>0, <3>2 DEF Current
    <3>4. 1..Len(to_visit) = 1..Len(Rest) \cup {Len(to_visit)}
      BY <3>2
    <3> QED BY <3>2, <3>3, <3>4 DEF Current, Elements
  <2>5. CASE Reached
    <3>1. /\ to_visit # <<>> /\ Current = source
          /\ answer' = "cycle" /\ to_visit' = Rest /\ visited' = visited
      BY <2>5 DEF Reached
    <3>2. SearchTypeOK'
      BY <1>0, <2>1, <2>4, <3>1 DEF SearchTypeOK, callVars
    <3> QED BY <1>0, <2>1, <2>2, <2>4, <3>1, <3>2 DEF SearchInv, callVars
  <2>6. CASE MeetVisited
    <3>1. /\ to_visit # <<>> /\ Current \in visited
          /\ to_visit' = Rest /\ visited' = visited
          /\ answer' = IF relation = "parent" THEN "no_cycle" ELSE answer
      BY <2>6 DEF MeetVisited
    <3>2. SearchTypeOK'
      BY <1>0, <2>1, <2>4, <3>1 DEF SearchTypeOK, callVars
    <3>3. visited \cup OnStack = visited' \cup Elements(to_visit')
      BY <2>4, <3>1
    <3>4. answer' = "no_cycle" => to_visit' = <<>>
      <4>1. relation = "parent" => Len(to_visit) <= 1
        BY <1>0 DEF SearchTypeOK
      <4> QED BY <2>1, <2>4, <3>1, <4>1
    <3> QED BY <1>0, <2>1, <2>2, <2>3, <2>4, <3>1, <3>2, <3>3, <3>4 DEF SearchInv, callVars
  <2>7. CASE Expand
    <3> DEFINE S == IF Current \in DOMAIN items THEN E[Current] ELSE {}
    <3>1. /\ to_visit # <<>> /\ Current # source
          /\ visited' = visited \cup {Current} /\ answer' = answer
      BY <2>7 DEF Expand
    <3>2. PICK next \in Orders(S) : to_visit' = Rest \o next
      BY <2>7 DEF Expand
    <3>3. S \subseteq Ids /\ IsFiniteSet(S) /\ S = Adjacent(Current)
      BY <1>1, FiniteIds, FS_Subset DEF Adjacent
    <3>4. /\ next \in Seq(S) /\ Len(next) \in Nat /\ Len(next) = Cardinality(S)
          /\ S = Elements(next)
      BY <3>3, OrdersFacts
    <3>5. /\ to_visit' \in Seq(Ids)
          /\ Len(to_visit') = Len(Rest) + Len(next)
          /\ \A k \in 1..Len(Rest) : to_visit'[k] = Rest[k]
          /\ \A k \in 1..Len(next) : to_visit'[Len(Rest) + k] = next[k]
      <4>1. next \in Seq(Ids)
        BY <3>3, <3>4
      <4> HIDE DEF S
      <4> QED BY <2>4, <3>1, <3>2, <4>1, PushFacts
    <3>6. Elements(to_visit') = Elements(Rest) \cup S
      <4>1. next \in Seq(Ids)
        BY <3>3, <3>4
      <4> HIDE DEF S
      <4> QED BY <2>4, <3>1, <3>2, <3>4, <4>1, PushFacts
    <3>7. \A x \in S : x \in Found
      <4>1. SUFFICES ASSUME NEW x \in S PROVE x \in Found
        OBVIOUS
      <4>2. Current \in DOMAIN E /\ x \in E[Current] /\ x \in Ids
        BY <1>1, <4>1
      <4>3. Current \in Found /\ target \in Ids
        BY <1>0, <2>4, <3>1 DEF SearchTypeOK
      <4> HIDE DEF E
      <4>4. Found = Reachable(E, target)
        BY DEF Found, E
      <4> QED BY <4>2, <4>3, <4>4, ReachableFacts
    <3>8. relation = "parent" => Len(to_visit') <= 1
      <4>1. SUFFICES ASSUME relation = "parent" PROVE Len(next) <= 1 /\ Len(Rest) = 0
        BY <3>4, <3>5
      <4>2. Len(Rest) = 0
        BY <1>0, <2>4, <3>1, <4>1 DEF SearchTypeOK
      <4>3. \E p : S \subseteq {p}
        BY <1>1, <4>1
      <4>4. Cardinality(S) <= 1
        <5>1. PICK p : S \subseteq {p}
          BY <4>3
        <5>2. IsFiniteSet({p}) /\ Cardinality({p}) = 1
          BY FS_Singleton
        <5> HIDE DEF S
        <5> QED BY <5>1, <5>2, FS_Subset
      <4> QED BY <3>4, <4>2, <4>4
    <3>9. SearchTypeOK'
      BY <1>0, <2>1, <2>4, <3>1, <3>5, <3>8 DEF SearchTypeOK, callVars
    <3> DEFINE OnStack1 == Elements(to_visit')
    <3>10. /\ visited \cup OnStack \subseteq visited' \cup OnStack1
           /\ Adjacent(Current) \subseteq OnStack1
      BY <2>4, <3>1, <3>3, <3>6
    <3>11. \A k \in 1..Len(to_visit') : to_visit'[k] \in Found
      <4>1. \A k \in 1..Len(Rest) : Rest[k] \in Found
        <5>1. 1..Len(Rest) \subseteq 1..Len(to_visit)
          BY <2>4, <3>1
        <5> QED BY <1>0, <2>4, <3>1, <5>1
      <4>2. Elements(Rest) \cup S \subseteq Found
        BY <3>7, <4>1 DEF Elements
      <4> HIDE DEF S
      <4>3. OnStack1 \subseteq Found
        BY <3>6, <4>2
      <4> QED BY <4>3 DEF Elements
    <3>12. \A x \in visited' : Adjacent(x) \subseteq visited' \cup OnStack1
      <4> HIDE DEF OnStack, OnStack1
      <4> QED BY <2>3, <3>1, <3>10
    <3>13. target \in visited' \cup OnStack1
      <4> HIDE DEF OnStack, OnStack1
      <4> QED BY <2>3, <3>10
    <3>14. source \notin visited' /\ source' = source /\ target' = target
           /\ answer' = "searching"
      BY <1>0, <2>1, <3>1 DEF callVars
    <3> QED BY <2>2, <3>9, <3>11, <3>12, <3>13, <3>14 DEF SearchInv
  <2>8. CASE NothingLeft
    <3>1. to_visit = <<>> /\ answer' = "no_cycle" /\ UNCHANGED <<callVars, to_visit, visited>>
      BY <2>8 DEF NothingLeft
    <3>2. SearchTypeOK'
      BY <1>0, <3>1 DEF SearchTypeOK, callVars
    <3> QED BY <1>0, <2>2, <2>3, <3>1, <3>2 DEF SearchInv, callVars
  <2> QED BY <1>3, <2>5, <2>6, <2>7, <2>8 DEF SearchNext
<1> QED BY <1>2, <1>3

(* The stack and the visited items are always a cut through what can be    *)
(* reached, whatever the graph and the order of the search.                *)
THEOREM SearchInvariant == SearchSpec => []SearchInv
<1> QED BY SearchInitInv, SearchStepInv, PTL DEF SearchSpec

(* The searches answer what WouldCreateCycle and WouldCreateParentCycle    *)
(* define, on every graph: the definitions the commands of TaskStore are   *)
(* modelled with are what the code computes.                               *)
THEOREM SearchesAreExact == SearchSpec => []SearchIsExact
<1>1. SearchInv => SearchIsExact
  <2> SUFFICES ASSUME SearchInv PROVE SearchIsExact
    OBVIOUS
  <2> DEFINE E == Edges(relation, items)
  <2>1. ClosesCycle <=> source \in Reachable(E, target)
    BY DEF ClosesCycle, WouldCreateCycle, WouldCreateParentCycle, Edges
  <2>2. answer = "cycle" => source \in Reachable(E, target)
    BY DEF SearchInv, Found
  <2>3. ASSUME answer = "no_cycle" PROVE source \notin Reachable(E, target)
    <3>1. /\ to_visit = <<>> /\ target \in Ids /\ visited \subseteq Ids
          /\ IsItemFile(items) /\ relation \in Relation /\ source \notin visited
      BY <2>3 DEF SearchInv, SearchTypeOK
    <3>2. target \in visited /\ \A x \in visited : Adjacent(x) \subseteq visited
      BY <2>3, <3>1 DEF SearchInv, Elements
    <3>3. DOMAIN E = DOMAIN items
      BY <3>1, EdgesFacts
    <3>4. IsClosed(E, visited)
      BY <3>2, <3>3 DEF IsClosed, Adjacent
    <3> HIDE DEF E
    <3> QED BY <3>1, <3>2, <3>4, ReachableFacts
  <2> QED BY <2>1, <2>2, <2>3 DEF SearchIsExact
<1> QED BY <1>1, SearchInvariant, PTL

(* Every step of a search marks an item, shortens the stack or ends it:    *)
(* there are finitely many items, so that every search ends.               *)
THEOREM SearchesAdvance == SearchSpec => SearchAdvances
<1>1. SearchInv /\ [SearchNext]_searchVars =>
        [ \/ answer # answer'
          \/ visited \subseteq visited' /\ visited # visited'
          \/ visited' = visited /\ Len(to_visit') < Len(to_visit) ]_searchVars
  <2> SUFFICES ASSUME SearchInv, SearchNext
               PROVE  \/ answer # answer'
                      \/ visited \subseteq visited' /\ visited # visited'
                      \/ visited' = visited /\ Len(to_visit') < Len(to_visit)
    OBVIOUS
  <2>1. CASE Reached
    BY <2>1 DEF Reached, Searching
  <2>2. CASE MeetVisited
    <3>1. to_visit \in Seq(Ids) /\ to_visit # <<>> /\ to_visit' = Rest /\ visited' = visited
      BY <2>2 DEF MeetVisited, SearchInv, SearchTypeOK
    <3> QED BY <3>1, PopFacts DEF Rest
  <2>3. CASE Expand
    BY <2>3 DEF Expand
  <2>4. CASE NothingLeft
    BY <2>4 DEF NothingLeft, Searching
  <2> QED BY <2>1, <2>2, <2>3, <2>4 DEF SearchNext
<1> QED BY <1>1, SearchInvariant, PTL DEF SearchSpec, SearchAdvances
-----------------------------------------------------------------------------
(***************************************************************************)
(* The inductive invariant of CycleDetection.                              *)
(***************************************************************************)
GraphOK ==
  /\ kind \in {"dependencies", "parents"}
  /\ DOMAIN edges \subseteq Ids
  /\ edges \in [DOMAIN edges -> SUBSET Ids]
  /\ kind = "parents" => \A x \in DOMAIN edges : \A y, z \in edges[x] : y = z

(* Everyone in S leads to someone in S. *)
Endless(S) == S \subseteq DOMAIN edges /\ \A x \in S : edges[x] \cap S # {}

(* The counts are right; only what waits for nothing has been processed;   *)
(* what is processed is on no cycle.                                       *)
SortOK ==
  /\ processed \subseteq DOMAIN edges
  /\ in_degree =
       [i \in DOMAIN edges |-> Cardinality((edges[i] \cap DOMAIN edges) \ processed)]
  /\ queue = {i \in CycleNodes : in_degree[i] = 0}
  /\ \A x \in processed : (edges[x] \cap DOMAIN edges) \subseteq processed
  /\ \A S \in SUBSET DOMAIN edges : Endless(S) => S \cap processed = {}
  /\ phase # "sort" => queue = {}
  /\ phase = "sort" => starts = {} /\ globally_visited = {} /\ found_cycles = {}

(* As long as nothing is found, no node has been left. *)
PhaseOK ==
  /\ phase \in {"sort", "pick", "search", "walk", "done"}
  /\ starts \subseteq CycleNodes
  /\ globally_visited \subseteq CycleNodes
  /\ phase = "search" => kind = "dependencies"
  /\ phase = "walk" => kind = "parents"
  /\ phase \in {"pick", "search", "walk"} => CycleNodes # {}
  /\ phase = "pick" /\ found_cycles = {} => starts = CycleNodes /\ globally_visited = {}
  /\ phase = "search" /\ found_cycles = {} => stack # <<>> /\ ~Top.backtrack
  /\ phase = "done" => starts = {}
  /\ phase = "done" /\ CycleNodes # {} => found_cycles # {}
  /\ \A cycle \in found_cycles : cycle \in Seq(DOMAIN edges) /\ IsCycle(cycle)

(* A way through cycle nodes that meets none of them twice. *)
IsPath(q) ==
  /\ q \in Seq(CycleNodes)
  /\ \A j, k \in 1..Len(q) : q[j] = q[k] => j = k
  /\ \A k \in 1..(Len(q) - 1) : q[k + 1] \in edges[q[k]]

Entry == [node : CycleNodes, backtrack : BOOLEAN]

(* The k-th of the n nodes of the path is left at the entry pos[k] of the  *)
(* l entries of the stack.  Above it, and below the next such entry, are   *)
(* successors of that node.                                                *)
Above(pos, n, k, i) == pos[k] < i /\ \A m \in 1..n : k < m => i < pos[m]

StackOK(pos, n, l) ==
  /\ pos \in [1..n -> 1..l]
  /\ \A k \in 1..n : stack[pos[k]] = Leave(path[k])
  /\ \A j, k \in 1..n : j < k => pos[j] < pos[k]
  /\ \A i \in 1..l : stack[i].backtrack => \E k \in 1..n : pos[k] = i
  /\ \A i \in 1..l : ~stack[i].backtrack =>
        \/ i = 1 /\ path = <<>>
        \/ \E k \in 1..n : Above(pos, n, k, i) /\ stack[i].node \in edges[path[k]]

(* Every cycle that closes on a way that begins with the first k nodes of  *)
(* p and goes on with y has been found.                                    *)
Covered(p, k, y) ==
  \A q \in Seq(CycleNodes) :
     (IsPath(q) /\ k < Len(q) /\ (\A j \in 1..k : q[j] = p[j]) /\ q[k + 1] = y)
     => \A i \in 1..Len(q) :
           q[i] \in edges[q[Len(q)]] => SubSeq(q, i, Len(q)) \in found_cycles

(* A successor of the k-th node of the path still has to be entered, is    *)
(* the next node, has closed a cycle, or is done with.                     *)
Attended(pos, n, l, k, y) ==
  \/ \E i \in 1..l : Above(pos, n, k, i) /\ stack[i] = Enter(y)
  \/ k < n /\ path[k + 1] = y
  \/ \E j \in 1..k : path[j] = y /\ SubSeq(path, j, k) \in found_cycles
  \/ (\A j \in 1..k : path[j] # y) /\ Covered(path, k, y)

AllAttended(pos, n, l) ==
  \A k \in 1..n : \A y \in edges[path[k]] \cap CycleNodes : Attended(pos, n, l, k, y)

PathOK ==
  phase = "search" =>
    /\ stack \in Seq(Entry)
    /\ IsPath(path) /\ path_set = Elements(path)
    /\ \E pos \in [1..Len(path) -> 1..Len(stack)] :
          /\ StackOK(pos, Len(path), Len(stack))
          /\ AllAttended(pos, Len(path), Len(stack))

(* What has been visited can be reached from a start all of whose cycles   *)
(* have been found, or from the one at work.                               *)
VisitedOK ==
  kind = "dependencies" =>
    /\ \A x \in globally_visited : \E p \in Seq(CycleNodes) :
          /\ IsPath(p) /\ p # <<>> /\ p[Len(p)] = x
          /\ \/ Covered(<<>>, 0, p[1])
             \/ phase = "search" /\ path # <<>> /\ p[1] = path[1]
    /\ phase # "sort" => \A x \in CycleNodes \ starts :
          \/ x \in globally_visited
          \/ phase = "search" /\ path = <<>> /\ stack = <<Enter(x)>>

FirstOnWalk == IF path = <<>> THEN current ELSE path[1]

(* The walk stays in every closed set it began in; what has been visited   *)
(* or started at lies on no cycle that is not reported.                    *)
WalkOK ==
  /\ phase = "walk" =>
       /\ current \in CycleNodes /\ IsPath(path)
       /\ path # <<>> => current \in edges[path[Len(path)]]
       /\ \A A \in SUBSET Ids :
             FirstOnWalk \in A /\ (\A x \in A \cap CycleNodes : edges[x] \subseteq A)
             => Elements(path) \cup {current} \subseteq A
  /\ kind = "parents" =>
       /\ \A x \in globally_visited : \E f \in found_cycles : x \in Elements(f)
       /\ phase # "sort" => \A x \in CycleNodes \ starts :
            \/ phase = "walk" /\ x = FirstOnWalk
            \/ \A cycle \in Seq(DOMAIN edges) :
                  IsCycle(cycle) /\ x \in Elements(cycle) =>
                    \E f \in found_cycles : EdgesOn(f) = EdgesOn(cycle)

DetectionInv == GraphOK /\ SortOK /\ PhaseOK /\ PathOK /\ VisitedOK /\ WalkOK

-----------------------------------------------------------------------------
(* Lemmas on sequences.                                                    *)
LEMMA SubSeqFacts ==
  ASSUME NEW S, NEW s \in Seq(S), NEW j \in 1..Len(s)
  PROVE  /\ SubSeq(s, j, Len(s)) \in Seq(S)
         /\ Len(SubSeq(s, j, Len(s))) = Len(s) - j + 1
         /\ \A i \in 1..(Len(s) - j + 1) : SubSeq(s, j, Len(s))[i] = s[j + i - 1]
<1> DEFINE n == Len(s)
           r == SubSeq(s, j, n)
<1>1. n \in Nat /\ j \in Int /\ n \in Int /\ j <= n
  OBVIOUS
<1>2. \A i \in j..n : s[i] \in S
  OBVIOUS
<1>3. /\ r \in Seq(S)
      /\ Len(r) = IF j <= n THEN n - j + 1 ELSE 0
      /\ \A i \in 1..(n - j + 1) : r[i] = s[j + i - 1]
  BY <1>1, <1>2, SubSeqProperties
<1> QED BY <1>1, <1>3

(* A part of a sequence depends on nothing else of it.                     *)
LEMMA SubSeqAgree ==
  ASSUME NEW S, NEW s \in Seq(S), NEW t \in Seq(S), NEW j \in Nat, NEW k \in Nat,
         1 <= j, j <= k, k <= Len(s), k <= Len(t),
         \A i \in j..k : s[i] = t[i]
  PROVE  SubSeq(s, j, k) = SubSeq(t, j, k)
<1> DEFINE u == SubSeq(s, j, k)
           v == SubSeq(t, j, k)
<1>1. (\A i \in j..k : s[i] \in S) /\ (\A i \in j..k : t[i] \in S)
  OBVIOUS
<1>2. /\ u \in Seq(S) /\ Len(u) = IF j <= k THEN k - j + 1 ELSE 0
      /\ \A i \in 1..(k - j + 1) : u[i] = s[j + i - 1]
  BY <1>1, SubSeqProperties
<1>3. /\ v \in Seq(S) /\ Len(v) = IF j <= k THEN k - j + 1 ELSE 0
      /\ \A i \in 1..(k - j + 1) : v[i] = t[j + i - 1]
  BY <1>1, SubSeqProperties
<1> HIDE DEF u, v
<1>4. ASSUME NEW i \in 1..(k - j + 1) PROVE u[i] = v[i]
  <2>1. PICK l \in Int : l = j + i - 1
    OBVIOUS
  <2>2. l \in j..k
    BY <2>1
  <2>3. s[l] = t[l]
    BY <2>2
  <2> QED BY ONLY <1>2, <1>3, <1>4, <2>1, <2>3
<1>5. Len(u) = k - j + 1 /\ Len(v) = k - j + 1
  BY <1>2, <1>3
<1>6. u \in [1..(k - j + 1) -> S] /\ v \in [1..(k - j + 1) -> S]
  BY <1>2, <1>3, <1>5
<1> QED BY <1>4, <1>6 DEF u, v

(* Without its last element.                                               *)
LEMMA ButlastFacts ==
  ASSUME NEW S, NEW s \in Seq(S), s # <<>>
  PROVE  /\ Len(s) \in Nat /\ Len(s) >= 1 /\ s[Len(s)] \in S
         /\ Butlast(s) \in Seq(S)
         /\ Len(Butlast(s)) = Len(s) - 1
         /\ \A k \in 1..(Len(s) - 1) : Butlast(s)[k] = s[k]
BY PopFacts DEF Butlast

(* One pushed on a sequence.                                               *)
LEMMA AppendFacts ==
  ASSUME NEW S, NEW s \in Seq(S), NEW x \in S
  PROVE  /\ Append(s, x) \in Seq(S)
         /\ Len(s) \in Nat /\ Len(Append(s, x)) = Len(s) + 1
         /\ \A k \in 1..Len(s) : Append(s, x)[k] = s[k]
         /\ Append(s, x)[Len(s) + 1] = x
         /\ Elements(Append(s, x)) = Elements(s) \cup {x}
<1> DEFINE t == Append(s, x)
<1>1. /\ t \in Seq(S) /\ Len(s) \in Nat /\ Len(t) = Len(s) + 1
      /\ \A k \in 1..Len(s) : t[k] = s[k]
      /\ t[Len(s) + 1] = x
  OBVIOUS
<1> HIDE DEF t
<1>2. Elements(t) = Elements(s) \cup {x}
  <2>1. 1..Len(t) = 1..Len(s) \cup {Len(s) + 1}
    BY <1>1
  <2> QED BY <1>1, <2>1 DEF Elements
<1> QED BY <1>1, <1>2 DEF t

(* The least number of a set.                                              *)
LEMMA LeastNumber ==
  ASSUME NEW T \in SUBSET Nat, T # {}
  PROVE  \E m \in T : \A k \in T : m <= k
<1>1. \E m \in T : \A k \in T : ~(<<k, m>> \in OpToRel(<, Nat))
  BY NatLessThanWellFounded, WFMin
<1>2. PICK m \in T : \A k \in T : ~(<<k, m>> \in OpToRel(<, Nat))
  BY <1>1
<1>3. ASSUME NEW k \in T PROVE m <= k
  <2>1. ~(k < m)
    BY <1>2 DEF OpToRel
  <2> QED BY <2>1
<1> QED BY <1>3
-----------------------------------------------------------------------------
(* What follows the k-th of n items on a cycle; one can begin at any of    *)
(* them, and the others follow in the same order.                          *)
After(n) == [k \in 1..n |-> IF k = n THEN 1 ELSE k + 1]

IsTurn(n, r, t) ==
  /\ t[1] = r
  /\ \A j, k \in 1..n : t[j] = t[k] => j = k
  /\ \A k \in 1..n : t[After(n)[k]] = After(n)[t[k]]
  /\ \A j \in 1..n : \E k \in 1..n : t[k] = j

(* The turn that begins at the r-th.                                       *)
LEMMA Turning ==
  ASSUME NEW n \in Nat, NEW r \in 1..n
  PROVE  /\ After(n) \in [1..n -> 1..n]
         /\ \E t \in [1..n -> 1..n] : IsTurn(n, r, t)
<1> DEFINE t == [k \in 1..n |-> IF r + k - 1 <= n THEN r + k - 1 ELSE r + k - 1 - n]
           a == After(n)
<1>1. \A k \in 1..n : t[k] = IF r + k - 1 <= n THEN r + k - 1 ELSE r + k - 1 - n
  OBVIOUS
<1>2. \A k \in 1..n : a[k] = IF k = n THEN 1 ELSE k + 1
  BY DEF After
<1>3. t \in [1..n -> 1..n] /\ a \in [1..n -> 1..n]
  BY DEF After
<1> HIDE DEF t, a
<1>4. t[1] = r
  BY <1>1
<1>5. \A j, k \in 1..n : t[j] = t[k] => j = k
  BY <1>1
<1>6. ASSUME NEW k \in 1..n PROVE t[a[k]] = a[t[k]]
  <2>1. PICK i \in 1..n, l \in 1..n : i = a[k] /\ l = t[k]
    BY <1>3
  <2>2. t[i] = a[l]
    BY <1>1, <1>2, <2>1
  <2> QED BY <2>1, <2>2
<1>7. ASSUME NEW j \in 1..n PROVE \E k \in 1..n : t[k] = j
  <2>1. CASE r <= j
    <3>1. PICK k \in Int : k = j - r + 1
      OBVIOUS
    <3>2. k \in 1..n /\ t[k] = j
      BY <1>1, <2>1, <3>1
    <3> QED BY <3>2
  <2>2. CASE ~(r <= j)
    <3>1. PICK k \in Int : k = j - r + 1 + n
      OBVIOUS
    <3>2. k \in 1..n /\ t[k] = j
      BY <1>1, <2>2, <3>1
    <3> QED BY <3>2
  <2> QED BY <2>1, <2>2
<1> QED BY <1>3, <1>4, <1>5, <1>6, <1>7 DEF a, IsTurn

(* A cycle, said with After.                                               *)
LEMMA CycleFacts ==
  ASSUME NEW D, NEW c \in Seq(D), IsCycle(c)
  PROVE  /\ Len(c) \in Nat /\ 1 \in 1..Len(c) /\ Len(c) \in 1..Len(c)
         /\ \A k \in 1..Len(c) : c[k] \in DOMAIN edges
         /\ After(Len(c)) \in [1..Len(c) -> 1..Len(c)]
         /\ \A k \in 1..Len(c) : c[After(Len(c))[k]] \in edges[c[k]]
         /\ \A k \in 1..Len(c) : <<c[k], c[After(Len(c))[k]]>> \in EdgesOn(c)
         /\ \A e \in EdgesOn(c) :
               \E k \in 1..Len(c) : e = <<c[k], c[After(Len(c))[k]]>>
<1>0. PICK n \in Nat : n = Len(c)
  OBVIOUS
<1>1. n >= 1
  BY <1>0 DEF IsCycle
<1>2. \A k \in 1..n : c[k] \in DOMAIN edges
  BY <1>0 DEF IsCycle, Elements
<1>3. /\ \A k \in 1..(n - 1) : c[k + 1] \in edges[c[k]]
      /\ c[1] \in edges[c[n]]
  BY <1>0 DEF IsCycle
<1>4. PICK a \in [1..n -> 1..n] :
         a = After(n) /\ \A k \in 1..n : a[k] = IF k = n THEN 1 ELSE k + 1
  <2>1. After(n) \in [1..n -> 1..n] /\ \A k \in 1..n : After(n)[k] = IF k = n THEN 1 ELSE k + 1
    BY <1>1 DEF After
  <2> QED BY <2>1
<1>5. ASSUME NEW k \in 1..n PROVE c[a[k]] \in edges[c[k]]
  <2>1. CASE k = n
    BY <1>3, <1>4, <2>1
  <2>2. CASE k # n
    <3>1. k \in 1..(n - 1) /\ a[k] = k + 1
      BY <1>4, <1>5, <2>2
    <3> QED BY <1>3, <3>1
  <2> QED BY <2>1, <2>2
<1>6. EdgesOn(c) = {<<c[k], c[k + 1]>> : k \in 1..(n - 1)} \cup {<<c[n], c[1]>>}
  BY <1>0 DEF EdgesOn
<1>7. ASSUME NEW k \in 1..(n - 1)
      PROVE  k \in 1..n /\ a[k] = k + 1
  BY <1>1, <1>4, <1>7
<1>8. n \in 1..n /\ a[n] = 1 /\ 1 \in 1..n
  BY <1>1, <1>4
<1>9. 1..n = 1..(n - 1) \cup {n}
  BY <1>1
<1>10. \A e \in EdgesOn(c) : \E k \in 1..n : e = <<c[k], c[a[k]]>>
  <2>1. \A k \in 1..(n - 1) : \E j \in 1..n : <<c[k], c[k + 1]>> = <<c[j], c[a[j]]>>
    BY <1>7
  <2>2. \E j \in 1..n : <<c[n], c[1]>> = <<c[j], c[a[j]]>>
    BY <1>8
  <2> QED BY <1>6, <2>1, <2>2
<1>11. \A k \in 1..n : <<c[k], c[a[k]]>> \in EdgesOn(c)
  <2>3. ASSUME NEW k \in 1..n PROVE <<c[k], c[a[k]]>> \in EdgesOn(c)
    <3>1. CASE k = n
      BY <1>6, <1>8, <3>1
    <3>2. CASE k # n
      <4>1. k \in 1..(n - 1)
        BY <3>2
      <4> QED BY <1>6, <1>7, <4>1
    <3> QED BY <3>1, <3>2
  <2> QED BY <2>3
<1> QED BY <1>0, <1>2, <1>4, <1>5, <1>8, <1>10, <1>11

(* One can begin a cycle at any item of it: it is the same cycle.          *)
LEMMA Rotation ==
  ASSUME NEW D, NEW c \in Seq(D), IsCycle(c), NEW x \in Elements(c)
  PROVE  \E d \in Seq(D) :
            /\ IsCycle(d) /\ d[1] = x /\ Len(d) = Len(c)
            /\ Elements(d) = Elements(c) /\ EdgesOn(d) = EdgesOn(c)
<1>0. PICK n \in Nat : n = Len(c)
  OBVIOUS
<1>1. PICK r \in 1..n : c[r] = x
  BY <1>0 DEF Elements
<1>2. /\ 1 \in 1..n /\ n \in 1..n
      /\ \A k \in 1..n : c[k] \in DOMAIN edges /\ c[k] \in D
      /\ \A j, k \in 1..n : c[j] = c[k] => j = k
  <2>1. /\ 1 \in 1..Len(c) /\ Len(c) \in 1..Len(c)
        /\ \A k \in 1..Len(c) : c[k] \in DOMAIN edges
    BY CycleFacts
  <2>2. \A k \in 1..n : c[k] \in D
    BY <1>0
  <2>3. \A j, k \in 1..n : c[j] = c[k] => j = k
    BY <1>0 DEF IsCycle
  <2> QED BY <1>0, <2>1, <2>2, <2>3
<1>3. PICK a : /\ a = After(n) /\ a \in [1..n -> 1..n]
               /\ \A k \in 1..n : c[a[k]] \in edges[c[k]]
               /\ \A k \in 1..n : <<c[k], c[a[k]]>> \in EdgesOn(c)
               /\ \A e \in EdgesOn(c) : \E k \in 1..n : e = <<c[k], c[a[k]]>>
  BY <1>0, CycleFacts
<1>4. PICK t \in [1..n -> 1..n] :
              /\ t[1] = r
              /\ \A j, k \in 1..n : t[j] = t[k] => j = k
              /\ \A k \in 1..n : t[a[k]] = a[t[k]]
              /\ \A j \in 1..n : \E k \in 1..n : t[k] = j
  <2>1. PICK t \in [1..n -> 1..n] : IsTurn(n, r, t)
    BY Turning
  <2> QED BY <1>3, <2>1 DEF IsTurn
<1>5. PICK d \in [1..n -> D] : \A k \in 1..n : d[k] = c[t[k]]
  <2>1. [k \in 1..n |-> c[t[k]]] \in [1..n -> D]
    BY <1>2, <1>4
  <2> QED BY <2>1
<1>6. d \in Seq(D) /\ Len(d) = n
  BY <1>5
<1>7. d[1] = x
  BY <1>1, <1>2, <1>4, <1>5
<1>8. ASSUME NEW k \in 1..n
      PROVE  t[k] \in 1..n /\ a[k] \in 1..n /\ d[k] = c[t[k]] /\ d[a[k]] = c[a[t[k]]]
  <2>1. t[k] \in 1..n /\ a[k] \in 1..n
    BY <1>3, <1>4
  <2>2. d[k] = c[t[k]] /\ d[a[k]] = c[t[a[k]]]
    BY <1>5, <2>1
  <2> QED BY <1>4, <2>1, <2>2
<1>9. Elements(d) = Elements(c)
  <2>1. Elements(d) = {d[k] : k \in 1..n} /\ Elements(c) = {c[k] : k \in 1..n}
    BY <1>0, <1>6 DEF Elements
  <2>2. \A k \in 1..n : d[k] \in {c[j] : j \in 1..n}
    BY <1>8
  <2>3. \A j \in 1..n : c[j] \in {d[k] : k \in 1..n}
    <3>1. SUFFICES ASSUME NEW j \in 1..n PROVE \E k \in 1..n : c[j] = d[k]
      OBVIOUS
    <3>2. PICK k \in 1..n : t[k] = j
      BY <1>4
    <3> QED BY <1>8, <3>2
  <2> QED BY <2>1, <2>2, <2>3
<1>10. \A k \in 1..n : d[a[k]] \in edges[d[k]]
  BY <1>3, <1>8
<1>11. \A k \in 1..n : a[k] = IF k = n THEN 1 ELSE k + 1
  BY <1>3 DEF After
<1>12. IsCycle(d)
  <2>1. d # <<>> /\ Elements(d) \subseteq DOMAIN edges
    BY <1>2, <1>6, <1>9 DEF IsCycle
  <2>2. ASSUME NEW j \in 1..n, NEW k \in 1..n, d[j] = d[k] PROVE j = k
    <3>1. t[j] \in 1..n /\ t[k] \in 1..n /\ c[t[j]] = c[t[k]]
      BY <1>8, <2>2
    <3>2. t[j] = t[k]
      BY <1>2, <3>1
    <3> QED BY <1>4, <3>2
  <2>3. ASSUME NEW k \in 1..(n - 1) PROVE d[k + 1] \in edges[d[k]]
    <3>1. k \in 1..n /\ a[k] = k + 1
      BY <1>11, <2>3
    <3> QED BY <1>10, <3>1
  <2>4. d[1] \in edges[d[n]]
    BY <1>2, <1>10, <1>11
  <2> QED BY <1>6, <2>1, <2>2, <2>3, <2>4 DEF IsCycle
<1>13. EdgesOn(d) = EdgesOn(c)
  <2>1. /\ \A k \in 1..n : <<d[k], d[a[k]]>> \in EdgesOn(d)
        /\ \A e \in EdgesOn(d) : \E k \in 1..n : e = <<d[k], d[a[k]]>>
    <3>1. /\ \A k \in 1..Len(d) : <<d[k], d[After(Len(d))[k]]>> \in EdgesOn(d)
          /\ \A e \in EdgesOn(d) :
                \E k \in 1..Len(d) : e = <<d[k], d[After(Len(d))[k]]>>
      BY <1>6, <1>12, CycleFacts
    <3>2. Len(d) = n /\ After(Len(d)) = a
      BY <1>3, <1>6
    <3> QED BY ONLY <3>1, <3>2
  <2>2. \A k \in 1..n : <<d[k], d[a[k]]>> \in EdgesOn(c)
    BY <1>3, <1>8
  <2>3. \A j \in 1..n : <<c[j], c[a[j]]>> \in EdgesOn(d)
    <3>1. SUFFICES ASSUME NEW j \in 1..n PROVE <<c[j], c[a[j]]>> \in EdgesOn(d)
      OBVIOUS
    <3>2. PICK k \in 1..n : t[k] = j
      BY <1>4
    <3>3. <<d[k], d[a[k]]>> = <<c[j], c[a[j]]>>
      BY <1>8, <3>2
    <3> QED BY <2>1, <3>3
  <2>4. \A e \in EdgesOn(d) : e \in EdgesOn(c)
    BY <2>1, <2>2
  <2>5. \A e \in EdgesOn(c) : e \in EdgesOn(d)
    BY <1>3, <2>3
  <2> QED BY <2>4, <2>5 DEF EdgesOn
<1> QED BY <1>0, <1>6, <1>7, <1>9, <1>12, <1>13
-----------------------------------------------------------------------------
(* A closed set that meets a cycle holds all of it.                        *)
LEMMA ClosedCycle ==
  ASSUME NEW D, NEW c \in Seq(D), IsCycle(c), NEW A, NEW x \in Elements(c), x \in A,
         \A y \in Elements(c) \cap A : edges[y] \subseteq A
  PROVE  Elements(c) \subseteq A
<1>1. PICK d \in Seq(D) : IsCycle(d) /\ d[1] = x /\ Elements(d) = Elements(c)
  BY Rotation
<1>2. PICK n \in Nat : n = Len(d)
  OBVIOUS
<1>3. /\ \A k \in 1..(n - 1) : d[k + 1] \in edges[d[k]]
      /\ \A k \in 1..n : d[k] \in Elements(d)
  BY <1>1, <1>2 DEF IsCycle, Elements
<1>4. SUFFICES ASSUME NEW j \in 1..n, d[j] \notin A PROVE FALSE
  BY <1>1, <1>2 DEF Elements
<1> DEFINE T == {k \in 1..n : d[k] \notin A}
<1>5. T \in SUBSET Nat /\ T # {}
  BY <1>4
<1>6. PICK m \in T : \A k \in T : m <= k
  <2> HIDE DEF T
  <2> QED BY <1>5, LeastNumber
<1>7. m \in 1..n /\ d[m] \notin A /\ m # 1
  BY <1>1
<1>8. PICK k \in Int : k = m - 1
  BY <1>7
<1>9. k \in 1..(n - 1) /\ k + 1 = m /\ k \in 1..n /\ ~(m <= k)
  BY <1>7, <1>8
<1>10. d[k] \in A
  BY <1>6, <1>9
<1>11. d[m] \in A
  BY <1>1, <1>3, <1>9, <1>10
<1> QED BY <1>7, <1>11

(* Where an item has one parent at most, its parent comes after it.        *)
LEMMA ParentsOnCycle ==
  ASSUME GraphOK, kind = "parents", NEW D, NEW c \in Seq(D), IsCycle(c),
         NEW x \in Elements(c)
  PROVE  edges[x] \subseteq Elements(c)
<1>1. PICK n, a : n = Len(c) /\ a = After(n)
  OBVIOUS
<1>2. PICK k \in 1..n : x = c[k]
  BY <1>1 DEF Elements
<1>3. a[k] \in 1..n /\ c[a[k]] \in edges[x] /\ x \in DOMAIN edges
  BY <1>1, <1>2, CycleFacts
<1>4. \A y \in edges[x] : y = c[a[k]]
  BY <1>3 DEF GraphOK
<1> QED BY <1>1, <1>3, <1>4 DEF Elements

(* Two cycles of parents that share an item are the same.                  *)
LEMMA SameWalk ==
  ASSUME GraphOK, kind = "parents", NEW D, NEW c \in Seq(D), IsCycle(c),
         NEW d \in Seq(D), IsCycle(d), c[1] = d[1], Len(c) <= Len(d)
  PROVE  c = d
<1>1. PICK n \in Nat, m \in Nat : n = Len(c) /\ m = Len(d)
  OBVIOUS
<1>2. /\ n >= 1 /\ n <= m
      /\ \A k \in 1..(n - 1) : c[k + 1] \in edges[c[k]]
      /\ c[1] \in edges[c[n]]
      /\ \A k \in 1..(m - 1) : d[k + 1] \in edges[d[k]]
      /\ \A j, k \in 1..m : d[j] = d[k] => j = k
  BY <1>1 DEF IsCycle
<1>3. /\ \A x \in DOMAIN edges : \A y, z \in edges[x] : y = z
      /\ \A k \in 1..m : d[k] \in DOMAIN edges
  BY <1>1, CycleFacts DEF GraphOK
<1> DEFINE T == {k \in 1..n : c[k] # d[k]}
<1>4. T = {}
  <2>1. SUFFICES ASSUME T # {} PROVE FALSE
    OBVIOUS
  <2>2. PICK l \in T : \A k \in T : l <= k
    <3>1. T \in SUBSET Nat
      OBVIOUS
    <3> HIDE DEF T
    <3> QED BY <2>1, <3>1, LeastNumber
  <2>3. l \in 1..n /\ c[l] # d[l] /\ l # 1
    OBVIOUS
  <2>4. PICK k \in Int : k = l - 1
    BY <2>3
  <2>5. k \in 1..(n - 1) /\ k \in 1..(m - 1) /\ k \in 1..n /\ k \in 1..m /\ k + 1 = l /\ ~(l <= k)
    BY <1>2, <2>3, <2>4
  <2>6. c[k] = d[k]
    BY <2>2, <2>5
  <2>7. c[l] \in edges[d[k]] /\ d[l] \in edges[d[k]] /\ d[k] \in DOMAIN edges
    BY <1>2, <1>3, <2>5, <2>6
  <2> QED BY <1>3, <2>3, <2>7
<1>5. \A k \in 1..n : c[k] = d[k]
  BY <1>4
<1>6. n = m
  <2>1. SUFFICES ASSUME n < m PROVE FALSE
    BY <1>2
  <2>2. n \in 1..(m - 1) /\ n \in 1..n /\ n \in 1..m /\ n + 1 \in 1..m /\ 1 \in 1..m /\ n + 1 # 1
    BY <1>2, <2>1
  <2>3. c[1] \in edges[d[n]] /\ d[n + 1] \in edges[d[n]] /\ d[n] \in DOMAIN edges
    BY <1>2, <1>3, <1>5, <2>2
  <2>4. d[n + 1] = d[1]
    BY <1>3, <2>3
  <2> QED BY <1>2, <2>2, <2>4
<1>7. c \in [1..n -> D]
  BY <1>1
<1>8. d \in [1..n -> D]
  BY <1>1, <1>6
<1> QED BY <1>5, <1>7, <1>8

(* An item has one parent: cycles of parents that share an item are one.   *)
LEMMA SharedCycle ==
  ASSUME GraphOK, kind = "parents", NEW D, NEW c \in Seq(D), IsCycle(c),
         NEW d \in Seq(D), IsCycle(d), NEW x \in Elements(c), x \in Elements(d)
  PROVE  EdgesOn(c) = EdgesOn(d)
<1>1. PICK c1 \in Seq(D) : IsCycle(c1) /\ c1[1] = x /\ EdgesOn(c1) = EdgesOn(c)
  BY Rotation
<1>2. PICK d1 \in Seq(D) : IsCycle(d1) /\ d1[1] = x /\ EdgesOn(d1) = EdgesOn(d)
  BY Rotation
<1>3. Len(c1) \in Nat /\ Len(d1) \in Nat
  OBVIOUS
<1>4. Len(c1) <= Len(d1) \/ Len(d1) <= Len(c1)
  BY <1>3
<1>5. c1 = d1
  BY <1>1, <1>2, <1>4, SameWalk
<1> QED BY <1>1, <1>2, <1>5

(* What a node of the path leads back to closes a cycle.                   *)
LEMMA SubPathCycle ==
  ASSUME NEW q, IsPath(q), NEW i \in 1..Len(q), q[i] \in edges[q[Len(q)]]
  PROVE  /\ SubSeq(q, i, Len(q)) \in Seq(DOMAIN edges)
         /\ IsCycle(SubSeq(q, i, Len(q)))
         /\ q[i] \in Elements(SubSeq(q, i, Len(q)))
<1>1. q \in Seq(CycleNodes)
  BY DEF IsPath
<1>2. q \in Seq(DOMAIN edges)
  BY <1>1 DEF CycleNodes
<1>3. PICK n \in Nat : n = Len(q)
  BY <1>1
<1>4. PICK l \in Int : l = n - i + 1
  <2>1. n - i + 1 \in Int
    BY ONLY n \in Nat, i \in 1..Len(q)
  <2> QED BY <2>1
<1>r. PICK r : r = SubSeq(q, i, n)
  OBVIOUS
<1>5. /\ r \in Seq(DOMAIN edges) /\ Len(r) = l
      /\ \A j \in 1..l : r[j] = q[i + j - 1]
  BY <1>2, <1>3, <1>4, <1>r, SubSeqFacts
<1>6. /\ \A j, k \in 1..n : q[j] = q[k] => j = k
      /\ \A k \in 1..(n - 1) : q[k + 1] \in edges[q[k]]
  BY <1>3 DEF IsPath
<1>7. l >= 1 /\ l = n - i + 1 /\ i \in 1..n
  BY <1>3, <1>4
<1>8. ASSUME NEW j \in 1..l
      PROVE  \E k \in 1..n : k = i + j - 1 /\ r[j] = q[k]
  <2>1. PICK k \in Int : k = i + j - 1
    BY <1>7
  <2> QED BY <1>5, <1>7, <2>1
<1>9. \A j, k \in 1..l : r[j] = r[k] => j = k
  <2>1. SUFFICES ASSUME NEW j \in 1..l, NEW k \in 1..l, r[j] = r[k] PROVE j = k
    OBVIOUS
  <2>2. PICK j1 \in 1..n : j1 = i + j - 1 /\ r[j] = q[j1]
    BY <1>8
  <2>3. PICK k1 \in 1..n : k1 = i + k - 1 /\ r[k] = q[k1]
    BY <1>8
  <2>4. j1 = k1
    BY <1>6, <2>1, <2>2, <2>3
  <2> QED BY <1>7, <2>2, <2>3, <2>4
<1>10. ASSUME NEW k \in 1..(l - 1) PROVE r[k + 1] \in edges[r[k]]
  <2>1. k \in 1..l /\ k + 1 \in 1..l
    BY <1>7
  <2>2. PICK j \in 1..n : j = i + k - 1 /\ r[k] = q[j]
    BY <1>8, <2>1
  <2>3. PICK h \in 1..n : h = i + (k + 1) - 1 /\ r[k + 1] = q[h]
    BY <1>8, <2>1
  <2>4. h = j + 1 /\ j \in 1..(n - 1)
    BY <1>7, <2>2, <2>3
  <2> QED BY <1>6, <2>2, <2>3, <2>4
<1>11. r[1] = q[i] /\ r[l] = q[n] /\ 1 \in 1..l
  <2>1. 1 \in 1..l /\ l \in 1..l
    BY <1>7
  <2>2. PICK j \in 1..n : j = i + 1 - 1 /\ r[1] = q[j]
    BY <1>8, <2>1
  <2>3. PICK h \in 1..n : h = i + l - 1 /\ r[l] = q[h]
    BY <1>8, <2>1
  <2> QED BY <1>7, <2>1, <2>2, <2>3
<1>12. r # <<>> /\ Elements(r) \subseteq DOMAIN edges
  BY <1>5, <1>7 DEF Elements
<1>13. IsCycle(r)
  BY <1>3, <1>5, <1>9, <1>10, <1>11, <1>12 DEF IsCycle
<1>14. q[i] \in Elements(r)
  BY <1>5, <1>11 DEF Elements
<1> QED BY <1>3, <1>r, <1>5, <1>13, <1>14

(* The position that is unwrapped exists (deps.rs:206).                    *)
LEMMA PositionFacts ==
  ASSUME NEW S, path \in Seq(S), NEW node \in Elements(path)
  PROVE  Position(node) \in 1..Len(path) /\ path[Position(node)] = node
<1>1. PICK n \in Nat : n = Len(path)
  OBVIOUS
<1> DEFINE T == {k \in 1..n : path[k] = node}
<1>2. T \in SUBSET Nat /\ T # {}
  BY <1>1 DEF Elements
<1>3. PICK m \in T : \A k \in T : m <= k
  <2> HIDE DEF T
  <2> QED BY <1>2, LeastNumber
<1>4. m \in 1..n /\ path[m] = node /\ \A j \in 1..(m - 1) : path[j] # node
  BY <1>3
<1>5. \E k \in 1..Len(path) : path[k] = node /\ \A j \in 1..(k - 1) : path[j] # node
  BY <1>1, <1>4
<1> QED BY <1>5 DEF Position

(* The residue of the sort: nothing on a cycle has been processed, and     *)
(* everything left leads to something left.                                *)
LEMMA CycleInNodes ==
  ASSUME SortOK, NEW D, NEW c \in Seq(D), IsCycle(c)
  PROVE  /\ Endless(Elements(c)) /\ Elements(c) # {}
         /\ Elements(c) \subseteq CycleNodes
<1>1. PICK n, a : n = Len(c) /\ a = After(n)
  OBVIOUS
<1>2. /\ 1 \in 1..n /\ \A k \in 1..n : c[k] \in DOMAIN edges
      /\ a \in [1..n -> 1..n]
      /\ \A k \in 1..n : c[a[k]] \in edges[c[k]]
  BY <1>1, CycleFacts
<1>3. Endless(Elements(c))
  <2>1. Elements(c) \subseteq DOMAIN edges
    BY <1>1, <1>2 DEF Elements
  <2>2. ASSUME NEW x \in Elements(c) PROVE edges[x] \cap Elements(c) # {}
    <3>1. PICK k \in 1..n : x = c[k]
      BY <1>1 DEF Elements
    <3>2. c[a[k]] \in edges[c[k]] /\ a[k] \in 1..n
      BY <1>2
    <3>3. c[a[k]] \in Elements(c)
      BY <1>1, <3>2 DEF Elements
    <3> QED BY <3>1, <3>2, <3>3
  <2> QED BY <2>1, <2>2 DEF Endless
<1>4. Elements(c) # {}
  BY <1>1, <1>2 DEF Elements
<1>5. Elements(c) \in SUBSET DOMAIN edges
  BY <1>3 DEF Endless
<1> QED BY <1>3, <1>4, <1>5 DEF SortOK, CycleNodes

(* What the sort leaves over leads on to what it leaves over.              *)
LEMMA Residue ==
  ASSUME GraphOK, SortOK, phase # "sort", NEW x \in CycleNodes
  PROVE  edges[x] \cap CycleNodes # {}
<1>1. SUFFICES ASSUME edges[x] \cap CycleNodes = {} PROVE FALSE
  OBVIOUS
<1>2. (edges[x] \cap DOMAIN edges) \ processed = {}
  BY <1>1 DEF CycleNodes
<1>3. in_degree[x] = Cardinality({})
  BY <1>2 DEF SortOK, CycleNodes
<1>4. in_degree[x] = 0
  BY <1>3, FS_EmptySet
<1> QED BY <1>4 DEF SortOK
-----------------------------------------------------------------------------
(* The path from a node that its end leads back to is a cycle.             *)
LEMMA CycleAtFacts ==
  ASSUME IsPath(path), NEW node \in Elements(path), node \in edges[path[Len(path)]]
  PROVE  /\ CycleAt(node) \in Seq(DOMAIN edges) /\ IsCycle(CycleAt(node))
         /\ node \in Elements(CycleAt(node))
         /\ Position(node) \in 1..Len(path) /\ path[Position(node)] = node
<1>1. path \in Seq(CycleNodes)
  BY DEF IsPath
<1>2. Position(node) \in 1..Len(path) /\ path[Position(node)] = node
  BY <1>1, PositionFacts
<1> QED BY <1>2, SubPathCycle DEF CycleAt

(* What is pushed for a set.                                               *)
LEMMA PushesFacts ==
  ASSUME NEW S \in SUBSET CycleNodes, DOMAIN edges \subseteq Ids, NEW next \in Pushes(S)
  PROVE  /\ next \in Seq(Entry) /\ Len(next) \in Nat
         /\ \A k \in 1..Len(next) : ~next[k].backtrack /\ next[k].node \in S
         /\ \A n \in S : \E k \in 1..Len(next) : next[k] = Enter(n)
         /\ S # {} => Len(next) >= 1
<1>1. IsFiniteSet(S)
  BY FiniteIds, FS_Subset DEF CycleNodes
<1>2. PICK m \in Nat : m = Cardinality(S)
  BY <1>1, FS_CardinalityType
<1>3. /\ next \in [1..m -> {Enter(n) : n \in S}]
      /\ \A n \in S : \E k \in 1..m : next[k] = Enter(n)
  BY <1>2 DEF Pushes
<1>4. Len(next) = m
  BY <1>2, <1>3
<1>5. \A n \in S : Enter(n) \in Entry /\ ~Enter(n).backtrack /\ Enter(n).node = n
  BY DEF Enter, Entry
<1>6. \A k \in 1..m : \E n \in S : next[k] = Enter(n)
  BY <1>3
<1>7. next \in Seq(Entry)
  <2>1. next \in [1..m -> Entry]
    BY <1>3, <1>5
  <2> QED BY <1>2, <2>1
<1>8. S # {} => m >= 1
  BY <1>3
<1> QED BY <1>2, <1>3, <1>4, <1>5, <1>6, <1>7, <1>8

(* What does not depend on how far the search has come.                    *)
LEMMA Stable ==
  ASSUME edges' = edges, processed' = processed
  PROVE  /\ CycleNodes' = CycleNodes /\ Entry' = Entry
         /\ \A q : IsPath(q)' <=> IsPath(q)
         /\ \A c : IsCycle(c)' <=> IsCycle(c)
<1>1. CycleNodes' = CycleNodes
  BY DEF CycleNodes
<1> QED BY <1>1 DEF Entry, IsPath, IsCycle

(* Whatever is reported later, the cycles of a part stay reported.         *)
LEMMA CoveredGrows ==
  ASSUME edges' = edges, processed' = processed, found_cycles \subseteq found_cycles',
         NEW p, NEW k, NEW y, Covered(p, k, y)
  PROVE  Covered(p, k, y)'
<1>1. CycleNodes' = CycleNodes /\ \A q : IsPath(q)' <=> IsPath(q)
  BY Stable
<1> QED BY <1>1 DEF Covered

(* Every call begins with the invariant.                                   *)
LEMMA DetectionInitInv == DetectionInit => DetectionInv
<1> SUFFICES ASSUME DetectionInit PROVE DetectionInv
  OBVIOUS
<1>1. PICK file \in AllItems : \/ Detect("dependencies", DependencyEdges(file))
                               \/ Detect("parents", ParentEdges(file))
  BY DEF DetectionInit
<1>2. IsItemFile(file)
  BY DEF AllItems, IsItemFile
<1>3. \A i \in DOMAIN file : /\ file[i].dependencies \in SUBSET Ids
                             /\ file[i].parent \in Ids \cup {None}
  BY <1>2 DEF IsItemFile, Item
<1>4. DOMAIN file \subseteq Ids
  BY <1>2 DEF IsItemFile
<1>5. PICK k, g : Detect(k, g) /\ \/ k = "dependencies" /\ g = DependencyEdges(file)
                                  \/ k = "parents" /\ g = ParentEdges(file)
  BY <1>1
<1>6. GraphOK
  <2>1. kind = k /\ edges = g
    BY <1>5 DEF Detect
  <2>2. CASE k = "dependencies"
    BY <1>3, <1>4, <1>5, <2>1, <2>2 DEF GraphOK, DependencyEdges
  <2>3. CASE k = "parents"
    BY <1>3, <1>4, <1>5, <2>1, <2>3 DEF GraphOK, ParentEdges
  <2> QED BY <1>5, <2>2, <2>3
<1>7. /\ phase = "sort" /\ processed = {} /\ starts = {} /\ globally_visited = {}
      /\ found_cycles = {}
      /\ in_degree = [i \in DOMAIN edges |-> Cardinality(edges[i] \cap DOMAIN edges)]
      /\ queue = {i \in DOMAIN edges : Cardinality(edges[i] \cap DOMAIN edges) = 0}
  BY <1>5 DEF Detect
<1>8. CycleNodes = DOMAIN edges
  BY <1>7 DEF CycleNodes
<1>9. \A i : (edges[i] \cap DOMAIN edges) \ processed = edges[i] \cap DOMAIN edges
  BY <1>7
<1>10. SortOK
  <2>1. in_degree =
          [i \in DOMAIN edges |-> Cardinality((edges[i] \cap DOMAIN edges) \ processed)]
    BY <1>7, <1>9
  <2>2. queue = {i \in CycleNodes : in_degree[i] = 0}
    BY <1>7, <1>8
  <2> QED BY <1>7, <2>1, <2>2 DEF SortOK
<1>11. PhaseOK /\ PathOK /\ VisitedOK /\ WalkOK
  BY <1>7 DEF PhaseOK, PathOK, VisitedOK, WalkOK
<1> QED BY <1>6, <1>10, <1>11 DEF DetectionInv

(* No step changes the graph, and no report is withdrawn.                  *)
LEMMA GraphStep == GraphOK /\ DetectionNext => /\ GraphOK' /\ kind' = kind /\ edges' = edges
                                               /\ found_cycles \subseteq found_cycles'
BY DEF GraphOK, DetectionNext, Process, Sorted, PickStart, AllPicked, Backtrack, CloseCycle,
       EnterNode, SearchEnds, WalkUp, CloseParentCycle

(* Every step but one of the sort leaves the sort as it is.                *)
LEMMA SortEnded ==
  DetectionNext /\ ~Process => phase' # "sort" /\ UNCHANGED sortVars
BY DEF DetectionNext, Sorted, PickStart, AllPicked, Backtrack, CloseCycle,
       EnterNode, SearchEnds, WalkUp, CloseParentCycle

(* Each item sorted takes one off the count of those that wait for it.     *)
LEMMA SortStep == GraphOK /\ SortOK /\ DetectionNext => SortOK'
<1> SUFFICES ASSUME GraphOK, SortOK, DetectionNext PROVE SortOK'
  OBVIOUS
<1>1. edges' = edges
  BY GraphStep
<1>2. CASE ~Process
  <2>1. phase' # "sort" /\ processed' = processed /\ in_degree' = in_degree /\ queue' = queue
    BY <1>2, SortEnded DEF sortVars
  <2>2. CycleNodes' = CycleNodes /\ \A S : Endless(S)' <=> Endless(S)
    BY <1>1, <2>1 DEF CycleNodes, Endless
  <2>3. queue = {}
    BY <1>2 DEF SortOK, DetectionNext, Sorted, PickStart, AllPicked, Backtrack, CloseCycle,
       EnterNode, SearchEnds, WalkUp, CloseParentCycle
  <2> QED BY <1>1, <2>1, <2>2, <2>3 DEF SortOK
<1>3. CASE Process
  <2> DEFINE Left(i) == (edges[i] \cap DOMAIN edges) \ processed
  <2>1. PICK node \in queue :
          /\ processed' = processed \cup {node}
          /\ in_degree' = [i \in DOMAIN edges |->
                             IF i \in Waiting(node) THEN in_degree[i] - 1 ELSE in_degree[i]]
          /\ queue' = (queue \ {node}) \cup {i \in Waiting(node) : in_degree'[i] = 0}
    BY <1>3 DEF Process
  <2>2. phase = "sort" /\ phase' = phase /\ UNCHANGED <<starts, globally_visited, found_cycles>>
    BY <1>3 DEF Process
  <2>3. ASSUME NEW i \in DOMAIN edges
        PROVE  /\ IsFiniteSet(Left(i)) /\ in_degree[i] = Cardinality(Left(i))
               /\ in_degree[i] \in Nat
               /\ in_degree[i] = 0 <=> Left(i) = {}
    <3>1. Left(i) \subseteq Ids
      BY DEF GraphOK
    <3>2. IsFiniteSet(Left(i))
      BY <3>1, FiniteIds, FS_Subset
    <3>3. in_degree[i] = Cardinality(Left(i))
      BY DEF SortOK
    <3> HIDE DEF Left
    <3> QED BY <3>2, <3>3, FS_CardinalityType, FS_EmptySet
  <2>4. /\ node \in DOMAIN edges /\ node \notin processed /\ in_degree[node] = 0
        /\ CycleNodes = DOMAIN edges \ processed
        /\ CycleNodes' = CycleNodes \ {node}
    BY <1>1, <2>1 DEF SortOK, CycleNodes
  <2>5. Left(node) = {}
    BY <2>3, <2>4
  <2>6. \A x \in processed' : (edges[x] \cap DOMAIN edges) \subseteq processed
    BY <2>1, <2>5 DEF SortOK
  <2>7. ASSUME NEW i \in DOMAIN edges
        PROVE  in_degree'[i] = Cardinality(Left(i) \ {node})
    <3>1. i \in Waiting(node) <=> node \in Left(i)
      BY <2>4 DEF Waiting
    <3>2. CASE node \in Left(i)
      <4>1. Cardinality(Left(i) \ {node}) = Cardinality(Left(i)) - 1
        <5>1. IsFiniteSet(Left(i))
          BY <2>3
        <5> HIDE DEF Left
        <5> QED BY <3>2, <5>1, FS_RemoveElement
      <4> HIDE DEF Left
      <4> QED BY <2>1, <2>3, <3>1, <3>2, <4>1
    <3>3. CASE node \notin Left(i)
      <4>1. Left(i) \ {node} = Left(i)
        BY <3>3
      <4> HIDE DEF Left
      <4> QED BY <2>1, <2>3, <3>1, <3>3, <4>1
    <3> QED BY <3>2, <3>3
  <2>8. in_degree' =
          [i \in DOMAIN edges' |-> Cardinality((edges'[i] \cap DOMAIN edges') \ processed')]
    <3>1. \A i \in DOMAIN edges : (edges[i] \cap DOMAIN edges) \ processed' = Left(i) \ {node}
      BY <2>1
    <3>2. in_degree' = [i \in DOMAIN edges |-> in_degree'[i]]
      BY <2>1
    <3>3. \A i \in DOMAIN edges :
             in_degree'[i] = Cardinality((edges[i] \cap DOMAIN edges) \ processed')
      BY <2>7, <3>1
    <3> QED BY <1>1, <3>2, <3>3
  <2>9. queue' = {i \in CycleNodes' : in_degree'[i] = 0}
    <3>1. \A i \in DOMAIN edges : in_degree'[i] = IF node \in edges[i] THEN in_degree[i] - 1
                                                                       ELSE in_degree[i]
      BY <2>1 DEF Waiting
    <3>2. queue = {i \in CycleNodes : in_degree[i] = 0}
      BY DEF SortOK
    <3>3. ASSUME NEW i \in queue \ {node} PROVE i \in CycleNodes' /\ in_degree'[i] = 0
      <4>1. i \in DOMAIN edges /\ in_degree[i] = 0 /\ i \in CycleNodes'
        BY <2>4, <3>2, <3>3
      <4>2. node \notin edges[i]
        BY <2>3, <2>4, <4>1
      <4> QED BY <3>1, <4>1, <4>2
    <3>4. ASSUME NEW i \in Waiting(node), in_degree'[i] = 0 PROVE i \in CycleNodes'
      <4>1. i \in DOMAIN edges /\ node \in edges[i]
        BY DEF Waiting
      <4>2. i \notin processed'
        BY <2>4, <2>6, <4>1
      <4> QED BY <1>1, <4>1, <4>2 DEF CycleNodes
    <3>5. ASSUME NEW i \in CycleNodes', in_degree'[i] = 0 PROVE i \in queue'
      <4>1. i \in CycleNodes /\ i # node /\ i \in DOMAIN edges
        BY <2>4
      <4>2. CASE node \in edges[i]
        BY <2>1, <3>5, <4>1, <4>2 DEF Waiting
      <4>3. CASE node \notin edges[i]
        BY <2>1, <3>1, <3>2, <3>5, <4>1, <4>3
      <4> QED BY <4>2, <4>3
    <3>6. \A i : i \in queue' <=> i \in CycleNodes' /\ in_degree'[i] = 0
      BY <2>1, <3>3, <3>4, <3>5
    <3> QED BY <3>6, <2>1
  <2>10. \A x \in processed' : (edges'[x] \cap DOMAIN edges') \subseteq processed'
    BY <1>1, <2>1, <2>6
  <2>11. ASSUME NEW S \in SUBSET DOMAIN edges, Endless(S) PROVE S \cap processed' = {}
    <3>1. S \cap processed = {}
      BY <2>11 DEF SortOK
    <3>2. node \notin S
      BY <2>1, <2>4, <2>6, <2>11, <3>1 DEF Endless
    <3> QED BY <2>1, <3>1, <3>2
  <2>12. \A S \in SUBSET DOMAIN edges' : Endless(S)' => S \cap processed' = {}
    BY <1>1, <2>11 DEF Endless
  <2>13. processed' \subseteq DOMAIN edges'
    BY <1>1, <2>1, <2>4 DEF SortOK
  <2>14. /\ phase' = "sort" => starts' = {} /\ globally_visited' = {} /\ found_cycles' = {}
         /\ phase' = "sort"
    BY <2>2 DEF SortOK
  <2> QED BY <2>8, <2>9, <2>10, <2>12, <2>13, <2>14 DEF SortOK
<1> QED BY <1>2, <1>3

(* The entry on top of the stack: the end of the path is left, or a        *)
(* successor of it is entered.                                             *)
LEMMA TopFacts ==
  ASSUME NEW pos, StackOK(pos, Len(path), Len(stack)),
         stack \in Seq(Entry), stack # <<>>, IsPath(path)
  PROVE  /\ Len(stack) \in Nat /\ Len(stack) >= 1 /\ Len(path) \in Nat
         /\ Top \in Entry /\ Top.node \in CycleNodes
         /\ Top.backtrack =>
              path # <<>> /\ pos[Len(path)] = Len(stack) /\ Top = Leave(path[Len(path)])
         /\ ~Top.backtrack =>
              /\ Top = Enter(Top.node)
              /\ \/ path = <<>> /\ Len(stack) = 1
                 \/ /\ path # <<>> /\ pos[Len(path)] < Len(stack)
                    /\ Top.node \in edges[path[Len(path)]]
<1>1. PICK n \in Nat, l \in Nat : n = Len(path) /\ l = Len(stack)
  BY DEF IsPath
<1>2. l >= 1 /\ Top \in Entry /\ Top = stack[l]
  BY <1>1 DEF Top
<1>3. Top.node \in CycleNodes /\ Top.backtrack \in BOOLEAN
  BY <1>2 DEF Entry
<1>4. /\ pos \in [1..n -> 1..l]
      /\ \A k \in 1..n : stack[pos[k]] = Leave(path[k])
      /\ \A j, k \in 1..n : j < k => pos[j] < pos[k]
      /\ \A i \in 1..l : stack[i].backtrack => \E k \in 1..n : pos[k] = i
      /\ \A i \in 1..l : ~stack[i].backtrack =>
           \/ i = 1 /\ path = <<>>
           \/ \E k \in 1..n :
                /\ pos[k] < i /\ \A m \in 1..n : k < m => i < pos[m]
                /\ stack[i].node \in edges[path[k]]
  BY <1>1 DEF StackOK, Above
<1>5. ASSUME Top.backtrack
      PROVE  path # <<>> /\ pos[n] = l /\ Top = Leave(path[n])
  <2>1. PICK k \in 1..n : pos[k] = l
    BY <1>2, <1>4, <1>5
  <2>2. n \in 1..n
    BY <2>1
  <2>3. pos[n] \in 1..l
    BY <1>4, <2>2
  <2>4. k = n
    BY <1>4, <2>1, <2>2, <2>3
  <2> QED BY <1>1, <1>2, <1>4, <2>1, <2>4
<1>6. ASSUME ~Top.backtrack
      PROVE  /\ Top = Enter(Top.node)
             /\ \/ path = <<>> /\ l = 1
                \/ path # <<>> /\ pos[n] < l /\ Top.node \in edges[path[n]]
  <2>1. Top = Enter(Top.node)
    BY <1>2, <1>6 DEF Enter, Entry
  <2>2. CASE l = 1 /\ path = <<>>
    BY <2>1, <2>2
  <2>3. CASE \E k \in 1..n :
                /\ pos[k] < l /\ \A m \in 1..n : k < m => l < pos[m]
                /\ Top.node \in edges[path[k]]
    <3>1. PICK k \in 1..n : /\ pos[k] < l /\ \A m \in 1..n : k < m => l < pos[m]
                            /\ Top.node \in edges[path[k]]
      BY <2>3
    <3>2. n \in 1..n /\ pos[n] \in 1..l
      BY <1>4, <3>1
    <3>3. k = n
      BY <3>1, <3>2
    <3> QED BY <1>1, <2>1, <3>1, <3>3
  <2> QED BY <1>2, <1>4, <1>6, <2>2, <2>3
<1> QED BY <1>1, <1>2, <1>3, <1>5, <1>6

(* What closes a cycle on the path.                                        *)
LEMMA ClosingFacts ==
  ASSUME PathOK, phase = "search", stack # <<>>, ~Top.backtrack, Top.node \in path_set
  PROVE  /\ path # <<>> /\ Top.node \in Elements(path)
         /\ Top.node \in edges[path[Len(path)]]
<1>1. PICK pos : StackOK(pos, Len(path), Len(stack))
  BY DEF PathOK
<1>2. stack \in Seq(Entry) /\ IsPath(path) /\ path_set = Elements(path)
  BY DEF PathOK
<1>3. path # <<>>
  BY <1>2 DEF Elements
<1> QED BY <1>1, <1>2, <1>3, TopFacts

(* Whatever is reported is a cycle.                                        *)
LEMMA PhaseStep ==
  GraphOK /\ SortOK /\ PhaseOK /\ PathOK /\ WalkOK /\ DetectionNext => PhaseOK'
<1> SUFFICES ASSUME GraphOK, SortOK, PhaseOK, PathOK, WalkOK, DetectionNext PROVE PhaseOK'
  OBVIOUS
<1>1. kind' = kind /\ edges' = edges
  BY GraphStep
<1>2. /\ phase \in {"sort", "pick", "search", "walk", "done"}
      /\ starts \subseteq CycleNodes
      /\ globally_visited \subseteq CycleNodes
      /\ phase = "search" => kind = "dependencies"
      /\ phase = "walk" => kind = "parents"
      /\ phase \in {"pick", "search", "walk"} => CycleNodes # {}
      /\ phase = "pick" /\ found_cycles = {} => starts = CycleNodes /\ globally_visited = {}
      /\ phase = "search" /\ found_cycles = {} => stack # <<>> /\ ~Top.backtrack
      /\ phase = "done" => starts = {}
      /\ phase = "done" /\ CycleNodes # {} => found_cycles # {}
      /\ \A cycle \in found_cycles : cycle \in Seq(DOMAIN edges) /\ IsCycle(cycle)
  BY DEF PhaseOK
<1>3. CASE Process
  <2>1. /\ phase = "sort" /\ phase' = "sort" /\ starts' = {} /\ globally_visited' = {}
        /\ found_cycles' = {}
    BY <1>3 DEF Process, SortOK
  <2> QED BY <2>1 DEF PhaseOK
<1>4. ASSUME ~Process
      PROVE  /\ CycleNodes' = CycleNodes /\ \A c : IsCycle(c)' <=> IsCycle(c)
             /\ processed' = processed
  <2>1. processed' = processed
    BY <1>4, SortEnded DEF sortVars
  <2> QED BY <1>1, <2>1, Stable
<1>5. CASE Sorted
  <2>1. ~Process
    BY <1>5 DEF Sorted, Process
  <2>2. /\ phase = "sort" /\ phase' = IF CycleNodes = {} THEN "done" ELSE "pick"
        /\ starts' = CycleNodes
        /\ UNCHANGED <<globally_visited, found_cycles>>
    BY <1>5 DEF Sorted
  <2>3. globally_visited = {} /\ found_cycles = {}
    BY <2>2 DEF SortOK
  <2> QED BY <1>1, <1>4, <2>1, <2>2, <2>3 DEF PhaseOK
<1>6. CASE PickStart
  <2>1. ~Process /\ phase = "pick" /\ UNCHANGED <<globally_visited, found_cycles>>
    BY <1>6 DEF PickStart, Process
  <2>2. PICK start \in starts :
          /\ starts' = starts \ {start}
          /\ IF start \in globally_visited
             THEN UNCHANGED <<phase, stack, pathVars, current>>
             ELSE /\ path' = <<>> /\ path_set' = {}
                  /\ IF kind = "parents"
                     THEN phase' = "walk" /\ current' = start /\ UNCHANGED stack
                     ELSE phase' = "search" /\ stack' = <<Enter(start)>> /\ UNCHANGED current
    BY <1>6 DEF PickStart
  <2>3. CASE start \in globally_visited
    <3>1. phase' = "pick" /\ found_cycles # {}
      BY <1>2, <2>1, <2>2, <2>3
    <3> QED BY <1>1, <1>2, <1>4, <2>1, <2>2, <3>1 DEF PhaseOK
  <2>4. CASE start \notin globally_visited
    <3>1. \/ kind = "parents" /\ phase' = "walk"
          \/ kind = "dependencies" /\ phase' = "search" /\ stack' = <<Enter(start)>>
      BY <2>2, <2>4 DEF GraphOK
    <3>2. phase' = "search" => stack' # <<>> /\ ~Top'.backtrack
      <4>1. SUFFICES ASSUME stack' = <<Enter(start)>>
                     PROVE  stack' # <<>> /\ stack'[Len(stack')] = Enter(start)
        BY <3>1 DEF Top, Enter
      <4> QED BY <4>1
    <3> QED BY <1>1, <1>2, <1>4, <2>1, <2>2, <3>1, <3>2 DEF PhaseOK
  <2> QED BY <2>3, <2>4
<1>7. CASE AllPicked
  <2>1. /\ ~Process /\ phase = "pick" /\ starts = {} /\ phase' = "done"
        /\ UNCHANGED <<starts, globally_visited, found_cycles>>
    BY <1>7 DEF AllPicked, Process
  <2> QED BY <1>1, <1>2, <1>4, <2>1 DEF PhaseOK
<1>8. CASE Backtrack
  <2>1. /\ ~Process /\ phase = "search" /\ phase' = "search" /\ Top.backtrack
        /\ UNCHANGED <<starts, globally_visited, found_cycles>>
    BY <1>8 DEF Backtrack, Process
  <2> QED BY <1>1, <1>2, <1>4, <2>1 DEF PhaseOK
<1>9. CASE CloseCycle
  <2>1. /\ ~Process /\ phase = "search" /\ phase' = "search" /\ stack # <<>>
        /\ ~Top.backtrack /\ Top.node \in path_set
        /\ UNCHANGED <<starts, globally_visited>>
        /\ found_cycles' = found_cycles \cup {CycleAt(Top.node)}
    BY <1>9 DEF CloseCycle, Process
  <2>2. IsPath(path)
    BY <2>1 DEF PathOK
  <2>3. CycleAt(Top.node) \in Seq(DOMAIN edges) /\ IsCycle(CycleAt(Top.node))
    BY <2>1, <2>2, ClosingFacts, CycleAtFacts
  <2>4. found_cycles' # {}
    BY <2>1
  <2>5. \A c \in found_cycles' : c \in Seq(DOMAIN edges') /\ IsCycle(c)'
    BY <1>1, <1>2, <1>4, <2>1, <2>3
  <2> QED BY <1>1, <1>2, <1>4, <2>1, <2>4, <2>5 DEF PhaseOK
<1>10. CASE EnterNode
  <2>1. /\ ~Process /\ phase = "search" /\ phase' = "search" /\ stack # <<>>
        /\ ~Top.backtrack /\ Top.node \notin path_set
        /\ UNCHANGED <<starts, found_cycles>>
    BY <1>10 DEF EnterNode, Process
  <2>2. /\ stack \in Seq(Entry) /\ Top.node \in CycleNodes
    <3>1. PICK pos : StackOK(pos, Len(path), Len(stack))
      BY <2>1 DEF PathOK
    <3>2. stack \in Seq(Entry) /\ IsPath(path)
      BY <2>1 DEF PathOK
    <3> QED BY <2>1, <3>1, <3>2, TopFacts
  <2> DEFINE S == edges[Top.node] \cap CycleNodes
             rest == Butlast(stack) \o <<Leave(Top.node)>>
  <2>3. /\ globally_visited' = globally_visited \cup {Top.node}
        /\ \E next \in Pushes(S) : stack' = rest \o next
    BY <1>10, <2>2 DEF EnterNode
  <2>4. PICK next \in Pushes(S) : stack' = rest \o next
    BY <2>3
  <2>5. S \in SUBSET CycleNodes /\ S # {}
    BY <2>1, <2>2, Residue
  <2>6. /\ next \in Seq(Entry) /\ Len(next) >= 1
        /\ \A k \in 1..Len(next) : ~next[k].backtrack
    <3> HIDE DEF S
    <3> QED BY <2>5, PushesFacts DEF GraphOK
  <2>7. rest \in Seq(Entry)
    <3>1. Butlast(stack) \in Seq(Entry)
      BY <2>1, <2>2, ButlastFacts
    <3>2. <<Leave(Top.node)>> \in Seq(Entry)
      BY <2>2 DEF Leave, Entry
    <3> QED BY <3>1, <3>2, PushFacts
  <2>8. stack' # <<>> /\ ~stack'[Len(stack')].backtrack
    <3> HIDE DEF rest
    <3>1. PICK m \in Nat, l \in Nat : m = Len(rest) /\ l = Len(next)
      BY <2>6, <2>7
    <3>2. /\ stack' \in Seq(Entry) /\ Len(stack') = m + l
          /\ \A k \in 1..l : stack'[m + k] = next[k]
      BY <2>4, <2>6, <2>7, <3>1, PushFacts
    <3>3. l \in 1..l
      BY <2>6, <3>1
    <3>4. stack'[m + l] = next[l] /\ ~next[l].backtrack
      BY <2>6, <3>1, <3>2, <3>3
    <3> QED BY <3>1, <3>2, <3>3, <3>4
  <2>9. ~Top'.backtrack
    BY <2>8 DEF Top
  <2>10. globally_visited' \subseteq CycleNodes
    BY <1>2, <2>2, <2>3
  <2> QED BY <1>1, <1>2, <1>4, <2>1, <2>8, <2>9, <2>10 DEF PhaseOK
<1>11. CASE SearchEnds
  <2>1. /\ ~Process /\ phase = "search" /\ stack = <<>> /\ phase' = "pick"
        /\ UNCHANGED <<starts, globally_visited, found_cycles>>
    BY <1>11 DEF SearchEnds, Process
  <2> QED BY <1>1, <1>2, <1>4, <2>1 DEF PhaseOK
<1>12. CASE WalkUp
  <2>1. /\ ~Process /\ phase = "walk"
        /\ UNCHANGED <<starts, globally_visited, found_cycles>>
    BY <1>12 DEF WalkUp, Process
  <2>2. current \in CycleNodes
    BY <2>1 DEF WalkOK
  <2>3. edges[current] \cap CycleNodes # {}
    BY <2>1, <2>2, Residue
  <2>4. phase' = "walk"
    BY <1>12, <2>1, <2>3 DEF WalkUp
  <2> QED BY <1>1, <1>2, <1>4, <2>1, <2>4 DEF PhaseOK
<1>13. CASE CloseParentCycle
  <2>1. /\ ~Process /\ phase = "walk" /\ phase' = "pick" /\ current \in Elements(path)
        /\ UNCHANGED starts
        /\ found_cycles' = found_cycles \cup {CycleAt(current)}
        /\ globally_visited' = globally_visited \cup Elements(CycleAt(current))
    BY <1>13 DEF CloseParentCycle, Process
  <2>2. IsPath(path) /\ current \in edges[path[Len(path)]]
    BY <2>1 DEF WalkOK, Elements
  <2>3. CycleAt(current) \in Seq(DOMAIN edges) /\ IsCycle(CycleAt(current))
    BY <2>1, <2>2, CycleAtFacts
  <2>4. Elements(CycleAt(current)) \subseteq CycleNodes
    BY <2>3, CycleInNodes
  <2>5. found_cycles' # {}
    BY <2>1
  <2>6. \A c \in found_cycles' : c \in Seq(DOMAIN edges') /\ IsCycle(c)'
    BY <1>1, <1>2, <1>4, <2>1, <2>3
  <2> QED BY <1>1, <1>2, <1>4, <2>1, <2>4, <2>5, <2>6 DEF PhaseOK
<1> QED BY <1>3, <1>5, <1>6, <1>7, <1>8, <1>9, <1>10, <1>11, <1>12, <1>13 DEF DetectionNext

(* A path goes on with a node that is not on it.                           *)
LEMMA PathAppend ==
  ASSUME NEW q, IsPath(q), NEW x \in CycleNodes, x \notin Elements(q),
         q # <<>> => x \in edges[q[Len(q)]]
  PROVE  IsPath(Append(q, x))
<1>1. q \in Seq(CycleNodes)
  BY DEF IsPath
<1>2. PICK n \in Nat : n = Len(q)
  BY <1>1
<1>3. PICK r : r = Append(q, x)
  OBVIOUS
<1>4. /\ r \in Seq(CycleNodes) /\ Len(r) = n + 1
      /\ \A k \in 1..n : r[k] = q[k]
      /\ r[n + 1] = x
  BY <1>1, <1>2, <1>3, AppendFacts
<1>5. /\ \A j, k \in 1..n : q[j] = q[k] => j = k
      /\ \A k \in 1..(n - 1) : q[k + 1] \in edges[q[k]]
      /\ \A k \in 1..n : q[k] # x
      /\ n >= 1 => x \in edges[q[n]]
  <2>1. n >= 1 => q # <<>>
    BY <1>2
  <2> QED BY <1>2, <2>1 DEF IsPath, Elements
<1>6. \A j, k \in 1..(n + 1) : r[j] = r[k] => j = k
  <2>1. SUFFICES ASSUME NEW j \in 1..(n + 1), NEW k \in 1..(n + 1), r[j] = r[k] PROVE j = k
    OBVIOUS
  <2>2. (j \in 1..n \/ j = n + 1) /\ (k \in 1..n \/ k = n + 1)
    BY <1>2
  <2> QED BY <1>4, <1>5, <2>1, <2>2
<1>7. \A k \in 1..n : r[k + 1] \in edges[r[k]]
  <2>1. SUFFICES ASSUME NEW k \in 1..n PROVE r[k + 1] \in edges[r[k]]
    OBVIOUS
  <2>2. CASE k = n
    BY <1>2, <1>4, <1>5, <2>2
  <2>3. CASE k # n
    <3>1. k \in 1..(n - 1) /\ k + 1 \in 1..n
      BY <1>2, <2>3
    <3> QED BY <1>4, <1>5, <3>1
  <2> QED BY <2>2, <2>3
<1>8. n + 1 - 1 = n
  BY <1>2
<1> QED BY <1>3, <1>4, <1>6, <1>7, <1>8 DEF IsPath

(* A search begins with a path of no nodes.                                *)
LEMMA EmptyPath == IsPath(<<>>)
BY DEF IsPath

(* A walk up that ends has reported every cycle through its start.         *)
LEMMA WalkStep ==
  GraphOK /\ SortOK /\ PhaseOK /\ PhaseOK' /\ WalkOK /\ DetectionNext => WalkOK'
<1> SUFFICES ASSUME GraphOK, SortOK, PhaseOK, PhaseOK', WalkOK, DetectionNext PROVE WalkOK'
  OBVIOUS
<1>1. kind' = kind /\ edges' = edges
  BY GraphStep
<1>2. CASE kind # "parents"
  BY <1>1, <1>2 DEF WalkOK, PhaseOK
<1>3. CASE kind = "parents"
  <2>1. phase # "search"
    BY <1>3 DEF PhaseOK
  <2> DEFINE Reported(x, found) ==
               \A cycle \in Seq(DOMAIN edges) :
                  IsCycle(cycle) /\ x \in Elements(cycle) =>
                    \E f \in found : EdgesOn(f) = EdgesOn(cycle)
  <2>2. /\ \A x \in globally_visited : \E f \in found_cycles : x \in Elements(f)
        /\ phase # "sort" => \A x \in CycleNodes \ starts :
              (phase = "walk" /\ x = FirstOnWalk) \/ Reported(x, found_cycles)
    BY <1>3 DEF WalkOK
  <2>3. ASSUME ~Process
        PROVE  /\ CycleNodes' = CycleNodes
               /\ \A c : IsCycle(c)' <=> IsCycle(c)
               /\ \A q : IsPath(q)' <=> IsPath(q)
               /\ \A x : Reported(x, found_cycles)' <=> Reported(x, found_cycles')
    <3>1. processed' = processed
      BY <2>3, SortEnded DEF sortVars
    <3>2. \A c : IsCycle(c)' <=> IsCycle(c)
      BY <1>1, <3>1, Stable
    <3> QED BY <1>1, <3>1, <3>2, Stable
  <2>4. CASE Process
    <3>1. phase' = "sort" /\ globally_visited' = {}
      BY <2>4 DEF Process, SortOK
    <3> QED BY <3>1 DEF WalkOK
  <2>5. CASE Sorted
    <3>1. ~Process /\ starts' = CycleNodes /\ globally_visited' = {}
      BY <2>5 DEF Sorted, Process, SortOK
    <3>2. phase' # "walk"
      BY <2>5 DEF Sorted
    <3> QED BY <2>3, <3>1, <3>2 DEF WalkOK
  <2>6. CASE PickStart
    <3>1. ~Process /\ phase = "pick" /\ UNCHANGED <<globally_visited, found_cycles>>
      BY <2>6 DEF PickStart, Process
    <3>2. PICK start \in starts :
            /\ starts' = starts \ {start}
            /\ start \in globally_visited => UNCHANGED phase
            /\ start \notin globally_visited =>
                  path' = <<>> /\ phase' = "walk" /\ current' = start
      BY <1>3, <2>6 DEF PickStart
    <3>3. \A x \in CycleNodes' \ starts' : x # start => Reported(x, found_cycles)'
      BY <2>2, <2>3, <3>1, <3>2
    <3>4. \A x \in globally_visited' : \E f \in found_cycles' : x \in Elements(f)
      BY <2>2, <3>1
    <3>5. CASE start \in globally_visited
      <4>1. PICK f \in found_cycles : start \in Elements(f)
        BY <2>2, <3>5
      <4>2. f \in Seq(DOMAIN edges) /\ IsCycle(f)
        BY DEF PhaseOK
      <4>3. Reported(start, found_cycles)
        BY <1>3, <4>1, <4>2, SharedCycle
      <4>4. Reported(start, found_cycles)'
        BY <2>3, <3>1, <4>3
      <4>5. phase' = "pick"
        BY <3>1, <3>2, <3>5
      <4> QED BY <3>3, <3>4, <4>4, <4>5 DEF WalkOK
    <3>6. CASE start \notin globally_visited
      <4>1. path' = <<>> /\ phase' = "walk" /\ current' = start
        BY <3>2, <3>6
      <4>2. FirstOnWalk' = start /\ Elements(path') = {}
        BY <4>1 DEF FirstOnWalk, Elements
      <4>3. current' \in CycleNodes'
        BY <2>3, <3>1, <4>1 DEF PhaseOK
      <4>4. IsPath(path)'
        BY <2>3, <3>1, <4>1, EmptyPath
      <4>5. path' # <<>> => current' \in edges'[path'[Len(path')]]
        BY <4>1
      <4>6. \A x \in CycleNodes' \ starts' : x = FirstOnWalk' \/ Reported(x, found_cycles)'
        BY <3>3, <4>2
      <4> QED BY <3>4, <4>1, <4>2, <4>3, <4>4, <4>5, <4>6 DEF WalkOK
    <3> QED BY <3>5, <3>6
  <2>7. CASE AllPicked
    <3>1. /\ ~Process /\ phase = "pick" /\ phase' = "done"
          /\ UNCHANGED <<starts, globally_visited, found_cycles>>
      BY <2>7 DEF AllPicked, Process
    <3>2. \A x \in CycleNodes' \ starts' : Reported(x, found_cycles)'
      BY <2>2, <2>3, <3>1
    <3> QED BY <2>2, <3>1, <3>2 DEF WalkOK
  <2>8. CASE WalkUp
    <3>1. /\ ~Process /\ phase = "walk" /\ current \notin Elements(path)
          /\ path' = Append(path, current)
          /\ UNCHANGED <<starts, globally_visited, found_cycles>>
      BY <2>8 DEF WalkUp, Process
    <3>2. /\ current \in CycleNodes /\ IsPath(path) /\ path \in Seq(CycleNodes)
          /\ path # <<>> => current \in edges[path[Len(path)]]
      BY <3>1 DEF WalkOK, IsPath
    <3>3. phase' = "walk" /\ current' \in edges[current] /\ current' \in CycleNodes
      <4>1. edges[current] \cap CycleNodes # {}
        BY <3>1, <3>2, Residue
      <4> QED BY <2>8, <3>1, <4>1 DEF WalkUp
    <3>4. IsPath(path)'
      <4>1. IsPath(path')
        BY <3>1, <3>2, PathAppend
      <4> QED BY <2>3, <3>1, <4>1
    <3>5. /\ Len(path) \in Nat /\ Len(path') = Len(path) + 1
          /\ \A k \in 1..Len(path) : path'[k] = path[k]
          /\ path'[Len(path) + 1] = current
          /\ Elements(path') = Elements(path) \cup {current}
      BY <3>1, <3>2, AppendFacts
    <3>6. path' # <<>> /\ path'[Len(path')] = current
      BY <3>5
    <3>7. FirstOnWalk' = FirstOnWalk
      <4>1. CASE path = <<>>
        BY <3>5, <3>6, <4>1 DEF FirstOnWalk
      <4>2. CASE path # <<>>
        <5>1. 1 \in 1..Len(path)
          BY <3>2, <3>5, <4>2
        <5> QED BY <3>5, <3>6, <4>2, <5>1 DEF FirstOnWalk
      <4> QED BY <4>1, <4>2
    <3>8. ASSUME NEW A \in SUBSET Ids, FirstOnWalk \in A,
                 \A x \in A \cap CycleNodes : edges[x] \subseteq A
          PROVE  Elements(path') \cup {current'} \subseteq A
      <4>1. Elements(path) \cup {current} \subseteq A
        BY <3>1, <3>8 DEF WalkOK
      <4> QED BY <3>2, <3>3, <3>5, <3>8, <4>1
    <3>9. \A A \in SUBSET Ids :
             FirstOnWalk' \in A /\ (\A x \in A \cap CycleNodes' : edges'[x] \subseteq A)
             => Elements(path') \cup {current'} \subseteq A
      BY <1>1, <2>3, <3>1, <3>7, <3>8
    <3>10. /\ current' \in CycleNodes'
           /\ path' # <<>> => current' \in edges'[path'[Len(path')]]
      BY <1>1, <2>3, <3>1, <3>3, <3>6
    <3>11. \A x \in CycleNodes' \ starts' : x = FirstOnWalk' \/ Reported(x, found_cycles)'
      BY <2>2, <2>3, <3>1, <3>7
    <3>12. \A x \in globally_visited' : \E f \in found_cycles' : x \in Elements(f)
      BY <2>2, <3>1
    <3> QED BY <3>3, <3>4, <3>9, <3>10, <3>11, <3>12 DEF WalkOK
  <2>9. CASE CloseParentCycle
    <3>1. /\ ~Process /\ phase = "walk" /\ phase' = "pick" /\ current \in Elements(path)
          /\ UNCHANGED starts
          /\ found_cycles' = found_cycles \cup {CycleAt(current)}
          /\ globally_visited' = globally_visited \cup Elements(CycleAt(current))
      BY <2>9 DEF CloseParentCycle, Process
    <3>2. IsPath(path) /\ current \in edges[path[Len(path)]]
      BY <3>1 DEF WalkOK, Elements
    <3>3. /\ CycleAt(current) \in Seq(DOMAIN edges) /\ IsCycle(CycleAt(current))
          /\ current \in Elements(CycleAt(current))
      BY <3>1, <3>2, CycleAtFacts
    <3>4. ASSUME NEW cycle \in Seq(DOMAIN edges), IsCycle(cycle), FirstOnWalk \in Elements(cycle)
          PROVE  EdgesOn(CycleAt(current)) = EdgesOn(cycle)
      <4>1. Elements(cycle) \subseteq CycleNodes
        BY <3>4, CycleInNodes
      <4>2. Elements(cycle) \in SUBSET Ids
        BY <4>1 DEF GraphOK, CycleNodes
      <4>3. \A x \in Elements(cycle) \cap CycleNodes : edges[x] \subseteq Elements(cycle)
        BY <1>3, <3>4, ParentsOnCycle
      <4>4. current \in Elements(cycle)
        BY <3>1, <3>4, <4>2, <4>3 DEF WalkOK
      <4> QED BY <1>3, <3>3, <3>4, <4>4, SharedCycle
    <3>5. Reported(FirstOnWalk, found_cycles')
      BY <3>1, <3>4
    <3>6. \A x : Reported(x, found_cycles) => Reported(x, found_cycles')
      BY <3>1
    <3>7. \A x \in CycleNodes' \ starts' : Reported(x, found_cycles)'
      <4> HIDE DEF Reported
      <4> QED BY <2>2, <2>3, <3>1, <3>5, <3>6
    <3>8. \A x \in globally_visited' : \E f \in found_cycles' : x \in Elements(f)
      BY <2>2, <3>1
    <3> QED BY <3>1, <3>7, <3>8 DEF WalkOK
  <2> QED BY <2>1, <2>4, <2>5, <2>6, <2>7, <2>8, <2>9
          DEF DetectionNext, Backtrack, CloseCycle, EnterNode, SearchEnds
<1> QED BY <1>2, <1>3
-----------------------------------------------------------------------------
(* Only the part of the way that is given counts.                          *)
LEMMA CoveredAgree ==
  ASSUME NEW p, NEW r, NEW k, NEW y, Covered(p, k, y), \A j \in 1..k : p[j] = r[j]
  PROVE  Covered(r, k, y)
BY DEF Covered

(* The same for a way that is the path of the next state.                  *)
LEMMA CoveredNext ==
  ASSUME edges' = edges, processed' = processed, found_cycles \subseteq found_cycles',
         NEW p, NEW k, NEW y, Covered(p, k, y), p = path'
  PROVE  Covered(path, k, y)'
<1>1. CycleNodes' = CycleNodes /\ \A q : IsPath(q)' <=> IsPath(q)
  BY Stable
<1> QED BY <1>1 DEF Covered

(* A node can be left when its successors have been attended to.           *)
LEMMA LeaveCovers ==
  ASSUME IsPath(path), path # <<>>, NEW n \in Nat, n = Len(path),
         \A y \in edges[path[n]] \cap CycleNodes :
            \/ \E j \in 1..n : path[j] = y /\ SubSeq(path, j, n) \in found_cycles
            \/ (\A j \in 1..n : path[j] # y) /\ Covered(path, n, y)
  PROVE  Covered(path, n - 1, path[n])
<1>1. n >= 1 /\ path \in Seq(CycleNodes)
  BY DEF IsPath
<1>2. SUFFICES ASSUME NEW q \in Seq(CycleNodes), IsPath(q), n - 1 < Len(q),
                      \A j \in 1..(n - 1) : q[j] = path[j], q[n] = path[n],
                      NEW i \in 1..Len(q), q[i] \in edges[q[Len(q)]]
               PROVE  SubSeq(q, i, Len(q)) \in found_cycles
  <2>1. n - 1 + 1 = n
    BY <1>1
  <2> QED BY <1>1, <2>1 DEF Covered
<1>3. PICK m \in Nat : m = Len(q)
  BY <1>2
<1>4. m >= n /\ n \in 1..n /\ n \in 1..m
  BY <1>1, <1>2, <1>3
<1>5. \A j \in 1..n : q[j] = path[j]
  <2>1. SUFFICES ASSUME NEW j \in 1..n PROVE q[j] = path[j]
    OBVIOUS
  <2>2. j = n \/ j \in 1..(n - 1)
    BY <1>1
  <2> QED BY <1>2, <2>2
<1>6. /\ \A j, k \in 1..m : q[j] = q[k] => j = k
      /\ \A k \in 1..(m - 1) : q[k + 1] \in edges[q[k]]
      /\ \A k \in 1..m : q[k] \in CycleNodes
  <2>1. \A k \in 1..m : q[k] \in CycleNodes
    BY <1>2, <1>3
  <2>2. /\ \A j, k \in 1..m : q[j] = q[k] => j = k
        /\ \A k \in 1..(m - 1) : q[k + 1] \in edges[q[k]]
    BY <1>2, <1>3 DEF IsPath
  <2> QED BY <2>1, <2>2
<1>7. CASE m = n
  <2>1. q[i] = path[i] /\ i \in 1..n /\ path[i] \in edges[path[n]] \cap CycleNodes
    BY <1>2, <1>3, <1>4, <1>5, <1>6, <1>7
  <2>2. PICK j \in 1..n : path[j] = path[i] /\ SubSeq(path, j, n) \in found_cycles
    BY <2>1
  <2>3. j = i
    BY <1>5, <1>6, <1>7, <2>1, <2>2
  <2>4. SubSeq(q, i, n) = SubSeq(path, i, n)
    <3>1. i \in Nat /\ n \in Nat /\ 1 <= i /\ i <= n /\ n <= Len(q) /\ n <= Len(path)
      BY <1>3, <1>7, <2>1
    <3>2. \A k \in i..n : q[k] = path[k]
      BY <1>5, <2>1
    <3> QED BY <1>1, <1>2, <3>1, <3>2, SubSeqAgree
  <2> QED BY <1>3, <1>7, <2>2, <2>3, <2>4
<1>8. CASE m # n
  <2>1. n \in 1..(m - 1) /\ n + 1 \in 1..m /\ n < m
    BY <1>4, <1>8
  <2>2. q[n + 1] \in edges[path[n]] \cap CycleNodes
    BY <1>2, <1>6, <2>1
  <2>3. ASSUME NEW j \in 1..n, path[j] = q[n + 1] PROVE FALSE
    <3>1. j \in 1..m /\ q[j] = q[n + 1] /\ j # n + 1
      BY <1>4, <1>5, <2>3
    <3> QED BY <1>6, <2>1, <3>1
  <2>4. Covered(path, n, q[n + 1])
    BY <2>2, <2>3
  <2> QED BY <1>2, <1>3, <1>5, <2>1, <2>4 DEF Covered
<1> QED BY <1>7, <1>8

(* The first entry on the stack.                                           *)
LEMMA PickStartPath ==
  ASSUME GraphOK, PhaseOK, PickStart, phase' = "search", edges' = edges, processed' = processed
  PROVE  PathOK'
<1>1. PICK start \in starts :
        /\ stack' = <<Enter(start)>> /\ path' = <<>> /\ path_set' = {}
  BY DEF PickStart
<1>2. start \in CycleNodes /\ CycleNodes' = CycleNodes /\ Entry' = Entry
  BY Stable DEF PhaseOK
<1>3. stack' \in Seq(Entry')
  BY <1>1, <1>2 DEF Enter, Entry
<1>4. IsPath(path)' /\ path_set' = Elements(path')
  BY <1>1, EmptyPath, Stable DEF Elements
<1>5. Len(path') = 0 /\ Len(stack') = 1 /\ 1..Len(path') = {}
  BY <1>1
<1>6. PICK pos \in [1..Len(path') -> 1..Len(stack')] : TRUE
  <2>1. [k \in 1..Len(path') |-> 1] \in [1..Len(path') -> 1..Len(stack')]
    BY <1>5
  <2> QED BY <2>1
<1>7. StackOK(pos, Len(path), Len(stack))'
  <2>1. \A i \in 1..Len(stack') : i = 1 /\ ~stack'[i].backtrack
    BY <1>1, <1>5 DEF Enter
  <2> QED BY <1>1, <1>5, <1>6, <2>1 DEF StackOK
<1>8. AllAttended(pos, Len(path), Len(stack))'
  BY <1>5 DEF AllAttended
<1> QED BY <1>3, <1>4, <1>6, <1>7, <1>8 DEF PathOK

(* The stack of a search, with its lengths.                                *)
LEMMA StackFacts ==
  ASSUME PathOK, phase = "search", stack # <<>>
  PROVE  /\ stack \in Seq(Entry) /\ IsPath(path) /\ path \in Seq(CycleNodes)
         /\ path_set = Elements(path)
         /\ \E n, l \in Nat : \E pos \in [1..n -> 1..l] :
              /\ n = Len(path) /\ l = Len(stack) /\ l >= 1
              /\ StackOK(pos, n, l) /\ AllAttended(pos, n, l)
<1>1. PICK pos \in [1..Len(path) -> 1..Len(stack)] :
        /\ StackOK(pos, Len(path), Len(stack))
        /\ AllAttended(pos, Len(path), Len(stack))
  BY DEF PathOK
<1>2. stack \in Seq(Entry) /\ IsPath(path) /\ path_set = Elements(path)
  BY DEF PathOK
<1>3. path \in Seq(CycleNodes)
  BY <1>2 DEF IsPath
<1>4. Len(path) \in Nat /\ Len(stack) \in Nat /\ Len(stack) >= 1
  BY <1>2, <1>3
<1> QED BY <1>1, <1>2, <1>3, <1>4

(* The successor that is on the path has been attended to: the cycle is    *)
(* reported.                                                               *)
LEMMA CloseCyclePath ==
  ASSUME PathOK, CloseCycle, edges' = edges, processed' = processed
  PROVE  PathOK'
<1>1. /\ phase = "search" /\ stack # <<>> /\ ~Top.backtrack /\ Top.node \in path_set
      /\ found_cycles' = found_cycles \cup {CycleAt(Top.node)}
      /\ stack' = Butlast(stack) /\ path' = path /\ path_set' = path_set
  BY DEF CloseCycle, pathVars
<1>2. /\ stack \in Seq(Entry) /\ IsPath(path) /\ path \in Seq(CycleNodes)
      /\ path_set = Elements(path)
  BY <1>1, StackFacts
<1>3. PICK n \in Nat, l \in Nat : \E pos \in [1..n -> 1..l] :
        /\ n = Len(path) /\ l = Len(stack) /\ l >= 1
        /\ StackOK(pos, n, l) /\ AllAttended(pos, n, l)
  BY <1>1, StackFacts
<1>4. PICK pos \in [1..n -> 1..l] :
        /\ n = Len(path) /\ l = Len(stack) /\ l >= 1
        /\ StackOK(pos, n, l) /\ AllAttended(pos, n, l)
  BY <1>3
<1>5. /\ CycleNodes' = CycleNodes /\ Entry' = Entry
      /\ \A q : IsPath(q)' <=> IsPath(q)
  BY Stable
<1>6. /\ path # <<>> /\ Top.node \in Elements(path)
      /\ Top.node \in edges[path[n]]
  BY <1>1, <1>4, ClosingFacts
<1>7. /\ n \in 1..n /\ l \in 1..l /\ pos[n] < l /\ Top = stack[l] /\ Top = Enter(Top.node)
  BY <1>1, <1>2, <1>4, <1>6, TopFacts DEF Top
<1>8. PICK l1 \in Nat : l1 = l - 1
  BY <1>4
<1>9. /\ stack' \in Seq(Entry') /\ Len(stack') = l1
      /\ \A i \in 1..l1 : stack'[i] = stack[i]
  BY <1>1, <1>2, <1>4, <1>5, <1>8, ButlastFacts
<1>10. /\ pos \in [1..n -> 1..l]
       /\ \A k \in 1..n : stack[pos[k]] = Leave(path[k])
       /\ \A j, k \in 1..n : j < k => pos[j] < pos[k]
       /\ \A i \in 1..l : stack[i].backtrack => \E k \in 1..n : pos[k] = i
       /\ \A i \in 1..l : ~stack[i].backtrack =>
            \/ i = 1 /\ path = <<>>
            \/ \E k \in 1..n : Above(pos, n, k, i) /\ stack[i].node \in edges[path[k]]
  BY <1>4 DEF StackOK
<1>11. pos \in [1..n -> 1..l1]
  <2>1. \A k \in 1..n : pos[k] \in 1..l1
    <3>1. SUFFICES ASSUME NEW k \in 1..n PROVE pos[k] \in 1..l1
      OBVIOUS
    <3>2. pos[k] \in 1..l /\ pos[n] \in 1..l
      BY <1>7, <1>10
    <3>3. k = n \/ pos[k] < pos[n]
      BY <1>7, <1>10
    <3> QED BY <1>7, <1>8, <3>2, <3>3
  <2> QED BY <1>10, <2>1
<1>12. \A i \in 1..l1 : i \in 1..l /\ i < l
  BY <1>8
<1>13. StackOK(pos, n, l1)'
  <2>1. \A k \in 1..n : stack'[pos[k]] = Leave(path'[k])
    BY <1>1, <1>9, <1>10, <1>11
  <2>2. \A i \in 1..l1 : stack'[i].backtrack => \E k \in 1..n : pos[k] = i
    BY <1>9, <1>10, <1>12
  <2>3. \A i \in 1..l1 : ~stack'[i].backtrack =>
          \/ i = 1 /\ path' = <<>>
          \/ \E k \in 1..n : Above(pos, n, k, i) /\ stack'[i].node \in edges'[path'[k]]
    <3>1. SUFFICES ASSUME NEW i \in 1..l1, ~stack'[i].backtrack
                   PROVE  \/ i = 1 /\ path' = <<>>
                          \/ \E k \in 1..n : /\ Above(pos, n, k, i)
                                             /\ stack'[i].node \in edges'[path'[k]]
      OBVIOUS
    <3>2. i \in 1..l /\ stack'[i] = stack[i]
      BY <1>9, <1>12
    <3>3. \/ i = 1 /\ path = <<>>
          \/ \E k \in 1..n : Above(pos, n, k, i) /\ stack[i].node \in edges[path[k]]
      BY <1>10, <3>1, <3>2
    <3> QED BY <1>1, <3>2, <3>3
  <2> QED BY <1>10, <1>11, <2>1, <2>2, <2>3 DEF StackOK
<1>14. ASSUME NEW k \in 1..n, NEW y \in edges[path[k]] \cap CycleNodes
       PROVE  Attended(pos, n, l1, k, y)'
  <2>1. Attended(pos, n, l, k, y)
    BY <1>4, <1>14 DEF AllAttended
  <2>2. ASSUME NEW i \in 1..l, Above(pos, n, k, i), stack[i] = Enter(y)
        PROVE  Attended(pos, n, l1, k, y)'
    <3>1. CASE i # l
      <4>1. i \in 1..l1
        BY <1>8, <3>1
      <4>2. stack'[i] = Enter(y)
        BY <1>9, <2>2, <4>1
      <4> QED BY <2>2, <4>1, <4>2 DEF Attended
    <3>2. CASE i = l
      <4>1. k = n
        <5>1. pos[n] \in 1..l
          BY <1>7, <1>10
        <5> QED BY <1>7, <2>2, <3>2, <5>1 DEF Above
      <4>2. Top.node = y
        BY <1>7, <2>2, <3>2 DEF Enter
      <4>3. Position(y) \in 1..n /\ path[Position(y)] = y
        BY <1>2, <1>4, <1>6, <4>2, CycleAtFacts
      <4>4. SubSeq(path, Position(y), n) \in found_cycles'
        BY <1>1, <1>4, <4>2 DEF CycleAt
      <4>5. \E j \in 1..k : path'[j] = y /\ SubSeq(path', j, k) \in found_cycles'
        BY <1>1, <4>1, <4>3, <4>4
      <4> QED BY <4>5 DEF Attended
    <3> QED BY <3>1, <3>2
  <2>3. CASE k < n /\ path[k + 1] = y
    BY <1>1, <2>3 DEF Attended
  <2>4. CASE \E j \in 1..k : path[j] = y /\ SubSeq(path, j, k) \in found_cycles
    <3>1. \E j \in 1..k : path'[j] = y /\ SubSeq(path', j, k) \in found_cycles'
      BY <1>1, <2>4
    <3> QED BY <3>1 DEF Attended
  <2>5. CASE (\A j \in 1..k : path[j] # y) /\ Covered(path, k, y)
    <3>1. PICK p : p = path'
      OBVIOUS
    <3>2. Covered(p, k, y)
      BY <1>1, <2>5, <3>1
    <3>3. found_cycles \subseteq found_cycles'
      BY <1>1
    <3>4. Covered(path, k, y)'
      BY <3>1, <3>2, <3>3, CoveredNext
    <3> QED BY <1>1, <2>5, <3>4 DEF Attended
  <2> QED BY <2>1, <2>2, <2>3, <2>4, <2>5 DEF Attended
<1>15. AllAttended(pos, n, l1)'
  BY <1>1, <1>5, <1>14 DEF AllAttended
<1>16. IsPath(path)' /\ path_set' = Elements(path') /\ n = Len(path')
  BY <1>1, <1>2, <1>4, <1>5
<1> QED BY <1>9, <1>11, <1>13, <1>15, <1>16 DEF PathOK

(* When the end of the path is left, every way on from it has been gone:   *)
(* the cycles through it that begin with the path have been reported.      *)
LEMMA BacktrackPath ==
  ASSUME PathOK, Backtrack, edges' = edges, processed' = processed
  PROVE  /\ PathOK'
         /\ path # <<>> /\ path' = Butlast(path)
         /\ Covered(path, Len(path) - 1, path[Len(path)])
<1>1. /\ phase = "search" /\ stack # <<>> /\ Top.backtrack
      /\ path_set' = path_set \ {Top.node} /\ path' = Butlast(path)
      /\ stack' = Butlast(stack) /\ found_cycles' = found_cycles
  BY DEF Backtrack
<1>2. /\ stack \in Seq(Entry) /\ IsPath(path) /\ path \in Seq(CycleNodes)
      /\ path_set = Elements(path)
  BY <1>1, StackFacts
<1>3. PICK n \in Nat, l \in Nat : \E pos \in [1..n -> 1..l] :
        /\ n = Len(path) /\ l = Len(stack) /\ l >= 1
        /\ StackOK(pos, n, l) /\ AllAttended(pos, n, l)
  BY <1>1, StackFacts
<1>4. PICK pos \in [1..n -> 1..l] :
        /\ n = Len(path) /\ l = Len(stack) /\ l >= 1
        /\ StackOK(pos, n, l) /\ AllAttended(pos, n, l)
  BY <1>3
<1>5. /\ CycleNodes' = CycleNodes /\ Entry' = Entry
      /\ \A q : IsPath(q)' <=> IsPath(q)
  BY Stable
<1>6. path # <<>> /\ pos[n] = l /\ Top = Leave(path[n]) /\ n \in 1..n
  <2>1. path # <<>> /\ pos[n] = l /\ Top = Leave(path[n])
    BY <1>1, <1>2, <1>4, TopFacts
  <2>2. n # 0
    BY <1>2, <1>4, <2>1
  <2> QED BY <2>1, <2>2
<1>7. PICK l1 \in Nat, n1 \in Nat : l1 = l - 1 /\ n1 = n - 1
  <2>1. l >= 1 /\ n \in 1..n
    BY <1>4, <1>6
  <2>2. l - 1 \in Nat /\ n - 1 \in Nat
    BY ONLY <2>1, n \in Nat, l \in Nat
  <2> QED BY <2>2
<1>8. /\ stack' \in Seq(Entry') /\ Len(stack') = l1
      /\ \A i \in 1..l1 : stack'[i] = stack[i]
  BY <1>1, <1>2, <1>4, <1>5, <1>7, ButlastFacts
<1>9. /\ path' \in Seq(CycleNodes) /\ Len(path') = n1
      /\ \A k \in 1..n1 : path'[k] = path[k]
  BY <1>1, <1>2, <1>4, <1>6, <1>7, ButlastFacts
<1>10. /\ \A k \in 1..n : stack[pos[k]] = Leave(path[k])
       /\ \A j, k \in 1..n : j < k => pos[j] < pos[k]
       /\ \A i \in 1..l : stack[i].backtrack => \E k \in 1..n : pos[k] = i
       /\ \A i \in 1..l : ~stack[i].backtrack =>
            \/ i = 1 /\ path = <<>>
            \/ \E k \in 1..n : Above(pos, n, k, i) /\ stack[i].node \in edges[path[k]]
  BY <1>4 DEF StackOK
<1>11. /\ \A k \in 1..n1 : k \in 1..n /\ k < n
       /\ \A i \in 1..l1 : i \in 1..l /\ i < l
  BY <1>7
<1>12. PICK pos1 \in [1..n1 -> 1..l1] : \A k \in 1..n1 : pos1[k] = pos[k]
  <2>1. \A k \in 1..n1 : pos[k] \in 1..l1
    <3>1. SUFFICES ASSUME NEW k \in 1..n1 PROVE pos[k] \in 1..l1
      OBVIOUS
    <3>2. k \in 1..n /\ n \in 1..n /\ k < n /\ pos[n] = l
      BY <1>6, <1>11
    <3>3. pos[k] < pos[n]
      BY <1>10, <3>2
    <3>4. pos[k] \in 1..l
      BY <3>2
    <3> QED BY <1>7, <3>2, <3>3, <3>4
  <2>2. [k \in 1..n1 |-> pos[k]] \in [1..n1 -> 1..l1]
    BY <2>1
  <2> QED BY <2>2
<1>13. \A k \in 1..n1, i \in 1..l : Above(pos, n, k, i) => i \in 1..l1 /\ Above(pos1, n1, k, i)
  <2>1. SUFFICES ASSUME NEW k \in 1..n1, NEW i \in 1..l, Above(pos, n, k, i)
                 PROVE  i \in 1..l1 /\ Above(pos1, n1, k, i)
    OBVIOUS
  <2>2. i < l
    BY <1>6, <1>11, <2>1 DEF Above
  <2>3. i \in 1..l1
    BY <1>7, <2>2
  <2>4. pos1[k] < i
    BY <1>12, <2>1 DEF Above
  <2>5. ASSUME NEW m \in 1..n1, k < m PROVE i < pos1[m]
    <3>1. m \in 1..n /\ pos1[m] = pos[m]
      BY <1>11, <1>12
    <3> QED BY <2>1, <2>5, <3>1 DEF Above
  <2>6. \A m \in 1..n1 : k < m => i < pos1[m]
    BY <2>5
  <2> QED BY ONLY <2>3, <2>4, <2>6 DEF Above
<1>14. StackOK(pos1, n1, l1)'
  <2>1. \A k \in 1..n1 : stack'[pos1[k]] = Leave(path'[k])
    <3>1. SUFFICES ASSUME NEW k \in 1..n1 PROVE stack'[pos1[k]] = Leave(path'[k])
      OBVIOUS
    <3>2. pos1[k] = pos[k] /\ pos1[k] \in 1..l1 /\ k \in 1..n
      BY <1>11, <1>12
    <3>3. stack'[pos1[k]] = stack[pos[k]] /\ path'[k] = path[k]
      BY <1>8, <1>9, <3>2
    <3>4. stack[pos[k]] = Leave(path[k])
      BY <1>10, <3>2
    <3> QED BY <3>3, <3>4
  <2>2. \A j, k \in 1..n1 : j < k => pos1[j] < pos1[k]
    BY <1>10, <1>11, <1>12
  <2>3. ASSUME NEW i \in 1..l1, stack'[i].backtrack PROVE \E k \in 1..n1 : pos1[k] = i
    <3>1. PICK k \in 1..n : pos[k] = i
      BY <1>8, <1>10, <1>11, <2>3
    <3>2. k # n
      <4>1. i # l
        BY <1>7, <2>3
      <4> QED BY <1>6, <3>1, <4>1
    <3>3. k \in 1..n1
      BY <1>7, <3>2
    <3> QED BY <1>12, <3>1, <3>3
  <2>4. ASSUME NEW i \in 1..l1, ~stack'[i].backtrack
        PROVE  \E k \in 1..n1 : Above(pos1, n1, k, i) /\ stack'[i].node \in edges'[path'[k]]
    <3>1. PICK k \in 1..n : Above(pos, n, k, i) /\ stack[i].node \in edges[path[k]]
      BY <1>6, <1>8, <1>10, <1>11, <2>4
    <3>2. k # n
      BY <1>6, <1>11, <2>4, <3>1 DEF Above
    <3>3. k \in 1..n1
      BY <1>7, <3>2
    <3>4. Above(pos1, n1, k, i)
      BY <1>11, <1>13, <3>1, <3>3
    <3> QED BY <1>8, <1>9, <3>1, <3>3, <3>4
  <2> QED BY <1>12, <2>1, <2>2, <2>3, <2>4 DEF StackOK
<1>15. \A k \in 1..n : \A y \in edges[path[k]] \cap CycleNodes : Attended(pos, n, l, k, y)
  BY <1>4 DEF AllAttended
<1>16. Covered(path, n - 1, path[n])
  <2>1. ASSUME NEW y \in edges[path[n]] \cap CycleNodes
        PROVE  \/ \E j \in 1..n : path[j] = y /\ SubSeq(path, j, n) \in found_cycles
               \/ (\A j \in 1..n : path[j] # y) /\ Covered(path, n, y)
    <3>1. Attended(pos, n, l, n, y)
      BY <1>6, <1>15
    <3>2. \A i \in 1..l : ~Above(pos, n, n, i)
      BY <1>6 DEF Above
    <3>3. ~(n < n)
      OBVIOUS
    <3>4. \/ \E j \in 1..n : path[j] = y /\ SubSeq(path, j, n) \in found_cycles
          \/ (\A j \in 1..n : path[j] # y) /\ Covered(path, n, y)
      BY ONLY <3>1, <3>2, <3>3 DEF Attended
    <3> QED BY <3>4
  <2> QED BY <1>2, <1>4, <1>6, <2>1, LeaveCovers
<1>17. \A j, k \in 1..n : path[j] = path[k] => j = k
  BY <1>2, <1>4 DEF IsPath
<1>18. ASSUME NEW k \in 1..n1, NEW y, Covered(path, k, y)
       PROVE  Covered(path, k, y)'
  <2>1. PICK p : p = path'
    OBVIOUS
  <2>2. k <= n1
    OBVIOUS
  <2>3. \A j \in 1..k : j \in 1..n1
    BY <1>18
  <2>4. \A j \in 1..k : path[j] = p[j]
    BY <1>9, <2>1, <2>3
  <2>5. PICK q : q = path
    OBVIOUS
  <2>6. Covered(p, k, y)
    BY <1>18, <2>4, CoveredAgree
  <2> QED BY <1>1, <2>1, <2>6, CoveredNext
<1>19. ASSUME NEW k \in 1..n1, NEW y \in edges[path[k]] \cap CycleNodes
       PROVE  Attended(pos1, n1, l1, k, y)'
  <2>1. Attended(pos, n, l, k, y)
    BY <1>11, <1>15, <1>19
  <2>2. \A j \in 1..k : j \in 1..n1 /\ j \in 1..n
    BY ONLY <1>7, k \in 1..n1, n \in Nat, n1 \in Nat
  <2>3. CASE \E i \in 1..l : Above(pos, n, k, i) /\ stack[i] = Enter(y)
    <3>1. PICK i \in 1..l : Above(pos, n, k, i) /\ stack[i] = Enter(y)
      BY <2>3
    <3>2. i \in 1..l1 /\ Above(pos1, n1, k, i)
      BY <1>13, <3>1
    <3>3. stack'[i] = Enter(y)
      BY <1>8, <3>1, <3>2
    <3> QED BY <3>2, <3>3 DEF Attended
  <2>4. CASE k < n /\ path[k + 1] = y
    <3>1. CASE k < n1
      <4>1. k + 1 \in 1..n1
        BY <3>1
      <4> QED BY <1>9, <2>4, <3>1, <4>1 DEF Attended
    <3>2. CASE ~(k < n1)
      <4>1. k = n - 1 /\ k + 1 = n
        BY <1>7, <3>2
      <4>2. y = path[n] /\ Covered(path, k, y)
        BY <1>16, <2>4, <4>1
      <4>3. \A j \in 1..k : path'[j] # y
        <5>1. SUFFICES ASSUME NEW j \in 1..k PROVE path[j] # path[n]
          BY <1>9, <2>2, <4>2
        <5>2. j \in 1..n /\ n \in 1..n /\ j # n
          BY <1>6, <2>2, <4>1, <5>1
        <5> QED BY <1>17, <5>2
      <4>4. Covered(path, k, y)'
        BY <1>18, <4>2
      <4> QED BY <4>3, <4>4 DEF Attended
    <3> QED BY <3>1, <3>2
  <2>5. CASE \E j \in 1..k : path[j] = y /\ SubSeq(path, j, k) \in found_cycles
    <3>1. PICK j \in 1..k : path[j] = y /\ SubSeq(path, j, k) \in found_cycles
      BY <2>5
    <3>2. SubSeq(path', j, k) = SubSeq(path, j, k)
      <4>1. PICK r : r = path'
        OBVIOUS
      <4>2. /\ r \in Seq(CycleNodes) /\ k <= Len(r) /\ k <= Len(path)
            /\ j \in Nat /\ k \in Nat /\ 1 <= j /\ j <= k
        BY <1>4, <1>9, <1>11, <4>1
      <4>3. \A i \in j..k : r[i] = path[i]
        <5>1. \A i \in j..k : i \in 1..n1
          OBVIOUS
        <5> QED BY <1>9, <4>1, <5>1
      <4>4. SubSeq(r, j, k) = SubSeq(path, j, k)
        BY <1>2, <4>2, <4>3, SubSeqAgree
      <4> QED BY <4>1, <4>4
    <3>3. path'[j] = y
      BY <1>9, <2>2, <3>1
    <3>4. \E h \in 1..k : path'[h] = y /\ SubSeq(path', h, k) \in found_cycles'
      BY <1>1, <3>1, <3>2, <3>3
    <3> QED BY <3>4 DEF Attended
  <2>6. CASE (\A j \in 1..k : path[j] # y) /\ Covered(path, k, y)
    <3>1. Covered(path, k, y)'
      BY <1>18, <2>6
    <3>2. \A j \in 1..k : path'[j] # y
      BY <1>9, <2>2, <2>6
    <3> QED BY <3>1, <3>2 DEF Attended
  <2> QED BY <2>1, <2>3, <2>4, <2>5, <2>6 DEF Attended
<1>20. AllAttended(pos1, n1, l1)'
  BY <1>5, <1>9, <1>19 DEF AllAttended
<1>21. IsPath(path)'
  <2>1. PICK p : p = path'
    OBVIOUS
  <2>2. IsPath(p)
    <3>1. /\ \A k \in 1..(n - 1) : path[k + 1] \in edges[path[k]]
      BY <1>2, <1>4 DEF IsPath
    <3>2. \A k \in 1..(n1 - 1) : k \in 1..(n - 1) /\ k \in 1..n1 /\ k + 1 \in 1..n1
      BY <1>7
    <3>3. \A k \in 1..(n1 - 1) : p[k + 1] \in edges[p[k]]
      BY <1>9, <2>1, <3>1, <3>2
    <3>4. \A j, k \in 1..n1 : p[j] = p[k] => j = k
      <4>1. SUFFICES ASSUME NEW j \in 1..n1, NEW k \in 1..n1, p[j] = p[k] PROVE j = k
        OBVIOUS
      <4>2. j \in 1..n /\ k \in 1..n /\ path[j] = path[k]
        BY <1>9, <1>11, <2>1, <4>1
      <4> QED BY <1>17, <4>2
    <3> QED BY <1>9, <2>1, <3>3, <3>4 DEF IsPath
  <2> QED BY <1>5, <2>1, <2>2
<1>22. path_set' = Elements(path')
  <2>1. 1..n = 1..n1 \cup {n} /\ n \notin 1..n1
    BY <1>6, <1>7
  <2>2. Elements(path) = Elements(path') \cup {path[n]}
    <3>1. Elements(path) = {path[k] : k \in 1..n}
      BY <1>4 DEF Elements
    <3>2. Elements(path') = {path'[k] : k \in 1..n1}
      BY <1>9 DEF Elements
    <3>3. \A k \in 1..n1 : path'[k] = path[k]
      BY <1>9
    <3>4. \A k \in 1..n : k \in 1..n1 \/ k = n
      BY <2>1
    <3>5. \A k \in 1..n : path[k] \in Elements(path') \cup {path[n]}
      BY <3>2, <3>3, <3>4
    <3>6. n \in 1..n /\ \A k \in 1..n1 : k \in 1..n
      BY <2>1
    <3>7. \A k \in 1..n1 : path'[k] \in Elements(path)
      BY <3>1, <3>3, <3>6
    <3>8. path[n] \in Elements(path)
      BY <3>1, <3>6
    <3> QED BY ONLY <3>1, <3>2, <3>5, <3>7, <3>8
  <2>3. path[n] \notin Elements(path')
    <3>1. SUFFICES ASSUME NEW k \in 1..n1, path[n] = path'[k] PROVE FALSE
      BY <1>9 DEF Elements
    <3> QED BY <1>6, <1>9, <1>11, <1>17, <2>1, <3>1
  <2>4. Top.node = path[n]
    BY <1>6 DEF Leave
  <2> QED BY <1>1, <1>2, <2>2, <2>3, <2>4
<1>23. PathOK'
  BY <1>8, <1>9, <1>12, <1>14, <1>20, <1>21, <1>22 DEF PathOK
<1> QED BY <1>1, <1>4, <1>6, <1>16, <1>23

(* The node entered becomes the end of the path; its successors are        *)
(* attended to by what is pushed.                                          *)
LEMMA EnterNodePath ==
  ASSUME GraphOK, PathOK, EnterNode, edges' = edges, processed' = processed
  PROVE  /\ PathOK'
         /\ Top.node \in CycleNodes /\ path' = Append(path, Top.node)
         /\ globally_visited' = globally_visited \cup {Top.node}
         /\ path = <<>> => stack = <<Enter(Top.node)>>
<1>1. /\ phase = "search" /\ stack # <<>> /\ ~Top.backtrack /\ Top.node \notin path_set
      /\ found_cycles' = found_cycles
  BY DEF EnterNode
<1>2. /\ stack \in Seq(Entry) /\ IsPath(path) /\ path \in Seq(CycleNodes)
      /\ path_set = Elements(path)
  BY <1>1, StackFacts
<1>3. PICK n \in Nat, l \in Nat : \E pos \in [1..n -> 1..l] :
        /\ n = Len(path) /\ l = Len(stack) /\ l >= 1
        /\ StackOK(pos, n, l) /\ AllAttended(pos, n, l)
  BY <1>1, StackFacts
<1>4. PICK pos \in [1..n -> 1..l] :
        /\ n = Len(path) /\ l = Len(stack) /\ l >= 1
        /\ StackOK(pos, n, l) /\ AllAttended(pos, n, l)
  BY <1>3
<1>5. /\ CycleNodes' = CycleNodes /\ Entry' = Entry
      /\ \A q : IsPath(q)' <=> IsPath(q)
  BY Stable
<1>6. /\ Top.node \in CycleNodes /\ Top = stack[l] /\ Top = Enter(Top.node)
      /\ \/ path = <<>> /\ l = 1
         \/ path # <<>> /\ pos[n] < l /\ Top.node \in edges[path[n]]
  BY <1>1, <1>2, <1>4, TopFacts DEF Top
<1>7. PICK node : node = Top.node
  OBVIOUS
<1>8. PICK succ : succ = edges[node] \cap CycleNodes
  OBVIOUS
<1>9. PICK next \in Pushes(succ) :
        /\ path' = Append(path, node)
        /\ path_set' = path_set \cup {node}
        /\ globally_visited' = globally_visited \cup {node}
        /\ stack' = (Butlast(stack) \o <<Leave(node)>>) \o next
  BY <1>6, <1>7, <1>8 DEF EnterNode
<1>10. PICK l1 \in Nat, n1 \in Nat : l1 = l - 1 /\ n1 = n + 1
  <2>1. l - 1 \in Nat /\ n + 1 \in Nat
    BY ONLY <1>4, n \in Nat, l \in Nat
  <2> QED BY <2>1
<1>11. PICK rest : rest = Butlast(stack) \o <<Leave(node)>>
  OBVIOUS
<1>12. /\ rest \in Seq(Entry) /\ Len(rest) = l
       /\ \A i \in 1..l1 : rest[i] = stack[i]
       /\ rest[l] = Leave(node)
  <2>1. PICK b : b = Butlast(stack)
    OBVIOUS
  <2>2. b \in Seq(Entry) /\ Len(b) = l1 /\ \A i \in 1..l1 : b[i] = stack[i]
    BY <1>1, <1>2, <1>4, <1>10, <2>1, ButlastFacts
  <2>3. Leave(node) \in Entry
    BY <1>6, <1>7 DEF Leave, Entry
  <2>4. /\ <<Leave(node)>> \in Seq(Entry) /\ Len(<<Leave(node)>>) = 1
        /\ <<Leave(node)>>[1] = Leave(node)
    BY <2>3
  <2>5. PICK t : t = <<Leave(node)>>
    OBVIOUS
  <2>t. t \in Seq(Entry) /\ Len(t) = 1 /\ t[1] = Leave(node)
    BY <2>4, <2>5
  <2>6. /\ b \o t \in Seq(Entry) /\ Len(b \o t) = l1 + 1
        /\ \A i \in 1..l1 : (b \o t)[i] = b[i]
        /\ \A i \in 1..1 : (b \o t)[l1 + i] = t[i]
    <3>1. /\ b \o t \in Seq(Entry) /\ Len(b \o t) = Len(b) + Len(t)
          /\ \A i \in 1..Len(b) : (b \o t)[i] = b[i]
          /\ \A i \in 1..Len(t) : (b \o t)[Len(b) + i] = t[i]
      <4>1. b \in Seq(Entry) /\ t \in Seq(Entry)
        BY <2>2, <2>t
      <4> QED BY ONLY <4>1, PushFacts
    <3> QED BY <2>2, <2>t, <3>1
  <2>7. l1 + 1 = l /\ 1 \in 1..1
    BY <1>10
  <2>8. (b \o t)[l] = Leave(node)
    BY <2>t, <2>6, <2>7
  <2> QED BY <1>11, <2>1, <2>2, <2>5, <2>6, <2>7, <2>8
<1>13. /\ next \in Seq(Entry) /\ Len(next) \in Nat
       /\ \A h \in 1..Len(next) : ~next[h].backtrack /\ next[h].node \in succ
       /\ \A y \in succ : \E h \in 1..Len(next) : next[h] = Enter(y)
  <2>1. succ \in SUBSET CycleNodes /\ DOMAIN edges \subseteq Ids /\ next \in Pushes(succ)
    BY <1>8 DEF GraphOK
  <2> QED BY ONLY <2>1, FiniteIds, PushesFacts
<1>14. PICK d \in Nat, l2 \in Nat : d = Len(next) /\ l2 = l + d
  BY <1>13
<1>15. /\ stack' \in Seq(Entry) /\ Len(stack') = l2
       /\ \A i \in 1..l : stack'[i] = rest[i]
       /\ \A h \in 1..d : stack'[l + h] = next[h]
       /\ \A i \in 1..l2 : i \in 1..l \/ (i - l \in 1..d /\ stack'[i] = next[i - l])
  <2>1. stack' = rest \o next
    BY <1>9, <1>11
  <2>2. PICK u : u = rest \o next
    OBVIOUS
  <2>3. /\ u \in Seq(Entry) /\ Len(u) = Len(rest) + Len(next)
        /\ \A i \in 1..Len(rest) : u[i] = rest[i]
        /\ \A h \in 1..Len(next) : u[Len(rest) + h] = next[h]
        /\ \A i \in 1..Len(u) : \/ i \in 1..Len(rest)
                               \/ (i - Len(rest) \in 1..Len(next) /\ u[i] = next[i - Len(rest)])
    <3>1. rest \in Seq(Entry) /\ next \in Seq(Entry)
      BY <1>12, <1>13
    <3>2. /\ rest \o next \in Seq(Entry) /\ Len(rest \o next) = Len(rest) + Len(next)
          /\ \A i \in 1..Len(rest) : (rest \o next)[i] = rest[i]
          /\ \A h \in 1..Len(next) : (rest \o next)[Len(rest) + h] = next[h]
      BY ONLY <3>1, PushFacts
    <3>3. \A i \in 1..Len(rest \o next) :
             \/ i \in 1..Len(rest)
             \/ (i - Len(rest) \in 1..Len(next) /\ (rest \o next)[i] = next[i - Len(rest)])
      BY ONLY <3>1, PushFacts
    <3> QED BY ONLY <2>2, <3>2, <3>3
  <2>4. /\ u \in Seq(Entry) /\ Len(u) = l2
        /\ \A i \in 1..l : u[i] = rest[i]
        /\ \A h \in 1..d : u[l + h] = next[h]
        /\ \A i \in 1..l2 : i \in 1..l \/ (i - l \in 1..d /\ u[i] = next[i - l])
    BY <1>12, <1>14, <2>3
  <2>5. stack' = u
    BY <2>1, <2>2
  <2> QED BY <2>4, <2>5
<1>16. /\ path' \in Seq(CycleNodes) /\ Len(path') = n1
       /\ \A k \in 1..n : path'[k] = path[k]
       /\ path'[n1] = node
       /\ Elements(path') = Elements(path) \cup {node}
  BY <1>2, <1>4, <1>6, <1>7, <1>9, <1>10, AppendFacts
<1>17. /\ \A i \in 1..l1 : i \in 1..l /\ i \in 1..l2 /\ i < l /\ stack'[i] = stack[i]
       /\ l \in 1..l2 /\ stack'[l] = Leave(node)
  <2>1. \A i \in 1..l1 : i \in 1..l /\ i \in 1..l2 /\ i < l
    BY ONLY <1>10, <1>14, l \in Nat, l1 \in Nat, d \in Nat
  <2>2. l \in 1..l /\ l \in 1..l2
    BY <1>4, <1>14
  <2> QED BY <1>12, <1>15, <2>1, <2>2
<1>18. /\ \A k \in 1..n : stack[pos[k]] = Leave(path[k])
       /\ \A j, k \in 1..n : j < k => pos[j] < pos[k]
       /\ \A i \in 1..l : stack[i].backtrack => \E k \in 1..n : pos[k] = i
       /\ \A i \in 1..l : ~stack[i].backtrack =>
            \/ i = 1 /\ path = <<>>
            \/ \E k \in 1..n : Above(pos, n, k, i) /\ stack[i].node \in edges[path[k]]
  BY <1>4 DEF StackOK
<1>19. \A k \in 1..n : pos[k] \in 1..l1
  <2>1. SUFFICES ASSUME NEW k \in 1..n PROVE pos[k] \in 1..l1
    OBVIOUS
  <2>2. path # <<>>
    BY <1>4
  <2>3. pos[n] < l
    BY <1>6, <2>2
  <2>4. n \in 1..n
    BY <2>1
  <2>5. pos[k] \in 1..l /\ pos[n] \in 1..l /\ (k = n \/ pos[k] < pos[n])
    BY <1>18, <2>4
  <2>6. pos[k] < l
    BY <2>3, <2>5
  <2> QED BY <1>10, <2>5, <2>6
<1>20. \A k \in 1..n1 : k \in 1..n \/ k = n1
  BY <1>10
<1>21. \A k \in 1..n : k \in 1..n1 /\ k # n1 /\ k < n1
  BY <1>10
<1>22. PICK pos1 \in [1..n1 -> 1..l2] : (\A k \in 1..n : pos1[k] = pos[k]) /\ pos1[n1] = l
  <2>1. PICK f : f = [k \in 1..n1 |-> IF k = n1 THEN l ELSE pos[k]]
    OBVIOUS
  <2>2. \A k \in 1..n1 : f[k] = IF k = n1 THEN l ELSE pos[k]
    BY <2>1
  <2>3. n1 \in 1..n1
    BY <1>10
  <2>4. \A k \in 1..n1 : f[k] \in 1..l2
    BY <1>17, <1>19, <1>20, <2>2
  <2>5. f \in [1..n1 -> 1..l2]
    BY <2>1, <2>4
  <2> QED BY <1>21, <2>2, <2>3, <2>5
<1>23. \A k \in 1..n, i \in 1..l1 : Above(pos, n, k, i) => Above(pos1, n1, k, i)
  <2>1. SUFFICES ASSUME NEW k \in 1..n, NEW i \in 1..l1, Above(pos, n, k, i)
                 PROVE  Above(pos1, n1, k, i)
    OBVIOUS
  <2>2. i < l
    BY <1>17
  <2> QED BY <1>20, <1>22, <2>1, <2>2 DEF Above
<1>24. \A h \in 1..d : l + h \in 1..l2 /\ Above(pos1, n1, n1, l + h)
  <2>1. SUFFICES ASSUME NEW h \in 1..d PROVE l + h \in 1..l2 /\ Above(pos1, n1, n1, l + h)
    OBVIOUS
  <2>2. l + h \in 1..l2 /\ l < l + h
    BY <1>14
  <2>3. \A m \in 1..n1 : ~(n1 < m)
    BY <1>10
  <2> QED BY <1>22, <2>2, <2>3 DEF Above
<1>25. n1 \in 1..n1
  BY <1>10
<1>26. StackOK(pos1, n1, l2)'
  <2>1. \A k \in 1..n1 : stack'[pos1[k]] = Leave(path'[k])
    <3>1. ASSUME NEW k \in 1..n PROVE stack'[pos1[k]] = Leave(path'[k])
      <4>1. pos[k] \in 1..l1 /\ pos1[k] = pos[k]
        BY <1>19, <1>22
      <4>2. stack'[pos[k]] = Leave(path[k])
        BY <1>17, <1>18, <4>1
      <4> QED BY <1>16, <4>1, <4>2
    <3>2. stack'[pos1[n1]] = Leave(path'[n1])
      BY <1>16, <1>17, <1>22
    <3> QED BY <1>20, <3>1, <3>2
  <2>2. ASSUME NEW j \in 1..n1, NEW k \in 1..n1, j < k PROVE pos1[j] < pos1[k]
    <3>1. j \in 1..n
      BY <1>10, <2>2
    <3>2. CASE k \in 1..n
      BY <1>18, <1>22, <2>2, <3>1, <3>2
    <3>3. CASE k = n1
      BY <1>17, <1>19, <1>22, <3>1, <3>3
    <3> QED BY <1>20, <3>2, <3>3
  <2>3. ASSUME NEW i \in 1..l2
        PROVE  i \in 1..l1 \/ i = l \/ (i - l \in 1..d /\ stack'[i] = next[i - l])
    <3>1. i \in 1..l => i \in 1..l1 \/ i = l
      BY <1>10
    <3> QED BY <1>15, <3>1
  <2>4. ASSUME NEW i \in 1..l2, stack'[i].backtrack PROVE \E k \in 1..n1 : pos1[k] = i
    <3>1. CASE i \in 1..l1
      <4>1. PICK k \in 1..n : pos[k] = i
        BY <1>17, <1>18, <2>4, <3>1
      <4> QED BY <1>21, <1>22, <4>1
    <3>2. CASE i = l
      BY <1>22, <1>25, <3>2
    <3>3. CASE i - l \in 1..d /\ stack'[i] = next[i - l]
      BY <1>13, <1>14, <2>4, <3>3
    <3> QED BY <2>3, <3>1, <3>2, <3>3
  <2>5. ASSUME NEW i \in 1..l2, ~stack'[i].backtrack
        PROVE  \E k \in 1..n1 : Above(pos1, n1, k, i) /\ stack'[i].node \in edges'[path'[k]]
    <3>1. CASE i \in 1..l1
      <4>1. ~stack[i].backtrack /\ i \in 1..l /\ stack'[i] = stack[i] /\ i < l
        BY <1>17, <2>5, <3>1
      <4>2. path # <<>>
        BY <1>6, <3>1, <4>1
      <4>3. PICK k \in 1..n : Above(pos, n, k, i) /\ stack[i].node \in edges[path[k]]
        BY <1>18, <4>1, <4>2
      <4> QED BY <1>16, <1>21, <1>23, <3>1, <4>1, <4>3
    <3>2. CASE i = l
      BY <1>17, <2>5, <3>2 DEF Leave
    <3>3. CASE i - l \in 1..d /\ stack'[i] = next[i - l]
      <4>1. PICK h \in 1..d : h = i - l
        BY <3>3
      <4>2. i = l + h
        BY <4>1
      <4>3. Above(pos1, n1, n1, i)
        BY <1>24, <4>1, <4>2
      <4>4. stack'[i].node \in edges'[path'[n1]]
        BY <1>8, <1>13, <1>14, <1>16, <3>3
      <4> QED BY <1>25, <4>3, <4>4
    <3> QED BY <2>3, <3>1, <3>2, <3>3
  <2> QED BY <1>22, <2>1, <2>2, <2>4, <2>5 DEF StackOK
<1>27. ASSUME NEW k \in 1..n, NEW y, Covered(path, k, y)
       PROVE  Covered(path, k, y)'
  <2>1. PICK p : p = path'
    OBVIOUS
  <2>2. \A j \in 1..k : j \in 1..n
    OBVIOUS
  <2>3. \A j \in 1..k : path[j] = p[j]
    BY <1>16, <2>1, <2>2
  <2>4. Covered(p, k, y)
    BY <1>27, <2>3, CoveredAgree
  <2> QED BY <1>1, <2>1, <2>4, CoveredNext
<1>28. ASSUME NEW k \in 1..n, NEW y \in edges[path[k]] \cap CycleNodes
       PROVE  Attended(pos1, n1, l2, k, y)'
  <2>1. Attended(pos, n, l, k, y)
    BY <1>4, <1>28 DEF AllAttended
  <2>2. \A j \in 1..k : j \in 1..n
    OBVIOUS
  <2>3. CASE \E i \in 1..l : Above(pos, n, k, i) /\ stack[i] = Enter(y)
    <3>1. PICK i \in 1..l : Above(pos, n, k, i) /\ stack[i] = Enter(y)
      BY <2>3
    <3>2. CASE i # l
      <4>1. i \in 1..l1
        BY <1>10, <3>2
      <4>2. i \in 1..l2 /\ stack'[i] = Enter(y) /\ Above(pos1, n1, k, i)
        BY <1>17, <1>23, <3>1, <4>1
      <4> QED BY <4>2 DEF Attended
    <3>3. CASE i = l
      <4>1. k = n
        <5>1. n \in 1..n
          BY <1>28
        <5>2. pos[n] \in 1..l1
          BY <1>19, <5>1
        <5>3. ~(l < pos[n])
          BY <1>17, <5>2
        <5>4. ~(k < n)
          BY <3>1, <3>3, <5>1, <5>3 DEF Above
        <5> QED BY <5>4
      <4>2. y = node
        BY <1>6, <1>7, <3>1, <3>3 DEF Enter
      <4>3. k < n1 /\ path'[k + 1] = y
        BY <1>10, <1>16, <4>1, <4>2
      <4> QED BY <4>3 DEF Attended
    <3> QED BY <3>2, <3>3
  <2>4. CASE k < n /\ path[k + 1] = y
    <3>1. k + 1 \in 1..n /\ k < n1
      <4>1. k \in 1..n /\ k < n /\ n1 = n + 1
        BY <1>10, <2>4
      <4> QED BY ONLY <4>1, n \in Nat
    <3> QED BY <1>16, <2>4, <3>1 DEF Attended
  <2>5. CASE \E j \in 1..k : path[j] = y /\ SubSeq(path, j, k) \in found_cycles
    <3>1. PICK j \in 1..k : path[j] = y /\ SubSeq(path, j, k) \in found_cycles
      BY <2>5
    <3>2. SubSeq(path', j, k) = SubSeq(path, j, k)
      <4>1. PICK r : r = path'
        OBVIOUS
      <4>2. k <= n1 /\ k <= n /\ j \in Nat /\ k \in Nat /\ 1 <= j /\ j <= k
        BY <1>10
      <4>3. \A i \in j..k : r[i] = path[i]
        <5>1. \A i \in j..k : i \in 1..n
          OBVIOUS
        <5> QED BY <1>16, <4>1, <5>1
      <4>4. SubSeq(r, j, k) = SubSeq(path, j, k)
        <5>1. r \in Seq(CycleNodes) /\ k <= Len(r) /\ k <= Len(path)
          BY <1>4, <1>16, <4>1, <4>2
        <5> QED BY <1>2, <4>2, <4>3, <5>1, SubSeqAgree
      <4> QED BY <4>1, <4>4
    <3>3. path'[j] = y
      BY <1>16, <2>2, <3>1
    <3>4. \E h \in 1..k : path'[h] = y /\ SubSeq(path', h, k) \in found_cycles'
      BY <1>1, <3>1, <3>2, <3>3
    <3> QED BY <3>4 DEF Attended
  <2>6. CASE (\A j \in 1..k : path[j] # y) /\ Covered(path, k, y)
    <3>1. Covered(path, k, y)'
      BY <1>27, <2>6
    <3>2. \A j \in 1..k : path'[j] # y
      BY <1>16, <2>2, <2>6
    <3> QED BY <3>1, <3>2 DEF Attended
  <2> QED BY <2>1, <2>3, <2>4, <2>5, <2>6 DEF Attended
<1>29. ASSUME NEW y \in succ PROVE Attended(pos1, n1, l2, n1, y)'
  <2>1. PICK h \in 1..d : next[h] = Enter(y)
    BY <1>13, <1>14
  <2>2. PICK i \in Int : i = l + h
    OBVIOUS
  <2>3. i \in 1..l2 /\ Above(pos1, n1, n1, i) /\ stack'[i] = Enter(y)
    BY <1>15, <1>24, <2>1, <2>2
  <2> QED BY <2>3 DEF Attended
<1>30. AllAttended(pos1, n1, l2)'
  <2>1. SUFFICES ASSUME NEW k \in 1..n1, NEW y \in edges[path'[k]] \cap CycleNodes
                 PROVE  Attended(pos1, n1, l2, k, y)'
    BY <1>5 DEF AllAttended
  <2>2. CASE k \in 1..n
    BY <1>16, <1>28, <2>2
  <2>3. CASE k = n1
    BY <1>8, <1>16, <1>29, <2>3
  <2> QED BY <1>20, <2>2, <2>3
<1>31. IsPath(path)' /\ path_set' = Elements(path')
  <2>1. IsPath(Append(path, node))
    BY <1>1, <1>2, <1>4, <1>6, <1>7, PathAppend
  <2> QED BY <1>2, <1>5, <1>9, <1>16, <2>1
<1>32. PathOK'
  BY <1>5, <1>15, <1>16, <1>22, <1>26, <1>30, <1>31 DEF PathOK
<1>33. path = <<>> => stack = <<Enter(Top.node)>>
  <2>1. SUFFICES ASSUME path = <<>> PROVE stack = <<Enter(Top.node)>>
    OBVIOUS
  <2>2. PICK e : e = Enter(Top.node)
    OBVIOUS
  <2>3. Len(stack) = 1 /\ stack[1] = e /\ e \in Entry
    <3>1. l = 1 /\ Len(stack) = 1
      BY <1>4, <1>6, <2>1
    <3>2. stack[1] = e
      <4>1. Top = stack[l] /\ Top = Enter(Top.node)
        BY <1>6
      <4>2. Top = e
        BY <2>2, <4>1
      <4> QED BY <3>1, <4>1, <4>2
    <3>3. e \in Entry
      BY <1>6, <2>2 DEF Enter, Entry
    <3> QED BY <3>1, <3>2, <3>3
  <2>4. stack = <<e>>
    BY <1>2, <2>3
  <2> QED BY <2>2, <2>4
<1> QED BY <1>6, <1>7, <1>9, <1>32, <1>33
-----------------------------------------------------------------------------
(* What is on the stack attends to all that the path leaves open.          *)
LEMMA PathStep ==
  GraphOK /\ SortOK /\ PhaseOK /\ PathOK /\ WalkOK /\ DetectionNext => PathOK'
<1> SUFFICES ASSUME GraphOK, PhaseOK, PathOK, DetectionNext PROVE PathOK'
  OBVIOUS
<1>1. edges' = edges
  BY GraphStep
<1>2. ~Process => processed' = processed
  BY SortEnded DEF sortVars
<1>3. CASE Process
  BY <1>3 DEF Process, PathOK
<1>4. CASE Sorted \/ AllPicked \/ SearchEnds
  BY <1>4 DEF Sorted, AllPicked, SearchEnds, PathOK
<1>5. CASE PickStart
  <2>1. ~Process
    BY <1>5 DEF PickStart, Process
  <2>2. CASE phase' = "search"
    BY <1>1, <1>2, <1>5, <2>1, <2>2, PickStartPath
  <2> QED BY <2>2 DEF PathOK
<1>6. CASE Backtrack
  <2>1. ~Process
    BY <1>6 DEF Backtrack, Process
  <2> QED BY <1>1, <1>2, <1>6, <2>1, BacktrackPath
<1>7. CASE CloseCycle
  <2>1. ~Process
    BY <1>7 DEF CloseCycle, Process
  <2> QED BY <1>1, <1>2, <1>7, <2>1, CloseCyclePath
<1>8. CASE EnterNode
  <2>1. ~Process
    BY <1>8 DEF EnterNode, Process
  <2> QED BY <1>1, <1>2, <1>8, <2>1, EnterNodePath
<1>9. CASE WalkUp \/ CloseParentCycle
  BY <1>9 DEF WalkUp, CloseParentCycle, PathOK
<1> QED BY <1>3, <1>4, <1>5, <1>6, <1>7, <1>8, <1>9 DEF DetectionNext

(* A node visited lies on a path from a start whose cycles are all found.  *)
LEMMA VisitedStep ==
  GraphOK /\ SortOK /\ PhaseOK /\ PathOK /\ PathOK' /\ VisitedOK /\ DetectionNext => VisitedOK'
<1> SUFFICES ASSUME GraphOK, SortOK, PhaseOK, PathOK, PathOK', VisitedOK, DetectionNext
             PROVE  VisitedOK'
  OBVIOUS
<1>1. kind' = kind /\ edges' = edges /\ found_cycles \subseteq found_cycles'
  BY GraphStep
<1>2. SUFFICES ASSUME kind = "dependencies" PROVE VisitedOK'
  BY <1>1 DEF VisitedOK
<1> DEFINE Way(x, p) == p \in Seq(CycleNodes) /\ IsPath(p) /\ p # <<>> /\ p[Len(p)] = x
           Started == phase = "search" /\ path # <<>>
<1>3. /\ \A x \in globally_visited : \E p :
            Way(x, p) /\ (Covered(<<>>, 0, p[1]) \/ (Started /\ p[1] = path[1]))
      /\ phase # "sort" => \A x \in CycleNodes \ starts :
            \/ x \in globally_visited
            \/ phase = "search" /\ path = <<>> /\ stack = <<Enter(x)>>
  BY <1>2 DEF VisitedOK
<1>4. ASSUME ~Process
      PROVE  /\ CycleNodes' = CycleNodes /\ processed' = processed
             /\ \A q : IsPath(q)' <=> IsPath(q)
             /\ \A y : Covered(<<>>, 0, y) => Covered(<<>>, 0, y)'
  <2>1. processed' = processed
    BY <1>4, SortEnded DEF sortVars
  <2>2. \A y : Covered(<<>>, 0, y) => Covered(<<>>, 0, y)'
    BY <1>1, <2>1, CoveredGrows
  <2> QED BY <1>1, <2>1, <2>2, Stable
<1>5. ASSUME ~Process,
             \A x \in globally_visited' : \E p :
                Way(x, p) /\ (Covered(<<>>, 0, p[1])' \/ (Started' /\ p[1] = path'[1])),
             \A x \in CycleNodes \ starts' :
                \/ x \in globally_visited'
                \/ phase' = "search" /\ path' = <<>> /\ stack' = <<Enter(x)>>
      PROVE  VisitedOK'
  <2>1. \A x \in globally_visited' : \E p \in Seq(CycleNodes') :
           /\ IsPath(p)' /\ p # <<>> /\ p[Len(p)] = x
           /\ \/ Covered(<<>>, 0, p[1])'
              \/ phase' = "search" /\ path' # <<>> /\ p[1] = path'[1]
    BY <1>4, <1>5
  <2> QED BY <1>4, <1>5, <2>1 DEF VisitedOK
<1>6. CASE Process
  <2>1. phase' = "sort" /\ globally_visited' = {}
    BY <1>6 DEF Process, SortOK
  <2> QED BY <2>1 DEF VisitedOK
<1>7. CASE Sorted
  <2>1. ~Process /\ starts' = CycleNodes /\ globally_visited' = {}
    BY <1>7 DEF Sorted, Process, SortOK
  <2> QED BY <1>5, <2>1
<1>8. CASE PickStart
  <2>1. ~Process /\ phase = "pick" /\ UNCHANGED globally_visited
    BY <1>8 DEF PickStart, Process
  <2>2. PICK start \in starts :
          /\ starts' = starts \ {start}
          /\ start \notin globally_visited =>
                path' = <<>> /\ phase' = "search" /\ stack' = <<Enter(start)>>
    BY <1>2, <1>8 DEF PickStart
  <2>3. \A x \in globally_visited' : \E p : Way(x, p) /\ Covered(<<>>, 0, p[1])'
    BY <1>3, <1>4, <2>1
  <2>4. \A x \in CycleNodes \ starts' :
           \/ x \in globally_visited'
           \/ phase' = "search" /\ path' = <<>> /\ stack' = <<Enter(x)>>
    BY <1>3, <2>1, <2>2
  <2> QED BY <1>5, <2>1, <2>3, <2>4
<1>9. CASE AllPicked
  <2>1. ~Process /\ phase = "pick" /\ UNCHANGED <<starts, globally_visited>>
    BY <1>9 DEF AllPicked, Process
  <2>2. \A x \in globally_visited' : \E p : Way(x, p) /\ Covered(<<>>, 0, p[1])'
    BY <1>3, <1>4, <2>1
  <2>3. \A x \in CycleNodes \ starts' : x \in globally_visited'
    BY <1>3, <2>1
  <2> QED BY <1>5, <2>1, <2>2, <2>3
<1>10. CASE Backtrack
  <2>1. /\ ~Process /\ phase = "search" /\ phase' = "search"
        /\ UNCHANGED <<starts, globally_visited>>
    BY <1>10 DEF Backtrack, Process
  <2>2. /\ path # <<>> /\ path' = Butlast(path)
        /\ Covered(path, Len(path) - 1, path[Len(path)])
    BY <1>1, <1>4, <1>10, <2>1, BacktrackPath
  <2>3. path \in Seq(CycleNodes)
    BY <2>1 DEF PathOK, IsPath
  <2>4. PICK n \in Nat : n = Len(path) /\ n >= 1
    BY <2>2, <2>3
  <2>5. /\ path' \in Seq(CycleNodes) /\ Len(path') = n - 1
        /\ \A k \in 1..(n - 1) : path'[k] = path[k]
    BY <2>2, <2>3, <2>4, ButlastFacts
  <2>7. \A x \in globally_visited' : \E p :
           Way(x, p) /\ (Covered(<<>>, 0, p[1])' \/ (Started' /\ p[1] = path'[1]))
    <3>1. SUFFICES ASSUME NEW x \in globally_visited
                   PROVE  \E p : Way(x, p) /\ (\/ Covered(<<>>, 0, p[1])'
                                               \/ (Started' /\ p[1] = path'[1]))
      BY <2>1
    <3>2. PICK p : Way(x, p) /\ (Covered(<<>>, 0, p[1]) \/ (Started /\ p[1] = path[1]))
      BY <1>3, <3>1
    <3>3. CASE Covered(<<>>, 0, p[1])
      BY <1>4, <2>1, <3>2, <3>3
    <3>4. CASE p[1] = path[1]
      <4>1. PICK a : a = path[1]
        OBVIOUS
      <4>2. Covered(<<>>, 0, a)' \/ (path' # <<>> /\ path'[1] = a)
        <5>1. CASE path' # <<>> /\ path'[1] = path[1]
          BY <4>1, <5>1
        <5>2. CASE ~(path' # <<>> /\ path'[1] = path[1])
          <6>1. n = 1
            <7>1. SUFFICES ASSUME n # 1 PROVE FALSE
              OBVIOUS
            <7>2. 1 \in 1..(n - 1) /\ n - 1 # 0
              BY <2>4, <7>1
            <7> QED BY <2>5, <5>2, <7>2
          <6>2. Covered(path, 0, a)
            BY <2>2, <2>4, <4>1, <6>1
          <6>3. \A j \in 1..0 : path[j] = <<>>[j]
            OBVIOUS
          <6>4. Covered(<<>>, 0, a)
            BY <6>2, <6>3, CoveredAgree
          <6> QED BY <1>4, <2>1, <6>4
        <5> QED BY <5>1, <5>2
      <4> QED BY <2>1, <3>2, <3>4, <4>1, <4>2
    <3> QED BY <3>2, <3>3, <3>4
  <2>8. \A x \in CycleNodes \ starts' : x \in globally_visited'
    BY <1>3, <2>1, <2>2
  <2> QED BY <1>5, <2>1, <2>7, <2>8
<1>11. CASE CloseCycle
  <2>1. /\ ~Process /\ phase = "search" /\ phase' = "search" /\ stack # <<>>
        /\ ~Top.backtrack /\ Top.node \in path_set /\ path' = path
        /\ UNCHANGED <<starts, globally_visited>>
    BY <1>11 DEF CloseCycle, Process, pathVars
  <2>2. path # <<>>
    BY <2>1, ClosingFacts
  <2>3. \A x \in globally_visited' : \E p :
           Way(x, p) /\ (Covered(<<>>, 0, p[1])' \/ (Started' /\ p[1] = path'[1]))
    BY <1>3, <1>4, <2>1, <2>2
  <2>4. \A x \in CycleNodes \ starts' : x \in globally_visited'
    BY <1>3, <2>1, <2>2
  <2> QED BY <1>5, <2>1, <2>3, <2>4
<1>12. CASE EnterNode
  <2>1. /\ ~Process /\ phase = "search" /\ phase' = "search" /\ UNCHANGED starts
    BY <1>12 DEF EnterNode, Process
  <2>2. /\ Top.node \in CycleNodes /\ path' = Append(path, Top.node)
        /\ globally_visited' = globally_visited \cup {Top.node}
        /\ path = <<>> => stack = <<Enter(Top.node)>>
    BY <1>1, <1>4, <1>12, <2>1, EnterNodePath
  <2>3. path \in Seq(CycleNodes)
    BY <2>1 DEF PathOK, IsPath
  <2>4. PICK n \in Nat : n = Len(path)
    BY <2>3
  <2>5. /\ path' \in Seq(CycleNodes) /\ Len(path') = n + 1
        /\ \A k \in 1..n : path'[k] = path[k]
        /\ path'[n + 1] = Top.node
    BY <2>2, <2>3, <2>4, AppendFacts
  <2>6. path' # <<>> /\ (path # <<>> => path'[1] = path[1])
    <3>1. path' # <<>>
      BY <2>5
    <3>2. path # <<>> => 1 \in 1..n
      BY <2>3, <2>4
    <3> QED BY <2>5, <3>1, <3>2
  <2>7. \A x \in globally_visited : \E p :
           Way(x, p) /\ (Covered(<<>>, 0, p[1])' \/ (Started' /\ p[1] = path'[1]))
    BY <1>3, <1>4, <2>1, <2>6
  <2>8. \E p : Way(Top.node, p) /\ (Started' /\ p[1] = path'[1])
    <3>1. PICK p : p = path'
      OBVIOUS
    <3>2. IsPath(path)'
      BY <2>1 DEF PathOK
    <3>3. IsPath(p)
      BY <1>4, <2>1, <3>1, <3>2
    <3>4. Way(Top.node, p)
      BY <2>5, <2>6, <3>1, <3>3
    <3> QED BY <2>1, <2>6, <3>1, <3>4
  <2>9. \A x \in globally_visited' : \E p :
           Way(x, p) /\ (Covered(<<>>, 0, p[1])' \/ (Started' /\ p[1] = path'[1]))
    BY <2>2, <2>7, <2>8
  <2>10. \A x \in CycleNodes \ starts' : x \in globally_visited'
    <3>1. SUFFICES ASSUME NEW x, path = <<>>, stack = <<Enter(x)>> PROVE x = Top.node
      BY <1>3, <2>1, <2>2
    <3>2. Enter(x) = Enter(Top.node)
      BY <2>2, <3>1
    <3> QED BY <3>2 DEF Enter
  <2> QED BY <1>5, <2>1, <2>9, <2>10
<1>13. CASE SearchEnds
  <2>1. /\ ~Process /\ phase = "search" /\ stack = <<>> /\ phase' = "pick"
        /\ UNCHANGED <<starts, globally_visited>>
    BY <1>13 DEF SearchEnds, Process
  <2>2. path = <<>>
    <3>1. PICK pos \in [1..Len(path) -> 1..Len(stack)] : TRUE
      BY <2>1 DEF PathOK
    <3>2. path \in Seq(CycleNodes)
      BY <2>1 DEF PathOK, IsPath
    <3>3. Len(stack) = 0
      BY <2>1
    <3>4. \A k \in 1..Len(path) : pos[k] \in 1..0
      BY <3>1, <3>3
    <3>5. Len(path) = 0
      BY <3>2, <3>4
    <3> QED BY <3>2, <3>5
  <2>3. \A x \in globally_visited' : \E p : Way(x, p) /\ Covered(<<>>, 0, p[1])'
    BY <1>3, <1>4, <2>1, <2>2
  <2>4. \A x \in CycleNodes \ starts' : x \in globally_visited'
    BY <1>3, <2>1
  <2> QED BY <1>5, <2>1, <2>3, <2>4
<1>14. CASE WalkUp \/ CloseParentCycle
  BY <1>2, <1>14 DEF WalkUp, CloseParentCycle, PhaseOK
<1> QED BY <1>6, <1>7, <1>8, <1>9, <1>10, <1>11, <1>12, <1>13, <1>14 DEF DetectionNext
-----------------------------------------------------------------------------
(* A way to a cycle goes on around the cycle.                              *)
LEMMA WayAround ==
  ASSUME SortOK, NEW p \in Seq(CycleNodes), IsPath(p), p # <<>>,
         NEW c \in Seq(DOMAIN edges), IsCycle(c), p[Len(p)] \in Elements(c),
         Covered(<<>>, 0, p[1])
  PROVE  \E f \in found_cycles : EdgesOn(f) = EdgesOn(c)
<1>1. PICK n \in Nat : n = Len(p) /\ n >= 1
  OBVIOUS
<1>2. PICK m \in 1..n : p[m] \in Elements(c) /\ \A k \in 1..(m - 1) : p[k] \notin Elements(c)
  <2>1. PICK T : T = {k \in 1..n : p[k] \in Elements(c)}
    OBVIOUS
  <2>2. T \in SUBSET Nat /\ T # {}
    BY <1>1, <2>1
  <2>3. PICK m \in T : \A k \in T : m <= k
    BY <2>2, LeastNumber
  <2>4. m \in 1..n /\ p[m] \in Elements(c)
    BY <2>1
  <2>5. ASSUME NEW k \in 1..(m - 1) PROVE p[k] \notin Elements(c)
    <3>1. k \in 1..n /\ ~(m <= k)
      BY <2>4
    <3> QED BY <2>1, <2>3, <3>1
  <2> QED BY <2>4, <2>5
<1>3. PICK d \in Seq(DOMAIN edges) :
        /\ IsCycle(d) /\ d[1] = p[m] /\ Elements(d) = Elements(c) /\ EdgesOn(d) = EdgesOn(c)
  BY <1>2, Rotation
<1>4. PICK l \in Nat : l = Len(d)
  OBVIOUS
<1>5. /\ l >= 1
      /\ \A j, k \in 1..l : d[j] = d[k] => j = k
      /\ \A k \in 1..(l - 1) : d[k + 1] \in edges[d[k]]
      /\ d[1] \in edges[d[l]]
  BY <1>3, <1>4 DEF IsCycle
<1>6. \A k \in 1..l : d[k] \in CycleNodes /\ d[k] \in Elements(c)
  <2>1. Elements(d) \subseteq CycleNodes
    BY <1>3, CycleInNodes
  <2> QED BY <1>3, <1>4, <2>1 DEF Elements
<1>7. /\ \A j, k \in 1..n : p[j] = p[k] => j = k
      /\ \A k \in 1..(n - 1) : p[k + 1] \in edges[p[k]]
  BY <1>1 DEF IsPath
<1>8. \A k \in 1..n : p[k] \in CycleNodes
  BY <1>1
<1>9. PICK r \in Nat : r = m + l - 1
  <2>1. m + l - 1 \in Nat
    OBVIOUS
  <2> QED BY <2>1
<1>10. PICK q : q = [k \in 1..r |-> IF k < m THEN p[k] ELSE d[k - m + 1]]
  OBVIOUS
<1>11. \A k \in 1..r : k < m => k \in 1..n /\ k \in 1..(m - 1) /\ q[k] = p[k]
  BY <1>10
<1>12. \A k \in 1..r : ~(k < m) => \E j \in 1..l : j = k - m + 1 /\ q[k] = d[j]
  <2>1. SUFFICES ASSUME NEW k \in 1..r, ~(k < m)
                 PROVE  \E j \in 1..l : j = k - m + 1 /\ q[k] = d[j]
    OBVIOUS
  <2>2. PICK j \in Int : j = k - m + 1
    OBVIOUS
  <2>3. j \in 1..l
    BY <1>9, <2>1, <2>2
  <2> QED BY <1>10, <2>1, <2>2, <2>3
<1>13. q \in Seq(CycleNodes) /\ Len(q) = r
  <2>1. \A k \in 1..r : q[k] \in CycleNodes
    BY <1>6, <1>8, <1>11, <1>12
  <2>2. q \in [1..r -> CycleNodes]
    BY <1>10, <2>1
  <2> QED BY <2>2
<1>14. m \in 1..r /\ r \in 1..r /\ 1 \in 1..r /\ q[m] = d[1] /\ q[r] = d[l]
  <2>1. m \in 1..r /\ r \in 1..r /\ 1 \in 1..r /\ ~(m < m) /\ ~(r < m)
    <3>1. l >= 1 /\ m \in Nat /\ m >= 1
      BY <1>5
    <3> QED BY ONLY <3>1, <1>9, l \in Nat, r \in Nat
  <2>2. PICK j \in 1..l : j = m - m + 1 /\ q[m] = d[j]
    BY <1>12, <2>1
  <2>3. PICK j1 \in 1..l : j1 = r - m + 1 /\ q[r] = d[j1]
    BY <1>12, <2>1
  <2>4. j = 1 /\ j1 = l
    BY <1>9, <2>2, <2>3
  <2> QED BY <2>1, <2>2, <2>3, <2>4
<1>15. \A j, k \in 1..r : q[j] = q[k] => j = k
  <2>1. ASSUME NEW j \in 1..r, NEW k \in 1..r, q[j] = q[k], j < m, ~(k < m) PROVE FALSE
    <3>1. q[j] \notin Elements(c)
      BY <1>2, <1>11, <2>1
    <3>2. q[k] \in Elements(c)
      BY <1>6, <1>12, <2>1
    <3> QED BY <2>1, <3>1, <3>2
  <2>2. ASSUME NEW j \in 1..r, NEW k \in 1..r, q[j] = q[k], j < m, k < m PROVE j = k
    BY <1>7, <1>11, <2>2
  <2>3. ASSUME NEW j \in 1..r, NEW k \in 1..r, q[j] = q[k], ~(j < m), ~(k < m) PROVE j = k
    <3>1. PICK h \in 1..l : h = j - m + 1 /\ q[j] = d[h]
      BY <1>12, <2>3
    <3>2. PICK i \in 1..l : i = k - m + 1 /\ q[k] = d[i]
      BY <1>12, <2>3
    <3>3. h = i
      BY <1>5, <2>3, <3>1, <3>2
    <3> QED BY <3>1, <3>2, <3>3
  <2>4. SUFFICES ASSUME NEW j \in 1..r, NEW k \in 1..r, q[j] = q[k] PROVE j = k
    OBVIOUS
  <2>5. CASE j < m /\ k < m
    BY <2>2, <2>4, <2>5
  <2>6. CASE j < m /\ ~(k < m)
    BY <2>1, <2>4, <2>6
  <2>7. CASE ~(j < m) /\ k < m
    BY <2>1, <2>4, <2>7
  <2>8. CASE ~(j < m) /\ ~(k < m)
    BY <2>3, <2>4, <2>8
  <2> QED BY <2>5, <2>6, <2>7, <2>8
<1>16. ASSUME NEW k \in 1..(r - 1) PROVE q[k + 1] \in edges[q[k]]
  <2>1. k \in 1..r /\ k + 1 \in 1..r
    BY <1>16
  <2>2. CASE k + 1 < m
    <3>1. k < m /\ k \in 1..(n - 1)
      BY <2>2
    <3> QED BY <1>7, <1>11, <2>1, <2>2, <3>1
  <2>3. CASE k + 1 = m
    <3>1. k < m /\ k \in 1..(n - 1)
      BY <2>3
    <3>2. q[k + 1] = p[k + 1] /\ q[k] = p[k]
      BY <1>3, <1>11, <1>14, <2>1, <2>3, <3>1
    <3> QED BY <1>7, <3>1, <3>2
  <2>4. CASE m < k + 1
    <3>1. ~(k < m) /\ ~(k + 1 < m)
      BY <2>4
    <3>2. PICK i \in 1..l : i = k - m + 1 /\ q[k] = d[i]
      BY <1>12, <2>1, <3>1
    <3>3. PICK h \in 1..l : h = (k + 1) - m + 1 /\ q[k + 1] = d[h]
      BY <1>12, <2>1, <3>1
    <3>4. h = i + 1 /\ i \in 1..(l - 1)
      BY <3>2, <3>3
    <3> QED BY <1>5, <3>2, <3>3, <3>4
  <2> QED BY <2>2, <2>3, <2>4
<1>17. IsPath(q)
  BY <1>13, <1>15, <1>16 DEF IsPath
<1>18. q[1] = p[1]
  <2>1. CASE m = 1
    BY <1>3, <1>14, <2>1
  <2>2. CASE m # 1
    <3>1. 1 < m
      BY <2>2
    <3> QED BY <1>11, <1>14, <3>1
  <2> QED BY <2>1, <2>2
<1>19. SubSeq(q, m, r) \in found_cycles
  <2>1. \A j \in 1..0 : q[j] = <<>>[j]
    OBVIOUS
  <2>2. 0 < Len(q) /\ 0 + 1 = 1
    BY <1>13, <1>14
  <2>3. q[m] \in edges[q[r]]
    BY <1>5, <1>14
  <2> QED BY <1>13, <1>14, <1>17, <1>18, <2>1, <2>2, <2>3 DEF Covered
<1>20. SubSeq(q, m, r) = d
  <2>1. PICK s : s = SubSeq(q, m, r)
    OBVIOUS
  <2>2. /\ s \in Seq(CycleNodes) /\ Len(s) = r - m + 1
        /\ \A i \in 1..(r - m + 1) : s[i] = q[m + i - 1]
    BY <1>13, <1>14, <2>1, SubSeqFacts
  <2>3. r - m + 1 = l
    BY <1>9
  <2>4. ASSUME NEW i \in 1..l PROVE s[i] = d[i]
    <3>1. PICK k \in Int : k = m + i - 1
      OBVIOUS
    <3>2. k \in 1..r /\ ~(k < m) /\ k - m + 1 = i
      BY <1>9, <3>1
    <3>3. q[k] = d[i]
      BY <1>12, <3>2
    <3> QED BY <2>2, <2>3, <3>1, <3>3
  <2>5. s \in [1..l -> CycleNodes]
    BY <2>2, <2>3
  <2>6. d \in [1..l -> DOMAIN edges]
    BY <1>4
  <2>7. s = d
    BY <2>4, <2>5, <2>6
  <2> QED BY <2>1, <2>7
<1> QED BY <1>3, <1>19, <1>20

(* Each step of the search for all cycles keeps the invariant.             *)
LEMMA DetectionStepInv == DetectionInv /\ [DetectionNext]_detectionVars => DetectionInv'
<1> SUFFICES ASSUME DetectionInv, [DetectionNext]_detectionVars PROVE DetectionInv'
  OBVIOUS
<1>1. GraphOK /\ SortOK /\ PhaseOK /\ PathOK /\ VisitedOK /\ WalkOK
  BY DEF DetectionInv
<1>2. CASE DetectionNext
  <2>1. GraphOK' /\ SortOK' /\ PhaseOK' /\ PathOK'
    BY <1>1, <1>2, GraphStep, SortStep, PhaseStep, PathStep
  <2>2. VisitedOK' /\ WalkOK'
    BY <1>1, <1>2, <2>1, VisitedStep, WalkStep
  <2> QED BY <2>1, <2>2 DEF DetectionInv
<1>3. CASE UNCHANGED detectionVars
  <2>1. /\ kind' = kind /\ edges' = edges /\ phase' = phase /\ in_degree' = in_degree
        /\ queue' = queue /\ processed' = processed /\ starts' = starts
        /\ globally_visited' = globally_visited /\ stack' = stack /\ path' = path
        /\ path_set' = path_set /\ current' = current /\ found_cycles' = found_cycles
    BY <1>3 DEF detectionVars
  <2>2. CycleNodes' = CycleNodes /\ Top' = Top /\ Entry' = Entry /\ FirstOnWalk' = FirstOnWalk
    BY <2>1 DEF CycleNodes, Top, Entry, FirstOnWalk
  <2>3. GraphOK' /\ SortOK' /\ PhaseOK'
    BY <1>1, <2>1, <2>2 DEF GraphOK, SortOK, PhaseOK, Endless, IsCycle
  <2>4. PathOK'
    <3>1. SUFFICES ASSUME phase = "search" PROVE PathOK'
      BY <2>1 DEF PathOK
    <3>2. PICK pos \in [1..Len(path) -> 1..Len(stack)] :
            /\ StackOK(pos, Len(path), Len(stack))
            /\ AllAttended(pos, Len(path), Len(stack))
      BY <1>1, <3>1 DEF PathOK
    <3>3. StackOK(pos, Len(path), Len(stack))'
      BY <2>1, <3>2 DEF StackOK
    <3>4. ASSUME NEW k, NEW y, Covered(path, k, y) PROVE Covered(path, k, y)'
      <4>1. \A q : IsPath(q)' <=> IsPath(q)
        BY <2>1, <2>2 DEF IsPath
      <4> QED BY <2>1, <2>2, <3>4, <4>1 DEF Covered
    <3>5. AllAttended(pos, Len(path), Len(stack))'
      <4>1. SUFFICES ASSUME NEW k \in 1..Len(path), NEW y \in edges[path[k]] \cap CycleNodes
                     PROVE  Attended(pos, Len(path), Len(stack), k, y)'
        BY <2>1, <2>2 DEF AllAttended
      <4>2. Attended(pos, Len(path), Len(stack), k, y)
        BY <3>2 DEF AllAttended
      <4> QED BY <2>1, <3>4, <4>2 DEF Attended
    <3>6. stack' \in Seq(Entry') /\ IsPath(path)' /\ path_set' = Elements(path')
      BY <1>1, <2>1, <2>2, <3>1 DEF PathOK, IsPath
    <3> QED BY <2>1, <3>2, <3>3, <3>5, <3>6 DEF PathOK
  <2>5. VisitedOK' /\ WalkOK'
    BY <1>1, <2>1, <2>2 DEF VisitedOK, WalkOK, IsPath, Covered, IsCycle
  <2> QED BY <2>3, <2>4, <2>5 DEF DetectionInv
<1> QED BY <1>2, <1>3

(* The count of what each item waits for is right, what has been sorted is *)
(* on no cycle, and every cycle through a node that has been left has been *)
(* reported.                                                               *)
THEOREM DetectionInvariant == DetectionSpec => []DetectionInv
<1>1. DetectionInit => DetectionInv
  BY DetectionInitInv
<1>2. DetectionInv /\ [DetectionNext]_detectionVars => DetectionInv'
  BY DetectionStepInv
<1> QED BY <1>1, <1>2, PTL DEF DetectionSpec

(* On every graph, the search for all cycles reports cycles only; at the   *)
(* end it has reported each of them; and it reports none if and only if    *)
(* there is none (detect_all_cycles, detect_all_parent_cycles).            *)
THEOREM ReportsAreExact == DetectionSpec => []ReportsAreTheCycles
<1>1. DetectionInv => ReportsAreTheCycles
  <2> SUFFICES ASSUME DetectionInv PROVE ReportsAreTheCycles
    OBVIOUS
  <2>1. GraphOK /\ SortOK /\ PhaseOK /\ VisitedOK /\ WalkOK
    BY DEF DetectionInv
  <2>2. \A cycle \in found_cycles : cycle \in Seq(DOMAIN edges) /\ IsCycle(cycle)
    BY <2>1 DEF PhaseOK
  <2>3. ASSUME phase = "done", NEW cycle \in Cycles
        PROVE  \E f \in found_cycles : EdgesOn(f) = EdgesOn(cycle)
    <3>1. cycle \in Seq(DOMAIN edges) /\ IsCycle(cycle)
      <4>1. IsFiniteSet(DOMAIN edges)
        BY <2>1, FiniteIds, FS_Subset DEF GraphOK
      <4>2. Cardinality(DOMAIN edges) \in Nat
        BY <4>1, FS_CardinalityType
      <4>3. PICK n \in 1..Cardinality(DOMAIN edges) : cycle \in [1..n -> DOMAIN edges]
        BY DEF Cycles
      <4>4. n \in Nat
        BY <4>2
      <4> QED BY <4>3, <4>4 DEF Cycles
    <3>2. /\ cycle[1] \in Elements(cycle) /\ cycle[1] \in CycleNodes
      <4>1. cycle[1] \in Elements(cycle)
        BY <3>1, CycleFacts DEF Elements
      <4> QED BY <2>1, <3>1, <4>1, CycleInNodes
    <3>3. starts = {}
      BY <2>1, <2>3 DEF PhaseOK
    <3>4. CASE kind = "parents"
      BY <2>1, <2>3, <3>1, <3>2, <3>3, <3>4 DEF WalkOK
    <3>5. CASE kind = "dependencies"
      <4>1. cycle[1] \in globally_visited
        BY <2>1, <2>3, <3>2, <3>3, <3>5 DEF VisitedOK
      <4>2. PICK p \in Seq(CycleNodes) :
              IsPath(p) /\ p # <<>> /\ p[Len(p)] = cycle[1] /\ Covered(<<>>, 0, p[1])
        BY <2>1, <2>3, <3>5, <4>1 DEF VisitedOK
      <4> QED BY <2>1, <3>1, <3>2, <4>2, WayAround
    <3> QED BY <2>1, <3>4, <3>5 DEF GraphOK
  <2>4. ASSUME phase = "done" PROVE found_cycles = {} <=> Acyclic(edges)
    <3>1. ASSUME found_cycles = {} PROVE Acyclic(edges)
      <4>1. CycleNodes = {}
        BY <2>1, <2>4, <3>1 DEF PhaseOK
      <4>2. \A S \in SUBSET DOMAIN edges : Endless(S) => S = {}
        BY <2>1, <4>1 DEF SortOK, CycleNodes
      <4> QED BY <4>2 DEF Acyclic, Endless
    <3>2. ASSUME found_cycles # {} PROVE ~Acyclic(edges)
      <4>1. PICK c \in found_cycles : c \in Seq(DOMAIN edges) /\ IsCycle(c)
        BY <2>2, <3>2
      <4>2. Endless(Elements(c)) /\ Elements(c) # {}
        BY <2>1, <4>1, CycleInNodes
      <4> QED BY <4>2 DEF Acyclic, Endless
    <3> QED BY <3>1, <3>2
  <2> QED BY <2>2, <2>3, <2>4 DEF ReportsAreTheCycles
<1> QED BY <1>1, DetectionInvariant, PTL

(* The set kept beside the path is the set of the path, so that the        *)
(* position of a node in it exists; no count falls below zero.             *)
THEOREM PathsAreTheirSets == DetectionSpec => []PathSetIsPath
<1>1. DetectionInv => PathSetIsPath
  <2> SUFFICES ASSUME DetectionInv PROVE PathSetIsPath
    OBVIOUS
  <2>1. phase = "search" => path_set = Elements(path)
    BY DEF DetectionInv, PathOK
  <2>2. ASSUME NEW i \in DOMAIN edges PROVE in_degree[i] \in Nat
    <3>1. (edges[i] \cap DOMAIN edges) \ processed \subseteq Ids
      BY DEF DetectionInv, GraphOK
    <3>2. in_degree[i] = Cardinality((edges[i] \cap DOMAIN edges) \ processed)
      BY DEF DetectionInv, SortOK
    <3> QED BY <3>1, <3>2, FiniteIds, FS_Subset, FS_CardinalityType
  <2> QED BY <2>1, <2>2 DEF PathSetIsPath
<1> QED BY <1>1, DetectionInvariant, PTL
=============================================================================
