--------------------------- MODULE TaskStoreProofs ---------------------------
(***************************************************************************)
(* TaskStore keeps StoreInv, for every number of items, agents, processes  *)
(* and crashes; the safety invariants that the runs check follow.          *)
(***************************************************************************)
EXTENDS TaskStoreInv, TLAPS, FiniteSetTheorems

-----------------------------------------------------------------------------
(***************************************************************************)
(* What the checks of TaskGraph establish, for graphs of every size.  No   *)
(* lemma needs an induction on paths: "acyclic" says that every nonempty   *)
(* set has a member without successor in it, "reachable" that every closed *)
(* set around the start holds the node, and the two are played against     *)
(* each other.                                                             *)
(***************************************************************************)
(* Taking nodes and edges away closes no cycle: rm, done, edit --rm-dep. *)
LEMMA AcyclicSubgraph ==
  ASSUME NEW E, NEW F, Acyclic(E), DOMAIN F \subseteq DOMAIN E,
         \A x \in DOMAIN F : F[x] \subseteq E[x]
  PROVE  Acyclic(F)
  BY DEF Acyclic

(* A node that nothing points to, itself included, closes no cycle: add. *)
LEMMA AcyclicNewNode ==
  ASSUME NEW E, NEW F, NEW n, Acyclic(E),
         DOMAIN F = DOMAIN E \cup {n},
         \A x \in DOMAIN E \ {n} : F[x] = E[x],
         \A x \in DOMAIN F : n \notin F[x]
  PROVE  Acyclic(F)
<1> SUFFICES ASSUME NEW S \in SUBSET DOMAIN F, S # {}
             PROVE  \E x \in S : F[x] \cap S = {}
  BY DEF Acyclic
<1>1. CASE S = {n}
  BY <1>1
<1>2. CASE S # {n}
  <2>1. S \ {n} # {} /\ S \ {n} \subseteq DOMAIN E
    BY <1>2
  <2>2. PICK x \in S \ {n} : E[x] \cap (S \ {n}) = {}
    BY <2>1 DEF Acyclic
  <2> QED
    BY <2>1, <2>2
<1> QED
  BY <1>1, <1>2

(* The successors of one node may grow by targets from which the node is   *)
(* not reachable: edit --add-dep, reparent.  Suppose everyone in S has a   *)
(* successor in S.  If one of the node's new targets is in S, take the     *)
(* closed set C around it that avoids the node: in S \cap C nobody's edges *)
(* have changed, and everyone still has a successor there.                 *)
LEMMA AcyclicRewired ==
  ASSUME NEW E, NEW F, NEW n, Acyclic(E),
         DOMAIN F = DOMAIN E,
         \A x \in DOMAIN E \ {n} : F[x] = E[x],
         \A d \in F[n] \ E[n] :
            \E C : d \in C /\ n \notin C /\ \A x \in C \cap DOMAIN E : E[x] \subseteq C
  PROVE  Acyclic(F)
<1> SUFFICES ASSUME NEW S \in SUBSET DOMAIN F, S # {},
                    \A x \in S : F[x] \cap S # {}
             PROVE  FALSE
  BY DEF Acyclic
<1>1. CASE n \in S /\ \E d \in F[n] \ E[n] : d \in S
  <2>1. PICK d \in F[n] \ E[n] : d \in S
    BY <1>1
  <2>2. PICK C : d \in C /\ n \notin C /\ \A x \in C \cap DOMAIN E : E[x] \subseteq C
    BY <2>1
  <2>3. S \cap C # {} /\ S \cap C \subseteq DOMAIN E
    BY <2>1, <2>2
  <2>4. ASSUME NEW x \in S \cap C
        PROVE  E[x] \cap (S \cap C) # {}
    <3>1. F[x] = E[x] /\ E[x] \subseteq C
      BY <2>2, <2>3
    <3> QED
      BY <3>1
  <2> QED
    BY <2>3, <2>4 DEF Acyclic
<1>2. CASE ~(n \in S /\ \E d \in F[n] \ E[n] : d \in S)
  <2>1. ASSUME NEW x \in S
        PROVE  E[x] \cap S # {}
    BY <1>2
  <2> QED
    BY <2>1 DEF Acyclic
<1> QED
  BY <1>1, <1>2

(* An unreachable node is kept out by a closed set. *)
LEMMA UnreachableIsSeparated ==
  ASSUME NEW E, NEW n \in Ids, NEW d, n \notin Reachable(E, d)
  PROVE  \E C \in SUBSET Ids : d \in C /\ n \notin C /\ IsClosed(E, C)
  BY DEF Reachable

-----------------------------------------------------------------------------
(***************************************************************************)
(* Records and files.                                                      *)
(***************************************************************************)
(* Writing a record keeps an item file an item file (store/jsonl.rs). *)
LEMMA PutItemType ==
  ASSUME NEW f, IsItemFile(f), NEW i \in Ids, NEW item \in Item
  PROVE  IsItemFile(PutItem(f, i, item))
  BY DEF IsItemFile, PutItem

(* So does leaving a record out. *)
LEMMA RemoveItemType ==
  ASSUME NEW f, IsItemFile(f), NEW i
  PROVE  IsItemFile(RemoveItem(f, i))
  BY DEF IsItemFile, RemoveItem

(* tg init starts from two empty item files. *)
LEMMA EmptyFileType == IsItemFile(EmptyFile)
  BY DEF IsItemFile, EmptyFile

(* The record that tg add builds is one. *)
LEMMA NewItemType ==
  ASSUME NEW deps \in SUBSET Ids, NEW parent \in Ids \cup {None}
  PROVE  NewItem(deps, parent) \in Item
  BY DEF NewItem, Item, Status

(* A status transition yields a record and leaves the relations alone. *)
LEMMA TransitionType ==
  ASSUME NEW item \in Item, NEW claim \in Agents \cup {None},
         NEW new \in {ApplyDo(item, claim), ApplyTodo(item), ApplyDone(item),
                      ApplyBlock(item), ApplyUnblock(item)}
  PROVE  /\ new \in Item
         /\ new.dependencies = item.dependencies
         /\ new.parent = item.parent
<1>1. item \in [status: Status, dependencies: SUBSET Ids, parent: Ids \cup {None},
                claimed_by: Agents \cup {None}, blocked_from_status: Status \cup {None}]
  BY DEF Item
<1>2. {"todo", "doing", "done", "blocked"} \subseteq Status
  BY DEF Status
<1>3. CASE new = ApplyDo(item, claim)
  BY <1>1, <1>2, <1>3 DEF ApplyDo, Item
<1>4. CASE new = ApplyTodo(item)
  BY <1>1, <1>2, <1>4 DEF ApplyTodo, Item
<1>5. CASE new = ApplyDone(item)
  BY <1>1, <1>2, <1>5 DEF ApplyDone, Item
<1>6. CASE new = ApplyBlock(item)
  BY <1>1, <1>2, <1>6 DEF ApplyBlock, Item
<1>7. CASE new = ApplyUnblock(item)
  BY <1>1, <1>2, <1>7 DEF ApplyUnblock, Item
<1> QED
  BY <1>3, <1>4, <1>5, <1>6, <1>7

(* A record with the relations of the one it replaces changes no edge. *)
LEMMA PutSameRelations ==
  ASSUME NEW f, NEW i \in DOMAIN f, NEW item,
         item.dependencies = f[i].dependencies, item.parent = f[i].parent
  PROVE  /\ DependencyEdges(PutItem(f, i, item)) = DependencyEdges(f)
         /\ ParentEdges(PutItem(f, i, item)) = ParentEdges(f)
  BY DEF DependencyEdges, ParentEdges, PutItem

(* Taking an item away closes no cycle. *)
LEMMA RemoveKeepsAcyclic ==
  ASSUME NEW f, NEW i,
         Acyclic(DependencyEdges(f)), Acyclic(ParentEdges(f))
  PROVE  /\ Acyclic(DependencyEdges(RemoveItem(f, i)))
         /\ Acyclic(ParentEdges(RemoveItem(f, i)))
<1> DEFINE g == RemoveItem(f, i)
<1>1. DOMAIN DependencyEdges(g) \subseteq DOMAIN DependencyEdges(f)
  BY DEF DependencyEdges, RemoveItem
<1>2. \A x \in DOMAIN DependencyEdges(g) : DependencyEdges(g)[x] \subseteq DependencyEdges(f)[x]
  BY DEF DependencyEdges, RemoveItem
<1>3. DOMAIN ParentEdges(g) \subseteq DOMAIN ParentEdges(f)
  BY DEF ParentEdges, RemoveItem
<1>4. \A x \in DOMAIN ParentEdges(g) : ParentEdges(g)[x] \subseteq ParentEdges(f)[x]
  BY DEF ParentEdges, RemoveItem
<1> HIDE DEF g
<1>5. Acyclic(DependencyEdges(g))
  BY <1>1, <1>2, AcyclicSubgraph
<1>6. Acyclic(ParentEdges(g))
  BY <1>3, <1>4, AcyclicSubgraph
<1> QED
  BY <1>5, <1>6 DEF g
-----------------------------------------------------------------------------
(***************************************************************************)
(* Taking on a commit.                                                     *)
(***************************************************************************)
GoodJob(p) ==
  /\ IsJob(job[p])
  /\ WellFormed(job[p])
  /\ job[p].stage \in {"event", "tasks"}
  /\ job[p].stage = "event" => job[p].kind # "save"
  /\ Sound(job[p])

(* A command that leaves the files alone, holds the lock and has prepared  *)
(* a good commit keeps the invariant.                                      *)
LEMMA BeginKeepsInv ==
  ASSUME StoreInv, NEW p \in Procs, NEW c, Begin(p, c),
         issued \subseteq issued', issued' \subseteq Ids,
         GoodJob(p)'
  PROVE  StoreInv'
<1> USE DEF StoreInv
<1>1. /\ lock = None /\ lock' = p
      /\ DOMAIN job' = Procs
      /\ \A q \in Procs \ {p} : job'[q] = job[q]
      /\ active' = active /\ archive' = archive
      /\ events' = events /\ events_archive' = events_archive
      /\ crashes' = crashes
  BY DEF Begin, files, TypeOK
<1>2. \A q \in Procs \ {p} : job'[q].stage = "idle"
  BY <1>1, NoneIsNoProc DEF LockProtects, InProgress
<1>3. TypeOK'
  BY <1>1, <1>2 DEF TypeOK, GoodJob, WellFormed
<1>4. LockProtects'
  BY <1>1, <1>2 DEF LockProtects, InProgress
<1>5. FilesOK'
  BY <1>1 DEF FilesOK, DependenciesResolve, Known, NoDependencyCycle, NoParentCycle,
              MentionsIssued, Split
<1>6. JobsOK'
  <2> SUFFICES ASSUME NEW q \in Procs
               PROVE  WellFormed(job'[q]) /\ (Pending(job'[q]) => Sound(job[q])')
    BY DEF JobsOK, WellFormed, Pending
  <2>1. CASE q = p
    BY <2>1 DEF GoodJob, WellFormed
  <2>2. CASE q # p
    BY <1>1, <1>2, <2>2 DEF JobsOK, WellFormed, Pending
  <2> QED
    BY <2>1, <2>2
<1> QED
  BY <1>3, <1>4, <1>5, <1>6

(* save_active, whatever the command that calls it. *)
LEMMA SaveActiveKeepsInv ==
  ASSUME StoreInv, NEW p \in Procs, NEW new, SaveActive(p, new),
         IsItemFile(new),
         Acyclic(DependencyEdges(new)), Acyclic(ParentEdges(new)),
         \A i \in DOMAIN new : i \in issued' /\ new[i].parent \in issued' \cup {None},
         issued \subseteq issued', issued' \subseteq Ids
  PROVE  StoreInv'
<1> DEFINE c == [NoJob EXCEPT !.stage = "tasks", !.tasks = new]
<1>1. Begin(p, c) /\ ValidateActiveWrite(new)
  BY DEF SaveActive
<1>2. job'[p] = [kind |-> "save", stage |-> "tasks", id |-> None, item |-> None, tasks |-> new]
  BY <1>1 DEF Begin, NoJob, StoreInv, TypeOK
<1>3. archive' = archive
  BY <1>1 DEF Begin, files
<1>4. GoodJob(p)'
  <2>1. IsJob(job[p])'
    BY <1>2 DEF IsJob, Kind, Stage
  <2>2. Sound(job[p])'
    BY <1>1, <1>2, <1>3 DEF Sound, ValidateActiveWrite, DependencyReferencesResolve,
                            MentionsIssued, BeforeArchiving
  <2> QED
    BY <1>2, <2>1, <2>2 DEF GoodJob, WellFormed
<1> QED
  BY <1>1, <1>4, BeginKeepsInv

(* commit_status_change, for a record with the relations of the old one. *)
LEMMA CommitStatusChangeKeepsInv ==
  ASSUME StoreInv, NEW p \in Procs, NEW i \in DOMAIN active, NEW item \in Item,
         item.dependencies = active[i].dependencies, item.parent = active[i].parent,
         CommitStatusChange(p, i, item)
  PROVE  StoreInv'
<1> DEFINE new == PutItem(active, i, item)
           c == [kind |-> "status", stage |-> "event", id |-> i, item |-> item, tasks |-> new]
<1>1. Begin(p, c) /\ ValidateActiveWrite(new) /\ issued' = issued
  BY DEF CommitStatusChange
<1>2. i \in Ids /\ IsItemFile(new)
  BY PutItemType DEF StoreInv, TypeOK, IsItemFile
<1>3. DependencyEdges(new) = DependencyEdges(active) /\ ParentEdges(new) = ParentEdges(active)
  BY PutSameRelations
<1>4. \A j \in DOMAIN new : j \in issued /\ new[j].parent \in issued \cup {None}
  BY DEF StoreInv, FilesOK, MentionsIssued, PutItem
<1>5. Acyclic(DependencyEdges(new)) /\ Acyclic(ParentEdges(new))
  BY <1>3 DEF StoreInv, FilesOK, NoDependencyCycle, NoParentCycle
<1> HIDE DEF new
<1>6. job'[p] = c
  BY <1>1 DEF Begin, StoreInv, TypeOK
<1>7. archive' = archive
  BY <1>1 DEF Begin, files
<1>8. GoodJob(p)'
  <2>1. IsJob(job[p])'
    BY <1>2, <1>6 DEF IsJob, Kind, Stage
  <2>2. Sound(job[p])'
    BY <1>1, <1>4, <1>5, <1>6, <1>7
       DEF Sound, ValidateActiveWrite, DependencyReferencesResolve, MentionsIssued, BeforeArchiving
  <2> QED
    BY <1>2, <1>6, <2>1, <2>2 DEF GoodJob, WellFormed
<1>9. issued \subseteq issued' /\ issued' \subseteq Ids
  BY <1>1 DEF StoreInv, TypeOK
<1> QED
  BY <1>1, <1>8, <1>9, BeginKeepsInv

(* commit_done takes the item out of the active ones. *)
LEMMA CommitDoneKeepsInv ==
  ASSUME StoreInv, NEW p \in Procs, NEW i \in DOMAIN active, NEW item \in Item,
         CommitDone(p, i, item)
  PROVE  StoreInv'
<1> DEFINE new == RemoveItem(active, i)
           c == [kind |-> "done", stage |-> "event", id |-> i, item |-> item, tasks |-> new]
<1>1. Begin(p, c) /\ ValidateArchiveMove(new, i) /\ issued' = issued
  BY DEF CommitDone
<1>2. i \in Ids /\ i \in issued /\ IsItemFile(new)
  BY RemoveItemType DEF StoreInv, TypeOK, IsItemFile, FilesOK, MentionsIssued
<1>3. Acyclic(DependencyEdges(new)) /\ Acyclic(ParentEdges(new))
  BY RemoveKeepsAcyclic DEF StoreInv, FilesOK, NoDependencyCycle, NoParentCycle
<1>4. \A j \in DOMAIN new : j \in issued /\ new[j].parent \in issued \cup {None}
  BY DEF StoreInv, FilesOK, MentionsIssued, RemoveItem
<1>5. DOMAIN active \subseteq DOMAIN new \cup {i}
  BY DEF RemoveItem
<1> HIDE DEF new
<1>6. job'[p] = c
  BY <1>1 DEF Begin, StoreInv, TypeOK
<1>7. archive' = archive /\ active' = active
  BY <1>1 DEF Begin, files
<1>8. GoodJob(p)'
  <2>1. IsJob(job[p])'
    BY <1>2, <1>6 DEF IsJob, Kind, Stage
  <2>2. Sound(job[p])'
    BY <1>1, <1>2, <1>3, <1>4, <1>5, <1>6, <1>7
       DEF Sound, ValidateArchiveMove, DependencyReferencesResolve, MentionsIssued, BeforeArchiving
  <2> QED
    BY <1>2, <1>6, <2>1, <2>2 DEF GoodJob, WellFormed
<1>9. issued \subseteq issued' /\ issued' \subseteq Ids
  BY <1>1 DEF StoreInv, TypeOK
<1> QED
  BY <1>1, <1>8, <1>9, BeginKeepsInv

-----------------------------------------------------------------------------
(***************************************************************************)
(* The commands.                                                           *)
(***************************************************************************)
(* Nothing active points to a fresh identifier: dependencies resolve to    *)
(* known items and parents were issued.                                    *)
LEMMA AddKeepsInv ==
  ASSUME StoreInv, NEW p \in Procs, NEW i \in Ids, NEW deps \in SUBSET Ids,
         NEW parent \in Ids \cup {None}, Add(p, i, deps, parent)
  PROVE  StoreInv'
<1> DEFINE new == [PutItem(active, i, NewItem(deps, None)) EXCEPT ![i].parent = parent]
<1>1. /\ i \notin Known \cup issued
      /\ \A d \in deps : d # i /\ d \in DOMAIN active \cup DOMAIN archive
      /\ parent # None => parent \in DOMAIN active
      /\ SaveActive(p, new)
      /\ issued' = issued \cup {i}
  BY DEF Add, ValidDependency
<1>2. IsItemFile(active) /\ i \notin DOMAIN active /\ i # None
  BY <1>1, NoneIsFresh DEF StoreInv, TypeOK, Known
<1>3. new = PutItem(active, i, NewItem(deps, parent))
  <2> DEFINE base == PutItem(active, i, NewItem(deps, None))
  <2>1. /\ DOMAIN base = DOMAIN active \cup {i}
        /\ base[i] = NewItem(deps, None)
        /\ \A j \in DOMAIN active \ {i} : base[j] = active[j]
    BY DEF PutItem
  <2>2. [NewItem(deps, None) EXCEPT !.parent = parent] = NewItem(deps, parent)
    BY DEF NewItem
  <2>3. new = [base EXCEPT ![i] = [base[i] EXCEPT !.parent = parent]]
    OBVIOUS
  <2> HIDE DEF base, new
  <2> QED
    BY <2>1, <2>2, <2>3 DEF PutItem
<1> HIDE DEF new
<1>4. IsItemFile(new)
  BY <1>2, <1>3, NewItemType, PutItemType
<1>5. /\ DOMAIN new = DOMAIN active \cup {i}
      /\ new[i] = NewItem(deps, parent)
      /\ \A j \in DOMAIN active : new[j] = active[j]
  BY <1>2, <1>3 DEF PutItem
<1>6. \A j \in DOMAIN new : j \in issued' /\ new[j].parent \in issued' \cup {None}
  BY <1>1, <1>5 DEF StoreInv, FilesOK, MentionsIssued, NewItem
<1>7. Acyclic(DependencyEdges(new))
  <2>1. \A j \in DOMAIN new : i \notin new[j].dependencies
    BY <1>1, <1>5 DEF StoreInv, FilesOK, DependenciesResolve, NewItem
  <2>2. /\ DOMAIN DependencyEdges(new) = DOMAIN DependencyEdges(active) \cup {i}
        /\ \A x \in DOMAIN DependencyEdges(active) \ {i} :
              DependencyEdges(new)[x] = DependencyEdges(active)[x]
        /\ \A x \in DOMAIN DependencyEdges(new) : i \notin DependencyEdges(new)[x]
    BY <1>5, <2>1 DEF DependencyEdges
  <2> QED
    BY <2>2, AcyclicNewNode DEF StoreInv, FilesOK, NoDependencyCycle
<1>8. Acyclic(ParentEdges(new))
  <2>1. \A j \in DOMAIN new : new[j].parent # i
    BY <1>1, <1>2, <1>5 DEF StoreInv, FilesOK, MentionsIssued, NewItem
  <2>2. /\ DOMAIN ParentEdges(new) = DOMAIN ParentEdges(active) \cup {i}
        /\ \A x \in DOMAIN ParentEdges(active) \ {i} :
              ParentEdges(new)[x] = ParentEdges(active)[x]
        /\ \A x \in DOMAIN ParentEdges(new) : i \notin ParentEdges(new)[x]
    BY <1>5, <2>1 DEF ParentEdges
  <2> QED
    BY <2>2, AcyclicNewNode DEF StoreInv, FilesOK, NoParentCycle
<1>9. issued \subseteq issued' /\ issued' \subseteq Ids
  BY <1>1 DEF StoreInv, TypeOK
<1> QED
  BY <1>1, <1>4, <1>6, <1>7, <1>8, <1>9, SaveActiveKeepsInv

(* The two searches start from the new targets and do not pass through the *)
(* edited item, so it does not matter that they run on half-edited items.  *)
LEMMA EditKeepsInv ==
  ASSUME StoreInv, NEW p \in Procs, NEW i \in Ids, NEW deps \in SUBSET Ids,
         NEW parent \in Ids \cup {None}, Edit(p, i, deps, parent)
  PROVE  StoreInv'
<1> DEFINE half == [active EXCEPT ![i].dependencies = deps]
           new == [half EXCEPT ![i].parent = parent]
<1>1. /\ i \in DOMAIN active
      /\ \A d \in deps \ active[i].dependencies : ~WouldCreateCycle(half, i, d)
      /\ parent \notin {None, active[i].parent} =>
            parent \in DOMAIN active /\ ~WouldCreateParentCycle(half, i, parent)
      /\ SaveActive(p, new)
      /\ issued' = issued
  BY DEF Edit, CanReparent, ValidParent
<1>2. active[i] \in Item /\ IsItemFile(active)
  BY <1>1 DEF StoreInv, TypeOK, IsItemFile
<1>3. /\ DOMAIN half = DOMAIN active /\ DOMAIN new = DOMAIN active
      /\ half[i] = [active[i] EXCEPT !.dependencies = deps]
      /\ new[i] = [active[i] EXCEPT !.dependencies = deps, !.parent = parent]
      /\ \A j \in DOMAIN active \ {i} : half[j] = active[j] /\ new[j] = active[j]
  BY <1>1
<1> HIDE DEF half, new
<1>4. /\ new[i] \in Item
      /\ new[i].dependencies = deps /\ new[i].parent = parent
      /\ half[i].parent = active[i].parent
  BY <1>2, <1>3 DEF Item
<1>4a. new \in [DOMAIN new -> Item]
  <2>1. new = [j \in DOMAIN active |-> new[j]]
    BY DEF new, half
  <2>2. \A j \in DOMAIN active : new[j] \in Item
    BY <1>2, <1>3, <1>4 DEF IsItemFile
  <2> QED
    BY <1>3, <2>1, <2>2
<1>5. IsItemFile(new)
  BY <1>2, <1>3, <1>4a DEF IsItemFile
<1>6. \A j \in DOMAIN new : j \in issued' /\ new[j].parent \in issued' \cup {None}
  BY <1>1, <1>3, <1>4 DEF StoreInv, FilesOK, MentionsIssued
<1>7. Acyclic(DependencyEdges(new))
  <2> DEFINE E == DependencyEdges(active)
             H == DependencyEdges(half)
             F == DependencyEdges(new)
  <2>1. /\ DOMAIN E = DOMAIN active /\ DOMAIN F = DOMAIN E /\ DOMAIN H = DOMAIN E
        /\ \A x \in DOMAIN E \ {i} : F[x] = E[x] /\ H[x] = E[x]
        /\ F[i] = deps /\ E[i] = active[i].dependencies
    BY <1>1, <1>3, <1>4 DEF DependencyEdges
  <2>2. \A d \in deps \ active[i].dependencies : i \notin Reachable(H, d)
    BY <1>1 DEF WouldCreateCycle
  <2>3. Acyclic(E)
    BY DEF StoreInv, FilesOK, NoDependencyCycle
  <2> HIDE DEF E, F, H
  <2>4. ASSUME NEW d \in F[i] \ E[i]
        PROVE  \E C : d \in C /\ i \notin C /\ \A x \in C \cap DOMAIN E : E[x] \subseteq C
    <3>1. PICK C \in SUBSET Ids : d \in C /\ i \notin C /\ IsClosed(H, C)
      BY <2>1, <2>2, UnreachableIsSeparated
    <3>2. \A x \in C \cap DOMAIN E : E[x] \subseteq C
      BY <2>1, <3>1 DEF IsClosed
    <3> QED
      BY <3>1, <3>2
  <2>5. Acyclic(F)
    BY <2>1, <2>3, <2>4, AcyclicRewired
  <2> QED
    BY <2>5 DEF F
<1>8. Acyclic(ParentEdges(new))
  <2> DEFINE E == ParentEdges(active)
             H == ParentEdges(half)
             F == ParentEdges(new)
  <2>1. /\ DOMAIN E = DOMAIN active /\ DOMAIN F = DOMAIN E /\ DOMAIN H = DOMAIN E
        /\ \A x \in DOMAIN E \ {i} : F[x] = E[x] /\ H[x] = E[x]
        /\ F[i] = {parent} \ {None} /\ E[i] = {active[i].parent} \ {None}
    BY <1>1, <1>3, <1>4 DEF ParentEdges
  <2>2. \A d \in F[i] \ E[i] : i \notin Reachable(H, d)
    BY <1>1, <2>1 DEF WouldCreateParentCycle
  <2>3. Acyclic(E)
    BY DEF StoreInv, FilesOK, NoParentCycle
  <2> HIDE DEF E, F, H
  <2>4. ASSUME NEW d \in F[i] \ E[i]
        PROVE  \E C : d \in C /\ i \notin C /\ \A x \in C \cap DOMAIN E : E[x] \subseteq C
    <3>1. PICK C \in SUBSET Ids : d \in C /\ i \notin C /\ IsClosed(H, C)
      BY <2>1, <2>2, UnreachableIsSeparated
    <3>2. \A x \in C \cap DOMAIN E : E[x] \subseteq C
      BY <2>1, <3>1 DEF IsClosed
    <3> QED
      BY <3>1, <3>2
  <2>5. Acyclic(F)
    BY <2>1, <2>3, <2>4, AcyclicRewired
  <2> QED
    BY <2>5 DEF F
<1>9. issued \subseteq issued' /\ issued' \subseteq Ids
  BY <1>1 DEF StoreInv, TypeOK
<1> QED
  BY <1>1, <1>5, <1>6, <1>7, <1>8, <1>9, SaveActiveKeepsInv

(* tg rm takes an item away and adds nothing. *)
LEMMA RmKeepsInv ==
  ASSUME StoreInv, NEW p \in Procs, NEW i \in Ids, Rm(p, i)
  PROVE  StoreInv'
<1> DEFINE new == RemoveItem(active, i)
<1>1. SaveActive(p, new) /\ issued' = issued
  BY DEF Rm
<1>2. IsItemFile(new)
  BY RemoveItemType DEF StoreInv, TypeOK
<1>3. Acyclic(DependencyEdges(new)) /\ Acyclic(ParentEdges(new))
  BY RemoveKeepsAcyclic DEF StoreInv, FilesOK, NoDependencyCycle, NoParentCycle
<1>4. \A j \in DOMAIN new : j \in issued' /\ new[j].parent \in issued' \cup {None}
  BY <1>1 DEF StoreInv, FilesOK, MentionsIssued, RemoveItem
<1>5. issued \subseteq issued' /\ issued' \subseteq Ids
  BY <1>1 DEF StoreInv, TypeOK
<1> HIDE DEF new
<1> QED
  BY <1>1, <1>2, <1>3, <1>4, <1>5, SaveActiveKeepsInv

(* A claim touches no relation. *)
LEMMA ClaimKeepsInv ==
  ASSUME StoreInv, NEW p \in Procs, NEW i \in Ids, NEW claim \in Agents, Claim(p, i, claim)
  PROVE  StoreInv'
<1> DEFINE item == [active[i] EXCEPT !.claimed_by = claim]
           new == PutItem(active, i, item)
<1>1. i \in DOMAIN active /\ issued' = issued
  BY DEF Claim
<1>2. active[i] \in Item /\ IsItemFile(active)
  BY <1>1 DEF StoreInv, TypeOK, IsItemFile
<1>3. /\ item \in Item
      /\ item.dependencies = active[i].dependencies
      /\ item.parent = active[i].parent
  BY <1>2 DEF Item
<1>4. new = [active EXCEPT ![i].claimed_by = claim]
  BY <1>1 DEF PutItem
<1>5. SaveActive(p, new)
  BY <1>4 DEF Claim
<1> HIDE DEF item
<1>6. IsItemFile(new)
  BY <1>2, <1>3, PutItemType
<1>7. Acyclic(DependencyEdges(new)) /\ Acyclic(ParentEdges(new))
  BY <1>1, <1>3, PutSameRelations DEF StoreInv, FilesOK, NoDependencyCycle, NoParentCycle
<1>8. \A j \in DOMAIN new : j \in issued' /\ new[j].parent \in issued' \cup {None}
  BY <1>1, <1>3 DEF StoreInv, FilesOK, MentionsIssued, PutItem
<1>9. issued \subseteq issued' /\ issued' \subseteq Ids
  BY <1>1 DEF StoreInv, TypeOK
<1> HIDE DEF new
<1> QED
  BY <1>5, <1>6, <1>7, <1>8, <1>9, SaveActiveKeepsInv

(* Every command takes on a good commit or none. *)
LEMMA CommandKeepsInv ==
  ASSUME StoreInv, NEW p \in Procs, Command(p)
  PROVE  StoreInv'
<1>1. PICK i \in Ids :
        \/ \E deps \in SUBSET Ids, parent \in Ids \cup {None} :
              Add(p, i, deps, parent) \/ Edit(p, i, deps, parent)
        \/ \E claim \in Agents \cup {None} : Do(p, i, claim)
        \/ \E claim \in Agents : Claim(p, i, claim)
        \/ Rm(p, i)
        \/ Todo(p, i)
        \/ Block(p, i)
        \/ Unblock(p, i)
        \/ Done(p, i)
  BY DEF Command
<1>2. i \in DOMAIN active => active[i] \in Item
  BY DEF StoreInv, TypeOK, IsItemFile
<1>3. None \in Agents \cup {None}
  OBVIOUS
<1>4. CASE \E claim \in Agents \cup {None} : Do(p, i, claim)
  <2>1. PICK claim \in Agents \cup {None} : Do(p, i, claim)
    BY <1>4
  <2> DEFINE new == ApplyDo(active[i], claim)
  <2>2. i \in DOMAIN active /\ CommitStatusChange(p, i, new)
    BY <2>1 DEF Do
  <2>3. /\ new \in Item /\ new.dependencies = active[i].dependencies
        /\ new.parent = active[i].parent
    BY <1>2, <2>2, TransitionType
  <2> HIDE DEF new
  <2> QED
    BY <2>2, <2>3, CommitStatusChangeKeepsInv
<1>5. CASE Todo(p, i)
  <2> DEFINE new == ApplyTodo(active[i])
  <2>1. i \in DOMAIN active /\ CommitStatusChange(p, i, new)
    BY <1>5 DEF Todo
  <2>2. /\ new \in Item /\ new.dependencies = active[i].dependencies
        /\ new.parent = active[i].parent
    BY <1>2, <1>3, <2>1, TransitionType
  <2> HIDE DEF new
  <2> QED
    BY <2>1, <2>2, CommitStatusChangeKeepsInv
<1>6. CASE Block(p, i)
  <2> DEFINE new == ApplyBlock(active[i])
  <2>1. i \in DOMAIN active /\ CommitStatusChange(p, i, new)
    BY <1>6 DEF Block
  <2>2. /\ new \in Item /\ new.dependencies = active[i].dependencies
        /\ new.parent = active[i].parent
    BY <1>2, <1>3, <2>1, TransitionType
  <2> HIDE DEF new
  <2> QED
    BY <2>1, <2>2, CommitStatusChangeKeepsInv
<1>7. CASE Unblock(p, i)
  <2> DEFINE new == ApplyUnblock(active[i])
  <2>1. i \in DOMAIN active /\ CommitStatusChange(p, i, new)
    BY <1>7 DEF Unblock
  <2>2. /\ new \in Item /\ new.dependencies = active[i].dependencies
        /\ new.parent = active[i].parent
    BY <1>2, <1>3, <2>1, TransitionType
  <2> HIDE DEF new
  <2> QED
    BY <2>1, <2>2, CommitStatusChangeKeepsInv
<1>8. CASE Done(p, i)
  <2> DEFINE new == ApplyDone(active[i])
  <2>1. i \in DOMAIN active /\ CommitDone(p, i, new)
    BY <1>8 DEF Done
  <2>2. new \in Item
    BY <1>2, <1>3, <2>1, TransitionType
  <2> HIDE DEF new
  <2> QED
    BY <2>1, <2>2, CommitDoneKeepsInv
<1> QED
  BY <1>1, <1>4, <1>5, <1>6, <1>7, <1>8, AddKeepsInv, EditKeepsInv, RmKeepsInv, ClaimKeepsInv

-----------------------------------------------------------------------------
(***************************************************************************)
(* The writes.                                                             *)
(***************************************************************************)
(* Only the lock holder has a commit under way. *)
LEMMA OthersIdle ==
  ASSUME StoreInv, NEW p \in Procs, lock = p
  PROVE  \A q \in Procs \ {p} : job[q].stage = "idle"
  BY DEF StoreInv, LockProtects, InProgress

(* The stages of a commit, kind by kind. *)
LEMMA Stages ==
  ASSUME NEW p \in Procs, StoreInv, Advance(p)
  PROVE  /\ job[p].stage = "event" /\ job[p].kind = "status" =>
              lock' = lock /\ job' = [job EXCEPT ![p].stage = "tasks"]
         /\ job[p].stage = "event" /\ job[p].kind = "done" =>
              lock' = lock /\ job' = [job EXCEPT ![p].stage = "archive"]
         /\ job[p].stage = "archive" =>
              lock' = lock /\ job' = [job EXCEPT ![p].stage = "tasks"]
         /\ job[p].stage = "tasks" /\ job[p].kind = "done" =>
              lock' = lock /\ job' = [job EXCEPT ![p].stage = "copy"]
         /\ job[p].stage = "tasks" /\ job[p].kind # "done" => Release(p)
         /\ job[p].stage = "copy" =>
              lock' = lock /\ job' = [job EXCEPT ![p].stage = "clear"]
         /\ job[p].stage = "clear" => Release(p)
  BY DEF Advance, NextStage

(* A step that gives the lock back and leaves tasks.jsonl and              *)
(* archive.jsonl as they were.                                             *)
LEMMA ReleaseKeepsInv ==
  ASSUME StoreInv, NEW p \in Procs, lock = p, Release(p),
         UNCHANGED <<active, archive, issued>>,
         events' \in [Ids -> Status \cup {None}],
         events_archive' \in [Ids -> Status \cup {None}],
         crashes' \in 0..MaxCrashes
  PROVE  StoreInv'
<1>1. \A q \in Procs : job'[q].stage = "idle" /\ (q # p => job'[q] = job[q])
  BY OthersIdle DEF Release, NoJob, StoreInv, TypeOK
<1>2. job'[p] = NoJob /\ DOMAIN job' = Procs /\ lock' = None
  BY DEF Release, StoreInv, TypeOK
<1>3. IsJob(NoJob) /\ WellFormed(NoJob)
  BY EmptyFileType DEF IsJob, NoJob, Kind, Stage, WellFormed
<1>4. TypeOK'
  <2>1. \A q \in Procs : IsJob(job'[q])
    BY <1>1, <1>2, <1>3 DEF StoreInv, TypeOK
  <2> QED
    BY <1>1, <1>2, <2>1 DEF StoreInv, TypeOK, IsJob
<1>5. LockProtects'
  BY <1>1 DEF LockProtects, InProgress
<1>6. FilesOK'
  BY DEF StoreInv, FilesOK, DependenciesResolve, Known, NoDependencyCycle, NoParentCycle,
         MentionsIssued, Split
<1>7. JobsOK'
  BY <1>1, <1>2, <1>3 DEF StoreInv, JobsOK, WellFormed, Pending
<1> QED
  BY <1>4, <1>5, <1>6, <1>7 DEF StoreInv

(* The event log is no part of what the item files must satisfy. *)
LEMMA AppendEventKeepsInv ==
  ASSUME StoreInv, NEW p \in Procs, AppendEvent(p)
  PROVE  StoreInv'
<1>1. /\ lock = p /\ job[p].stage = "event"
      /\ UNCHANGED <<active, archive, events_archive, issued, crashes>>
      /\ events' = [events EXCEPT ![job[p].id] = job[p].item.status]
      /\ Advance(p)
  BY DEF AppendEvent, At
<1>2. job[p].kind \in {"status", "done"} /\ job[p].id \in Ids /\ job[p].item \in Item
  BY <1>1 DEF StoreInv, TypeOK, IsJob, Kind, JobsOK, WellFormed
<1>3. PICK s \in {"archive", "tasks"} :
        /\ lock' = lock /\ job' = [job EXCEPT ![p].stage = s]
        /\ s = "archive" <=> job[p].kind = "done"
  BY <1>1, <1>2, Stages
<1>4. /\ DOMAIN job' = Procs
      /\ job'[p] = [job[p] EXCEPT !.stage = s]
      /\ \A q \in Procs \ {p} : job'[q] = job[q] /\ job[q].stage = "idle"
  BY <1>1, <1>3, OthersIdle DEF StoreInv, TypeOK
<1>5. job[p].item.status \in Status
  BY <1>2 DEF Item
<1>6. IsJob(job'[p]) /\ job'[p].stage = s /\ job'[p].kind = job[p].kind
      /\ job'[p].id = job[p].id /\ job'[p].item = job[p].item /\ job'[p].tasks = job[p].tasks
  BY <1>3, <1>4 DEF StoreInv, TypeOK, IsJob, Stage
<1>7. TypeOK'
  BY <1>1, <1>2, <1>3, <1>4, <1>5, <1>6 DEF StoreInv, TypeOK
<1>8. LockProtects'
  BY <1>1, <1>3, <1>4 DEF LockProtects, InProgress
<1>9. FilesOK'
  BY <1>1 DEF StoreInv, FilesOK, DependenciesResolve, Known, NoDependencyCycle, NoParentCycle,
              MentionsIssued, Split
<1>10. JobsOK'
  <2>1. Sound(job[p])
    BY <1>1 DEF StoreInv, JobsOK, Pending
  <2>2. Sound(job[p])'
    BY <1>1, <1>3, <1>6, <2>1 DEF Sound, MentionsIssued, BeforeArchiving
  <2>3. WellFormed(job'[p])
    BY <1>2, <1>3, <1>6 DEF WellFormed
  <2> QED
    BY <1>4, <2>2, <2>3 DEF StoreInv, JobsOK, WellFormed, Pending
<1> QED
  BY <1>7, <1>8, <1>9, <1>10 DEF StoreInv

(* The only write that puts an item into both files: since the commit took *)
(* the item out of its tasks and found the others in no archive, it is the *)
(* only one there.                                                         *)
LEMMA AppendToArchiveKeepsInv ==
  ASSUME StoreInv, NEW p \in Procs, AppendToArchive(p)
  PROVE  StoreInv'
<1> DEFINE i == job[p].id
<1>1. /\ lock = p /\ job[p].stage = "archive"
      /\ UNCHANGED <<active, events, events_archive, issued, crashes>>
      /\ i \notin DOMAIN archive
      /\ archive' = PutItem(archive, i, job[p].item)
      /\ Advance(p)
  BY DEF AppendToArchive, At
<1>2. /\ lock' = lock
      /\ DOMAIN job' = Procs
      /\ job'[p] = [job[p] EXCEPT !.stage = "tasks"]
      /\ \A q \in Procs \ {p} : job'[q] = job[q] /\ job[q].stage = "idle"
  BY <1>1, Stages, OthersIdle DEF StoreInv, TypeOK
<1>3. job[p].kind = "done" /\ i \in Ids /\ job[p].item \in Item /\ Sound(job[p])
  BY <1>1 DEF StoreInv, TypeOK, IsJob, Kind, JobsOK, WellFormed, Pending
<1>4. IsJob(job'[p]) /\ job'[p].stage = "tasks" /\ job'[p].kind = job[p].kind
      /\ job'[p].id = i /\ job'[p].item = job[p].item /\ job'[p].tasks = job[p].tasks
  BY <1>2 DEF StoreInv, TypeOK, IsJob, Stage
<1>5. IsItemFile(archive') /\ DOMAIN archive' = DOMAIN archive \cup {i}
  <2>1. IsItemFile(archive)
    BY DEF StoreInv, TypeOK
  <2>2. IsItemFile(archive')
    BY <1>1, <1>3, <2>1, PutItemType
  <2>3. DOMAIN archive' = DOMAIN archive \cup {i}
    BY <1>1 DEF PutItem
  <2> QED
    BY <2>2, <2>3
<1> HIDE DEF i
<1>6. TypeOK'
  BY <1>1, <1>2, <1>4, <1>5 DEF StoreInv, TypeOK
<1>7. LockProtects'
  BY <1>1, <1>2 DEF LockProtects, InProgress
<1>8. FilesOK'
  <2>1. DOMAIN active \cap DOMAIN archive' \subseteq {i}
    BY <1>1, <1>3, <1>5 DEF Sound, BeforeArchiving, i
  <2>2. i \in issued
    BY <1>3 DEF Sound, i
  <2>3. DependenciesResolve'
    BY <1>1, <1>5 DEF StoreInv, FilesOK, DependenciesResolve, Known
  <2> QED
    BY <1>1, <1>5, <2>1, <2>2, <2>3
       DEF StoreInv, FilesOK, NoDependencyCycle, NoParentCycle, MentionsIssued, Split
<1>9. JobsOK'
  <2>1. Sound(job[p])'
    BY <1>1, <1>3, <1>4, <1>5 DEF Sound, MentionsIssued, BeforeArchiving, i
  <2>2. WellFormed(job'[p])
    BY <1>3, <1>4 DEF WellFormed
  <2> QED
    BY <1>2, <2>1, <2>2 DEF StoreInv, JobsOK, WellFormed, Pending
<1> QED
  BY <1>6, <1>7, <1>8, <1>9 DEF StoreInv

(* The rename puts in place what the commit was prepared with. *)
LEMMA WriteTasksKeepsInv ==
  ASSUME StoreInv, NEW p \in Procs, WriteTasks(p)
  PROVE  StoreInv'
<1>1. /\ lock = p /\ job[p].stage = "tasks"
      /\ UNCHANGED <<archive, events, events_archive, issued, crashes>>
      /\ active' = job[p].tasks
      /\ Advance(p)
  BY DEF WriteTasks, At
<1>2. Sound(job[p]) /\ IsItemFile(active')
  BY <1>1 DEF StoreInv, TypeOK, IsJob, JobsOK, Pending
<1>3. FilesOK'
  BY <1>1, <1>2 DEF StoreInv, FilesOK, Sound, BeforeArchiving, DependenciesResolve, Known,
                    NoDependencyCycle, NoParentCycle, MentionsIssued, Split
<1>4. CASE job[p].kind = "done"
  <2>1. /\ lock' = lock
        /\ DOMAIN job' = Procs
        /\ job'[p] = [job[p] EXCEPT !.stage = "copy"]
        /\ \A q \in Procs \ {p} : job'[q] = job[q] /\ job[q].stage = "idle"
    BY <1>1, <1>4, Stages, OthersIdle DEF StoreInv, TypeOK
  <2>2. IsJob(job'[p]) /\ job'[p].stage = "copy" /\ job'[p].kind = job[p].kind
        /\ job'[p].id = job[p].id /\ job'[p].item = job[p].item
    BY <2>1 DEF StoreInv, TypeOK, IsJob, Stage
  <2>3. WellFormed(job[p])
    BY DEF StoreInv, JobsOK
  <2>4. TypeOK'
    BY <1>1, <1>2, <1>4, <2>1, <2>2, <2>3 DEF StoreInv, TypeOK, WellFormed
  <2>5. LockProtects'
    BY <1>1, <2>1 DEF LockProtects, InProgress
  <2>6. JobsOK'
    <3>1. WellFormed(job'[p]) /\ ~Pending(job'[p])
      BY <1>4, <2>2, <2>3 DEF WellFormed, Pending
    <3>2. \A q \in Procs \ {p} : WellFormed(job'[q]) /\ ~Pending(job'[q])
      BY <2>1 DEF StoreInv, JobsOK, Pending
    <3> QED
      BY <3>1, <3>2 DEF JobsOK, WellFormed, Pending
  <2> QED
    BY <1>3, <2>4, <2>5, <2>6 DEF StoreInv
<1>5. CASE job[p].kind # "done"
  <2>1. Release(p)
    BY <1>1, <1>5, Stages
  <2>2. \A q \in Procs : job'[q].stage = "idle" /\ (q # p => job'[q] = job[q])
    BY <1>1, <2>1, OthersIdle DEF Release, NoJob, StoreInv, TypeOK
  <2>3. job'[p] = NoJob /\ DOMAIN job' = Procs /\ lock' = None
    BY <2>1 DEF Release, StoreInv, TypeOK
  <2>4. IsJob(NoJob) /\ WellFormed(NoJob)
    BY EmptyFileType DEF IsJob, NoJob, Kind, Stage, WellFormed
  <2>5. TypeOK'
    BY <1>1, <1>2, <2>2, <2>3, <2>4 DEF StoreInv, TypeOK
  <2>6. LockProtects' /\ JobsOK'
    BY <2>2, <2>3, <2>4 DEF StoreInv, JobsOK, WellFormed, Pending, LockProtects, InProgress
  <2> QED
    BY <1>3, <2>5, <2>6 DEF StoreInv
<1> QED
  BY <1>4, <1>5

(* The events move behind tasks.jsonl and archive.jsonl. *)
LEMMA CopyEventsKeepsInv ==
  ASSUME StoreInv, NEW p \in Procs, CopyEvents(p)
  PROVE  StoreInv'
<1>1. /\ lock = p /\ job[p].stage = "copy"
      /\ UNCHANGED <<active, archive, events, issued, crashes>>
  BY DEF CopyEvents, At
<1>2. /\ job[p].id \in Ids
      /\ events \in [Ids -> Status \cup {None}]
      /\ events_archive \in [Ids -> Status \cup {None}]
      /\ crashes' \in 0..MaxCrashes
  BY <1>1 DEF StoreInv, TypeOK
<1>3. CASE events[job[p].id] = None
  <2>1. events_archive' = events_archive /\ Release(p)
    BY <1>3 DEF CopyEvents
  <2> QED
    BY <1>1, <1>2, <2>1, ReleaseKeepsInv
<1>4. CASE events[job[p].id] # None
  <2>1. /\ events_archive' = [events_archive EXCEPT ![job[p].id] = events[job[p].id]]
        /\ Advance(p)
    BY <1>4 DEF CopyEvents
  <2>2. /\ lock' = lock
        /\ DOMAIN job' = Procs
        /\ job'[p] = [job[p] EXCEPT !.stage = "clear"]
        /\ \A q \in Procs \ {p} : job'[q] = job[q] /\ job[q].stage = "idle"
    BY <1>1, <2>1, Stages, OthersIdle DEF StoreInv, TypeOK
  <2>3. IsJob(job'[p]) /\ job'[p].stage = "clear" /\ job'[p].kind = job[p].kind
        /\ job'[p].id = job[p].id /\ job'[p].item = job[p].item
    BY <2>2 DEF StoreInv, TypeOK, IsJob, Stage
  <2>4. WellFormed(job[p]) /\ job[p].kind = "done"
    BY <1>1 DEF StoreInv, JobsOK, WellFormed, TypeOK, IsJob, Kind
  <2>5. TypeOK'
    BY <1>1, <1>2, <2>1, <2>2, <2>3, <2>4 DEF StoreInv, TypeOK, WellFormed
  <2>6. LockProtects'
    BY <1>1, <2>2 DEF LockProtects, InProgress
  <2>7. FilesOK'
    BY <1>1 DEF StoreInv, FilesOK, DependenciesResolve, Known, NoDependencyCycle,
                NoParentCycle, MentionsIssued, Split
  <2>8. JobsOK'
    <3>1. WellFormed(job'[p]) /\ ~Pending(job'[p])
      BY <2>3, <2>4 DEF WellFormed, Pending
    <3>2. \A q \in Procs \ {p} : WellFormed(job'[q]) /\ ~Pending(job'[q])
      BY <2>2 DEF StoreInv, JobsOK, Pending
    <3> QED
      BY <3>1, <3>2 DEF JobsOK, WellFormed, Pending
  <2> QED
    BY <2>5, <2>6, <2>7, <2>8 DEF StoreInv
<1> QED
  BY <1>3, <1>4

(* The last write of a done returns the lock. *)
LEMMA ClearEventsKeepsInv ==
  ASSUME StoreInv, NEW p \in Procs, ClearEvents(p)
  PROVE  StoreInv'
<1>1. /\ lock = p /\ job[p].stage = "clear" /\ Advance(p)
      /\ UNCHANGED <<active, archive, events_archive, issued, crashes>>
      /\ events' = [events EXCEPT ![job[p].id] = None]
  BY DEF ClearEvents, At
<1>2. /\ events' \in [Ids -> Status \cup {None}]
      /\ events_archive' \in [Ids -> Status \cup {None}]
      /\ crashes' \in 0..MaxCrashes
  BY <1>1 DEF StoreInv, TypeOK
<1>3. Release(p)
  BY <1>1, Stages
<1> QED
  BY <1>1, <1>2, <1>3, ReleaseKeepsInv

(* A crash leaves the files as the last write left them: every one of    *)
(* those states satisfies FilesOK.                                         *)
LEMMA CrashKeepsInv ==
  ASSUME StoreInv, NEW p \in Procs, Crash(p)
  PROVE  StoreInv'
<1>1. /\ lock = p /\ Release(p) /\ UNCHANGED <<active, archive, issued>>
      /\ events' = events /\ events_archive' = events_archive
  BY DEF Crash, files
<1>2. crashes' \in 0..MaxCrashes
  BY CrashBound DEF Crash, StoreInv, TypeOK
<1> QED
  BY <1>1, <1>2, ReleaseKeepsInv DEF StoreInv, TypeOK

-----------------------------------------------------------------------------
(***************************************************************************)
(* The theorems.                                                           *)
(***************************************************************************)
(* An initialised project satisfies the invariant. *)
LEMMA InitInv == Init => StoreInv
<1> SUFFICES ASSUME Init PROVE StoreInv
  OBVIOUS
<1> USE DEF Init
<1>1. IsJob(NoJob) /\ WellFormed(NoJob) /\ ~Pending(NoJob)
  BY EmptyFileType DEF IsJob, NoJob, Kind, Stage, WellFormed, Pending
<1>2. TypeOK
  BY <1>1, EmptyFileType, CrashBound DEF TypeOK, NoJob
<1>3. LockProtects
  BY DEF LockProtects, InProgress, NoJob
<1>4. FilesOK
  <2>1. DOMAIN EmptyFile = {}
    BY DEF EmptyFile
  <2>2. NoDependencyCycle /\ NoParentCycle
    BY <2>1 DEF NoDependencyCycle, NoParentCycle, Acyclic, DependencyEdges, ParentEdges
  <2> QED
    BY <2>1, <2>2 DEF FilesOK, DependenciesResolve, Known, MentionsIssued, Split
<1>5. JobsOK
  BY <1>1 DEF JobsOK
<1> QED
  BY <1>2, <1>3, <1>4, <1>5 DEF StoreInv

(* Every step keeps it. *)
LEMMA NextInv == StoreInv /\ [Next]_vars => StoreInv'
<1> SUFFICES ASSUME StoreInv, [Next]_vars PROVE StoreInv'
  OBVIOUS
<1>1. ASSUME NEW p \in Procs, Command(p) PROVE StoreInv'
  BY <1>1, CommandKeepsInv
<1>2. ASSUME NEW p \in Procs, Write(p) PROVE StoreInv'
  BY <1>2, AppendEventKeepsInv, AppendToArchiveKeepsInv, WriteTasksKeepsInv,
     CopyEventsKeepsInv, ClearEventsKeepsInv DEF Write
<1>3. ASSUME NEW p \in Procs, Crash(p) PROVE StoreInv'
  BY <1>3, CrashKeepsInv
<1>4. CASE UNCHANGED vars
  <2>1. TypeOK' /\ LockProtects'
    BY <1>4 DEF vars, StoreInv, TypeOK, LockProtects, InProgress
  <2>2. FilesOK'
    BY <1>4 DEF vars, StoreInv, FilesOK, DependenciesResolve, Known, NoDependencyCycle,
                NoParentCycle, MentionsIssued, Split
  <2>3. JobsOK'
    BY <1>4 DEF vars, StoreInv, JobsOK, Sound, MentionsIssued
  <2> QED
    BY <2>1, <2>2, <2>3 DEF StoreInv
<1> QED
  BY <1>1, <1>2, <1>3, <1>4 DEF Next

(* Every behavior of the store keeps the inductive invariant. *)
THEOREM StoreInvariant == Spec => []StoreInv
  BY InitInv, NextInv, PTL DEF Spec

(* Files, locks and commits hold values of their types (TypeOK). *)
THEOREM TypeCorrect == Spec => []TypeOK
<1>1. StoreInv => TypeOK
  BY DEF StoreInv
<1> QED
  BY <1>1, StoreInvariant, PTL

(* The lock keeps commits apart: at most one is under way. *)
THEOREM MutualExclusion == Spec => []LockProtects
<1>1. StoreInv => LockProtects
  BY DEF StoreInv
<1> QED
  BY <1>1, StoreInvariant, PTL

(* No interleaving and no crash leaves an active item with a dependency    *)
(* that is in neither item file.                                           *)
THEOREM NoDanglingDependency == Spec => []DependenciesResolve
<1>1. StoreInv => DependenciesResolve
  BY DEF StoreInv, FilesOK
<1> QED
  BY <1>1, StoreInvariant, PTL

(* However many items there are, no sequence of commands closes a cycle of *)
(* dependencies.                                                           *)
THEOREM DependenciesAcyclic == Spec => []NoDependencyCycle
<1>1. StoreInv => NoDependencyCycle
  BY DEF StoreInv, FilesOK
<1> QED
  BY <1>1, StoreInvariant, PTL

(* Nor a cycle of parents. *)
THEOREM ParentsAcyclic == Spec => []NoParentCycle
<1>1. StoreInv => NoParentCycle
  BY DEF StoreInv, FilesOK
<1> QED
  BY <1>1, StoreInvariant, PTL

(* However many commits crash, at most one item is in both item files. *)
THEOREM SplitBound == Spec => []AtMostOneSplit
<1>1. StoreInv => AtMostOneSplit
  <2> SUFFICES ASSUME StoreInv PROVE Cardinality(Split) <= 1
    BY DEF AtMostOneSplit
  <2>1. CASE Split = {}
    BY <2>1, FS_EmptySet
  <2>2. CASE Split # {}
    <3>1. PICK i \in Split : Split = {i}
      BY <2>2 DEF StoreInv, FilesOK
    <3>2. Cardinality({i}) = 1
      BY FS_Singleton
    <3> QED
      BY <3>1, <3>2
  <2> QED
    BY <2>1, <2>2
<1> QED
  BY <1>1, StoreInvariant, PTL

=============================================================================
