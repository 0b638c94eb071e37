-------------------------- MODULE TaskCommitProofs --------------------------
(***************************************************************************)
(* What becomes of a single task: TaskStore keeps CommitInv, with `tg      *)
(* apply` among the commands, for every number of items, agents, processes *)
(* and crashes.  The safety invariants about statuses, claims and events   *)
(* follow, and so do the properties of single steps, most of them from one *)
(* lemma that says what a write of tasks.jsonl may change; and so does the *)
(* refinement of TaskBoard.                                                *)
(***************************************************************************)
EXTENDS TaskRequests, TaskStoreRefinement, TaskStoreProofs

-----------------------------------------------------------------------------
(***************************************************************************)
(* `tg apply` among the commands: the store keeps StoreInv, and so the     *)
(* safety invariants that StoreInv contains.                               *)
(***************************************************************************)
(* The batch that tg apply writes is an item file, the old items           *)
(* unchanged.                                                              *)
LEMMA ProposedType ==
  ASSUME IsItemFile(active), NEW request \in Requests
  PROVE  /\ IsItemFile(ProposedActive(request))
         /\ \A i \in DOMAIN request :
               ProposedActive(request)[i] =
                 NewItem(request[i].dependencies, request[i].parent)
<1>1. PICK S \in SUBSET FreshIds : request \in [S -> RequestItem]
  BY DEF Requests
<1>2. \A i \in DOMAIN request :
         request[i].dependencies \in SUBSET Ids /\ request[i].parent \in Ids \cup {None}
  BY <1>1 DEF RequestItem
<1>3. \A i \in DOMAIN request : NewItem(request[i].dependencies, request[i].parent) \in Item
  BY <1>2, NewItemType
<1>4. DOMAIN request \subseteq Ids
  BY <1>1 DEF FreshIds
<1> QED
  BY <1>3, <1>4 DEF IsItemFile, ProposedActive

(* tg apply does not call save_active (graph_apply.rs:63), but its own     *)
(* validations imply those of save_active.                                 *)
LEMMA ApplyGraphIsSafeSave ==
  ASSUME NEW p \in Procs, NEW request \in Requests, ApplyGraph(p, request)
  PROVE  SaveActive(p, ProposedActive(request))
<1> DEFINE new == ProposedActive(request)
<1>1. /\ DOMAIN request \subseteq FreshIds
      /\ Split = {}
      /\ \A i \in DOMAIN active : active[i].dependencies \subseteq Known
      /\ \A i \in DOMAIN request :
            request[i].dependencies \subseteq DOMAIN request \cup DOMAIN active \cup DOMAIN archive
  BY DEF ApplyGraph, StrictSnapshot, UniqueIdentities, EdgesLead, ResolveItems,
         DependencyTargets, Split, Known
<1>2. /\ DOMAIN new = DOMAIN active \cup DOMAIN request
      /\ \A i \in DOMAIN request : new[i].dependencies = request[i].dependencies
      /\ \A i \in DOMAIN active \ DOMAIN request : new[i] = active[i]
  BY DEF ProposedActive, NewItem
<1> HIDE DEF new
<1>3. DOMAIN new \cap DOMAIN archive = {}
  BY <1>1, <1>2 DEF Split, FreshIds, Known
<1>4. DependencyReferencesResolve(new, DOMAIN archive)
  BY <1>1, <1>2 DEF DependencyReferencesResolve, Known
<1>5. ValidateActiveWrite(new)
  BY <1>2, <1>3, <1>4 DEF ValidateActiveWrite
<1> QED
  BY <1>5 DEF ApplyGraph, SaveActive, new

(* A step of tg apply keeps the inductive invariant. *)
LEMMA ApplyGraphKeepsInv ==
  ASSUME StoreInv, NEW p \in Procs, NEW request \in Requests, ApplyGraph(p, request)
  PROVE  StoreInv'
<1> DEFINE new == ProposedActive(request)
<1>1. SaveActive(p, new)
  BY ApplyGraphIsSafeSave
<1>2. /\ IsItemFile(new)
      /\ \A i \in DOMAIN request : new[i] = NewItem(request[i].dependencies, request[i].parent)
  BY ProposedType DEF StoreInv, TypeOK
<1>3. Acyclic(DependencyEdges(new)) /\ Acyclic(ParentEdges(new))
  BY DEF ApplyGraph, ValidProposedGraph, ParentCycleFree, DependencyCycleFree
<1>4. /\ DOMAIN request \subseteq Ids
      /\ issued' = issued \cup DOMAIN request
      /\ \A i \in DOMAIN request : request[i].parent \in DOMAIN request \cup DOMAIN active \cup {None}
      /\ MentionsIssued(active) /\ issued \subseteq Ids
  BY DEF ApplyGraph, ResolveItems, ParentTargets, FreshIds, StoreInv, FilesOK, TypeOK
<1>5. /\ DOMAIN new = DOMAIN active \cup DOMAIN request
      /\ \A i \in DOMAIN active \ DOMAIN request : new[i] = active[i]
  BY DEF ProposedActive
<1> HIDE DEF new
<1>6. \A i \in DOMAIN request : new[i].parent = request[i].parent
  <2> SUFFICES ASSUME NEW i \in DOMAIN request PROVE new[i].parent = request[i].parent
    OBVIOUS
  <2>1. new[i] = NewItem(request[i].dependencies, request[i].parent)
    BY <1>2
  <2>2. NewItem(request[i].dependencies, request[i].parent).parent = request[i].parent
    BY DEF NewItem
  <2> QED
    BY <2>1, <2>2
<1>7. \A i \in DOMAIN new : i \in issued' /\ new[i].parent \in issued' \cup {None}
  BY <1>4, <1>5, <1>6 DEF MentionsIssued
<1> QED
  BY <1>1, <1>2, <1>3, <1>4, <1>7, SaveActiveKeepsInv

(* The inductive invariant of the store holds with tg apply among the      *)
(* commands, for any sets of tasks and processes and any requests.         *)
THEOREM GraphApplyInvariant == GraphApplySpec => []StoreInv
<1>1. StoreInv /\ [Next \/ ApplyNext]_vars => StoreInv'
  BY NextInv, ApplyGraphKeepsInv DEF ApplyNext
<1> QED
  BY <1>1, InitInv, PTL DEF GraphApplySpec

(* With tg apply too, no dependency of an active item is left to nothing   *)
(* and neither relation ever has a cycle.                                  *)
THEOREM GraphApplyKeepsGraph ==
  GraphApplySpec => [](DependenciesResolve /\ NoDependencyCycle /\ NoParentCycle)
<1>1. StoreInv => DependenciesResolve /\ NoDependencyCycle /\ NoParentCycle
  BY DEF StoreInv, FilesOK
<1> QED
  BY <1>1, GraphApplyInvariant, PTL

-----------------------------------------------------------------------------
(***************************************************************************)
(* CommitInv, step by step.                                                *)
(***************************************************************************)
(* The store with the commands of TaskStore only is a special case. *)
LEMMA StoreIsApplyFree == Spec => GraphApplySpec
<1>1. [Next]_vars => [Next \/ ApplyNext]_vars
  OBVIOUS
<1> QED
  BY <1>1, PTL DEF Spec, GraphApplySpec

-----------------------------------------------------------------------------
(***************************************************************************)
(* Drift.                                                                  *)
(***************************************************************************)
(* A step without a crash need only show that no task begins to drift. *)
LEMMA NoNewDrift ==
  ASSUME CommitInv, Drifted' \subseteq Drifted, crashes' = crashes
  PROVE  IsFiniteSet(Drifted') /\ DriftNeedsCrash'
<1>1. IsFiniteSet(Drifted) /\ Cardinality(Drifted) <= crashes /\ crashes \in Nat
  BY CrashBound DEF CommitInv, RecordsOK, DriftNeedsCrash, StoreInv, TypeOK
<1>2. IsFiniteSet(Drifted') /\ Cardinality(Drifted') <= Cardinality(Drifted)
  BY <1>1, FS_Subset
<1>3. Cardinality(Drifted') \in Nat /\ Cardinality(Drifted) \in Nat
  BY <1>1, <1>2, FS_CardinalityType
<1> QED
  BY <1>1, <1>2, <1>3 DEF DriftNeedsCrash

(* A crash adds at most the task of the commit it cuts short. *)
LEMMA OneMoreDrift ==
  ASSUME CommitInv, NEW i, Drifted' \subseteq Drifted \cup {i}, crashes' = crashes + 1
  PROVE  IsFiniteSet(Drifted') /\ DriftNeedsCrash'
<1>1. IsFiniteSet(Drifted) /\ Cardinality(Drifted) <= crashes /\ crashes \in Nat
  BY CrashBound DEF CommitInv, RecordsOK, DriftNeedsCrash, StoreInv, TypeOK
<1>2. /\ IsFiniteSet(Drifted \cup {i})
      /\ Cardinality(Drifted \cup {i}) <= Cardinality(Drifted) + 1
  <2>1. Cardinality(Drifted) \in Nat
    BY <1>1, FS_CardinalityType
  <2> QED
    BY <1>1, <2>1, FS_AddElement
<1>3. IsFiniteSet(Drifted') /\ Cardinality(Drifted') <= Cardinality(Drifted \cup {i})
  BY <1>2, FS_Subset
<1>4. /\ Cardinality(Drifted') \in Nat
      /\ Cardinality(Drifted) \in Nat
      /\ Cardinality(Drifted \cup {i}) \in Nat
  BY <1>1, <1>2, <1>3, FS_CardinalityType
<1> QED
  BY <1>1, <1>2, <1>3, <1>4 DEF DriftNeedsCrash

-----------------------------------------------------------------------------
(***************************************************************************)
(* Taking on a commit.                                                     *)
(***************************************************************************)
(* A command that has prepared the change of its kind keeps the invariant. *)
LEMMA BeginKeepsCommit ==
  ASSUME CommitInv, StoreInv', NEW p \in Procs, NEW c, Begin(p, c),
         issued \subseteq issued', Effect(job[p])'
  PROVE  CommitInv'
<1>1. /\ lock = None
      /\ \A q \in Procs \ {p} : job'[q] = job[q]
      /\ active' = active /\ archive' = archive
      /\ events' = events /\ events_archive' = events_archive
      /\ crashes' = crashes
  BY DEF Begin, files, CommitInv, StoreInv, TypeOK
<1>2. \A q \in Procs : job[q].stage = "idle"
  BY <1>1, NoneIsNoProc DEF CommitInv, StoreInv, LockProtects, InProgress
<1>3. Drifted' \subseteq Drifted
  BY <1>1, <1>2 DEF Drifted, NewestEvent, InProgress
<1>4. IsFiniteSet(Drifted') /\ DriftNeedsCrash'
  BY <1>1, <1>3, NoNewDrift
<1>5. RecordsOK'
  BY <1>1, <1>4 DEF CommitInv, RecordsOK, ArchivedIsDone, ClaimDiscipline, ParentsKnown,
                    Known, NewestEvent
<1>6. ASSUME NEW q \in Procs, InProgress(q)' PROVE Effect(job[q])'
  BY <1>1, <1>2, <1>6 DEF InProgress
<1> QED
  BY <1>5, <1>6 DEF CommitInv

(* save_active with a change that a save may make. *)
LEMMA SaveKeepsCommit ==
  ASSUME CommitInv, StoreInv', NEW p \in Procs, NEW new, SaveActive(p, new),
         issued \subseteq issued',
         AddsItems(new) \/ RevisesItem(new) \/ ClaimsItem(new) \/ RemovesItem(new)
  PROVE  CommitInv'
<1> DEFINE c == [NoJob EXCEPT !.stage = "tasks", !.tasks = new]
<1>1. Begin(p, c)
  BY DEF SaveActive
<1>2. job'[p] = [kind |-> "save", stage |-> "tasks", id |-> None, item |-> None, tasks |-> new]
  BY <1>1 DEF Begin, NoJob, CommitInv, StoreInv, TypeOK
<1>3. active' = active /\ archive' = archive /\ events' = events
      /\ events_archive' = events_archive
  BY <1>1 DEF Begin, files
<1>4. (AddsItems(job[p].tasks) \/ RevisesItem(job[p].tasks) \/ ClaimsItem(job[p].tasks)
         \/ RemovesItem(job[p].tasks))'
  <2> HIDE DEF c
  <2>1. job'[p].tasks = new
    BY <1>2
  <2>2. AddsItems(new) => AddsItems(job[p].tasks)'
    BY <1>3, <2>1 DEF AddsItems, NewestEvent
  <2>3. RevisesItem(new) => RevisesItem(job[p].tasks)'
    BY <1>3, <2>1 DEF RevisesItem
  <2>4. ClaimsItem(new) => ClaimsItem(job[p].tasks)'
    BY <1>3, <2>1 DEF ClaimsItem
  <2>5. RemovesItem(new) => RemovesItem(job[p].tasks)'
    BY <1>3, <2>1 DEF RemovesItem
  <2> QED
    BY <2>2, <2>3, <2>4, <2>5
<1>5. Effect(job[p])'
  BY <1>2, <1>4 DEF Effect, SaveEffect
<1> QED
  BY <1>1, <1>5, BeginKeepsCommit

(* commit_status_change with a transition of the task. *)
LEMMA StatusChangeKeepsCommit ==
  ASSUME CommitInv, StoreInv', NEW p \in Procs, NEW i \in DOMAIN active, NEW item,
         Moves(active[i], item), CommitStatusChange(p, i, item)
  PROVE  CommitInv'
<1> DEFINE c == [ kind |-> "status", stage |-> "event", id |-> i, item |-> item,
                  tasks |-> PutItem(active, i, item) ]
<1>1. Begin(p, c) /\ issued' = issued
  BY DEF CommitStatusChange
<1>2. job'[p] = c /\ active' = active
  BY <1>1 DEF Begin, files, CommitInv, StoreInv, TypeOK
<1>3. Effect(job[p])'
  BY <1>2 DEF Effect, StatusEffect
<1> QED
  BY <1>1, <1>3, BeginKeepsCommit

(* commit_done of a task that is todo or doing. *)
LEMMA CommitDoneKeepsCommit ==
  ASSUME CommitInv, StoreInv', NEW p \in Procs, NEW i \in DOMAIN active,
         active[i].status \in {"todo", "doing"}, CommitDone(p, i, ApplyDone(active[i]))
  PROVE  CommitInv'
<1> DEFINE c == [ kind |-> "done", stage |-> "event", id |-> i,
                  item |-> ApplyDone(active[i]), tasks |-> RemoveItem(active, i) ]
<1>1. Begin(p, c) /\ issued' = issued
  BY DEF CommitDone
<1>2. job'[p] = c /\ active' = active
  BY <1>1 DEF Begin, files, CommitInv, StoreInv, TypeOK
<1>3. Effect(job[p])'
  BY <1>2 DEF Effect, DoneEffect
<1> QED
  BY <1>1, <1>3, BeginKeepsCommit

(* tg add: the identifier is fresh, so it has no events yet. *)
LEMMA AddAdds ==
  ASSUME CommitInv, NEW p \in Procs, NEW i \in Ids, NEW deps \in SUBSET Ids,
         NEW parent \in Ids \cup {None}, Add(p, i, deps, parent)
  PROVE  \E new : SaveActive(p, new) /\ AddsItems(new)
<1> DEFINE base == PutItem(active, i, NewItem(deps, None))
           new == [base EXCEPT ![i].parent = parent]
<1>1. /\ i \notin Known \cup issued
      /\ parent # None => parent \in DOMAIN active
      /\ SaveActive(p, new)
  BY DEF Add, CanReparent, ValidParent
<1>2. NewestEvent(i) = None /\ i \notin DOMAIN active /\ i \notin DOMAIN archive
  BY <1>1 DEF CommitInv, RecordsOK, Known
<1>3. /\ DOMAIN base = DOMAIN active \cup {i}
      /\ base[i] = NewItem(deps, None)
      /\ \A j \in DOMAIN active : base[j] = active[j]
  BY <1>2 DEF PutItem
<1>4. new = [base EXCEPT ![i] = [base[i] EXCEPT !.parent = parent]]
  OBVIOUS
<1>5. [NewItem(deps, None) EXCEPT !.parent = parent] = NewItem(deps, parent)
  BY DEF NewItem
<1> HIDE DEF base, new
<1>6. /\ DOMAIN new = DOMAIN active \cup {i}
      /\ new[i] = NewItem(deps, parent)
      /\ \A j \in DOMAIN active : new[j] = active[j]
  BY <1>2, <1>3, <1>4, <1>5
<1>7. new[i].dependencies = deps /\ new[i].parent = parent
  BY <1>6 DEF NewItem
<1>8. AddsItems(new)
  BY <1>1, <1>2, <1>6, <1>7 DEF AddsItems
<1> QED
  BY <1>1, <1>8

(* tg apply: so are those of all its items. *)
LEMMA ApplyGraphAdds ==
  ASSUME CommitInv, NEW p \in Procs, NEW request \in Requests, ApplyGraph(p, request)
  PROVE  SaveActive(p, ProposedActive(request)) /\ AddsItems(ProposedActive(request))
<1> DEFINE new == ProposedActive(request)
<1>1. SaveActive(p, new)
  BY ApplyGraphIsSafeSave
<1>2. \A i \in DOMAIN request : new[i] = NewItem(request[i].dependencies, request[i].parent)
  BY ProposedType DEF CommitInv, StoreInv, TypeOK
<1>3. \A i \in DOMAIN request :
         /\ i \in Ids /\ i \notin DOMAIN active /\ i \notin DOMAIN archive /\ i \notin issued
         /\ request[i].parent \in DOMAIN request \cup DOMAIN active \cup {None}
  BY DEF ApplyGraph, FreshIds, Known, ResolveItems, ParentTargets
<1>4. /\ DOMAIN new = DOMAIN active \cup DOMAIN request
      /\ \A i \in DOMAIN active \ DOMAIN request : new[i] = active[i]
  BY DEF ProposedActive
<1> HIDE DEF new
<1>5. ASSUME NEW i \in DOMAIN new \ DOMAIN active
      PROVE  /\ i \notin DOMAIN archive
             /\ NewestEvent(i) = None
             /\ new[i].parent \in DOMAIN new \cup {None}
             /\ new[i] = NewItem(new[i].dependencies, new[i].parent)
  <2>1. i \in DOMAIN request /\ i \notin DOMAIN archive /\ i \in Ids \ issued
    BY <1>3, <1>4, <1>5
  <2>2. NewestEvent(i) = None
    BY <2>1 DEF CommitInv, RecordsOK
  <2>3. new[i] = NewItem(request[i].dependencies, request[i].parent)
    BY <1>2, <2>1
  <2>4. /\ new[i].dependencies = request[i].dependencies
        /\ new[i].parent = request[i].parent
    BY <2>3 DEF NewItem
  <2> QED
    BY <1>3, <1>4, <2>1, <2>2, <2>3, <2>4
<1>6. AddsItems(new)
  BY <1>3, <1>4, <1>5 DEF AddsItems
<1> QED
  BY <1>1, <1>6 DEF new

(* tg edit touches one item's relations and nothing else. *)
LEMMA EditRevises ==
  ASSUME NEW p \in Procs, NEW i \in Ids, NEW deps \in SUBSET Ids,
         NEW parent \in Ids \cup {None}, IsItemFile(active), Edit(p, i, deps, parent)
  PROVE  \E new : SaveActive(p, new) /\ RevisesItem(new)
<1> DEFINE half == [active EXCEPT ![i].dependencies = deps]
           new == [half EXCEPT ![i].parent = parent]
           item == [active[i] EXCEPT !.dependencies = deps, !.parent = parent]
<1>1. /\ i \in DOMAIN active
      /\ parent \notin {None, active[i].parent} => parent \in DOMAIN half
      /\ SaveActive(p, new)
  BY DEF Edit, CanReparent, ValidParent
<1>2. DOMAIN half = DOMAIN active
  OBVIOUS
<1>3. new = PutItem(active, i, item)
  <2>1. /\ DOMAIN new = DOMAIN active
        /\ new[i] = item
        /\ \A j \in DOMAIN active \ {i} : new[j] = active[j]
    BY <1>1
  <2>2. new = [j \in DOMAIN active |-> new[j]]
    OBVIOUS
  <2>3. PutItem(active, i, item) =
          [j \in DOMAIN active |-> IF j = i THEN item ELSE active[j]]
    BY <1>1 DEF PutItem
  <2> HIDE DEF new, item
  <2> QED
    BY <2>1, <2>2, <2>3
<1>4. parent \in DOMAIN active \cup {None, active[i].parent}
  BY <1>1, <1>2
<1> HIDE DEF new, half
<1>5. RevisesItem(new)
  BY <1>1, <1>3, <1>4 DEF RevisesItem
<1> QED
  BY <1>1, <1>5

(* tg do --claim takes an item that is free or already the agent's. *)
LEMMA ClaimClaims ==
  ASSUME NEW p \in Procs, NEW i \in Ids, NEW claim \in Agents, Claim(p, i, claim)
  PROVE  \E new : SaveActive(p, new) /\ ClaimsItem(new)
<1> DEFINE new == [active EXCEPT ![i].claimed_by = claim]
<1>1. /\ i \in DOMAIN active
      /\ active[i].status = "doing"
      /\ active[i].claimed_by \in {None, claim}
      /\ SaveActive(p, new)
  BY DEF Claim
<1>2. new = PutItem(active, i, [active[i] EXCEPT !.claimed_by = claim])
  BY <1>1 DEF PutItem
<1> HIDE DEF new
<1>3. ClaimsItem(new)
  BY <1>1, <1>2 DEF ClaimsItem
<1> QED
  BY <1>1, <1>3

(* Every command, tg apply included, keeps the invariant. *)
LEMMA CommandKeepsCommit ==
  ASSUME CommitInv, NEW p \in Procs,
         Command(p) \/ \E request \in Requests : ApplyGraph(p, request)
  PROVE  CommitInv'
<1>1. StoreInv /\ StoreInv'
  BY CommandKeepsInv, ApplyGraphKeepsInv DEF CommitInv
<1>2. IsItemFile(active)
  BY <1>1 DEF StoreInv, TypeOK
<1>3. ASSUME NEW request \in Requests, ApplyGraph(p, request) PROVE CommitInv'
  <2>1. issued \subseteq issued'
    BY <1>3 DEF ApplyGraph
  <2> QED
    BY <1>1, <1>3, <2>1, ApplyGraphAdds, SaveKeepsCommit
<1>4. ASSUME NEW i \in Ids, NEW deps \in SUBSET Ids, NEW parent \in Ids \cup {None},
             Add(p, i, deps, parent) \/ Edit(p, i, deps, parent)
      PROVE  CommitInv'
  <2>1. issued \subseteq issued'
    BY <1>4 DEF Add, Edit
  <2> QED
    BY <1>1, <1>2, <1>4, <2>1, AddAdds, EditRevises, SaveKeepsCommit
<1>5. ASSUME NEW i \in Ids, NEW claim \in Agents, Claim(p, i, claim) PROVE CommitInv'
  <2>1. issued \subseteq issued'
    BY <1>5 DEF Claim
  <2> QED
    BY <1>1, <1>5, <2>1, ClaimClaims, SaveKeepsCommit
<1>6. ASSUME NEW i \in Ids, Rm(p, i) PROVE CommitInv'
  <2>1. SaveActive(p, RemoveItem(active, i)) /\ issued \subseteq issued'
    BY <1>6 DEF Rm
  <2>2. RemovesItem(RemoveItem(active, i))
    BY <1>6 DEF Rm, RemovesItem
  <2> QED
    BY <1>1, <2>1, <2>2, SaveKeepsCommit
<1>7. ASSUME NEW i \in Ids, NEW claim \in Agents \cup {None}, Do(p, i, claim)
      PROVE  CommitInv'
  <2>1. /\ i \in DOMAIN active
        /\ CommitStatusChange(p, i, ApplyDo(active[i], claim))
        /\ active[i].status = "todo"
    BY <1>7 DEF Do, CanTransitionTo
  <2>2. Moves(active[i], ApplyDo(active[i], claim))
    BY <2>1 DEF Moves
  <2> QED
    BY <1>1, <2>1, <2>2, StatusChangeKeepsCommit
<1>8. ASSUME NEW i \in Ids, Todo(p, i) PROVE CommitInv'
  <2>1. /\ i \in DOMAIN active
        /\ CommitStatusChange(p, i, ApplyTodo(active[i]))
        /\ active[i].status = "doing"
    BY <1>8 DEF Todo, CanTransitionTo
  <2>2. Moves(active[i], ApplyTodo(active[i]))
    BY <2>1 DEF Moves
  <2> QED
    BY <1>1, <2>1, <2>2, StatusChangeKeepsCommit
<1>9. ASSUME NEW i \in Ids, Block(p, i) PROVE CommitInv'
  <2>1. /\ i \in DOMAIN active
        /\ CommitStatusChange(p, i, ApplyBlock(active[i]))
        /\ active[i].status \in {"todo", "doing"}
    BY <1>9 DEF Block, CanTransitionTo
  <2>2. Moves(active[i], ApplyBlock(active[i]))
    BY <2>1 DEF Moves
  <2> QED
    BY <1>1, <2>1, <2>2, StatusChangeKeepsCommit
<1>10. ASSUME NEW i \in Ids, Unblock(p, i) PROVE CommitInv'
  <2>1. /\ i \in DOMAIN active
        /\ CommitStatusChange(p, i, ApplyUnblock(active[i]))
        /\ active[i].status = "blocked"
    BY <1>10 DEF Unblock
  <2>2. Moves(active[i], ApplyUnblock(active[i]))
    BY <2>1 DEF Moves
  <2> QED
    BY <1>1, <2>1, <2>2, StatusChangeKeepsCommit
<1>11. ASSUME NEW i \in Ids, Done(p, i) PROVE CommitInv'
  <2>1. /\ i \in DOMAIN active
        /\ CommitDone(p, i, ApplyDone(active[i]))
        /\ active[i].status \in {"todo", "doing"}
    BY <1>11 DEF Done, CanTransitionTo
  <2> QED
    BY <1>1, <2>1, CommitDoneKeepsCommit
<1> QED
  BY <1>3, <1>4, <1>5, <1>6, <1>7, <1>8, <1>9, <1>10, <1>11 DEF Command

-----------------------------------------------------------------------------
(***************************************************************************)
(* A write of tasks.jsonl, record by record.                               *)
(***************************************************************************)
(* ClaimDiscipline of a single record. *)
Disciplined(item) ==
  /\ item.claimed_by # None => item.status = "doing"
  /\ item.blocked_from_status \in
       IF item.status = "blocked" THEN {"todo", "doing"} ELSE {None}
  /\ item.status # "done"

(* A transition keeps a record disciplined, and releases a claim or keeps  *)
(* it: tg do gives a claim only to a todo item, which has none.            *)
LEMMA MovesDisciplined ==
  ASSUME NEW item \in Item, Disciplined(item), NEW new, Moves(item, new)
  PROVE  /\ Disciplined(new)
         /\ item.claimed_by # None => new.claimed_by \in {item.claimed_by, None}
         /\ new.parent = item.parent
<1>1. item \in [status: Status, dependencies: SUBSET Ids, parent: Ids \cup {None},
                claimed_by: Agents \cup {None}, blocked_from_status: Status \cup {None}]
  BY DEF Item
<1>2. None \notin {"todo", "doing"}
  BY NoneIsFresh DEF Status
<1>3. ASSUME item.status = "todo", NEW claim \in Agents \cup {None}, new = ApplyDo(item, claim)
      PROVE  /\ Disciplined(new) /\ item.claimed_by = None
             /\ new.parent = item.parent
  BY <1>1, <1>3 DEF Disciplined, ApplyDo
<1>4. CASE item.status = "doing" /\ new = ApplyTodo(item)
  BY <1>1, <1>4 DEF Disciplined, ApplyTodo
<1>5. CASE item.status \in {"todo", "doing"} /\ new = ApplyBlock(item)
  BY <1>1, <1>5 DEF Disciplined, ApplyBlock
<1>6. CASE item.status = "blocked" /\ new = ApplyUnblock(item)
  BY <1>1, <1>2, <1>6 DEF Disciplined, ApplyUnblock
<1> QED
  BY <1>3, <1>4, <1>5, <1>6 DEF Moves

(* What a rewrite may do to the records, whichever command prepared it. *)
Rewrite(new) ==
  /\ DOMAIN new \subseteq DOMAIN active \/ AddsItems(new)
  /\ \A i \in DOMAIN new : Disciplined(new[i])
  /\ \A i \in DOMAIN active \cap DOMAIN new :
        /\ new[i].status # active[i].status => new[i].status = NewestEvent(i)
        /\ active[i].claimed_by # None =>
              new[i].claimed_by \in {active[i].claimed_by, None}
  /\ \A i \in DOMAIN new \ DOMAIN active :
        new[i].status = "todo" /\ NewestEvent(i) = None
  /\ \A i \in DOMAIN active \ DOMAIN new :
        \/ i \in DOMAIN archive
        \/ ActiveDependents(active, i) = {} /\ ActiveChildren(active, i) = {}
  /\ \A i \in DOMAIN new : new[i].parent \in DOMAIN new \cup DOMAIN archive \cup {None}

(* The records of the items that a rewrite starts from. *)
LEMMA ActiveRecords ==
  ASSUME CommitInv, NEW i \in DOMAIN active
  PROVE  /\ i \in Ids /\ active[i] \in Item /\ Disciplined(active[i])
         /\ active[i].parent \in DOMAIN active \cup DOMAIN archive \cup {None}
  BY DEF CommitInv, StoreInv, TypeOK, IsItemFile, RecordsOK, ClaimDiscipline, Disciplined,
         ParentsKnown, Known

(* tg add and tg apply. *)
LEMMA AddsRewrites ==
  ASSUME CommitInv, NEW new, AddsItems(new)
  PROVE  Rewrite(new)
<1>1. ASSUME NEW i \in DOMAIN new \ DOMAIN active
      PROVE  /\ NewestEvent(i) = None
             /\ new[i].parent \in DOMAIN new \cup {None}
             /\ new[i].status = "todo"
             /\ Disciplined(new[i])
  <2>1. /\ NewestEvent(i) = None
        /\ new[i].parent \in DOMAIN new \cup {None}
        /\ new[i] = NewItem(new[i].dependencies, new[i].parent)
    BY <1>1 DEF AddsItems
  <2>2. /\ new[i].status = "todo" /\ new[i].claimed_by = None
        /\ new[i].blocked_from_status = None
    BY <2>1 DEF NewItem
  <2> QED
    BY <2>1, <2>2 DEF Disciplined
<1>2. \A i \in DOMAIN active : i \in DOMAIN new /\ new[i] = active[i]
  BY DEF AddsItems
<1> QED
  BY <1>1, <1>2, ActiveRecords DEF Rewrite

(* tg edit. *)
LEMMA RevisesRewrites ==
  ASSUME CommitInv, NEW new, RevisesItem(new)
  PROVE  Rewrite(new)
<1>1. PICK i \in DOMAIN active, deps \in SUBSET Ids :
        \E parent \in DOMAIN active \cup {None, active[i].parent} :
           new = PutItem(active, i, [active[i] EXCEPT !.dependencies = deps, !.parent = parent])
  BY DEF RevisesItem
<1>2. PICK parent \in DOMAIN active \cup {None, active[i].parent} :
        new = PutItem(active, i, [active[i] EXCEPT !.dependencies = deps, !.parent = parent])
  BY <1>1
<1>3. /\ DOMAIN new = DOMAIN active
      /\ new[i] = [active[i] EXCEPT !.dependencies = deps, !.parent = parent]
      /\ \A j \in DOMAIN active \ {i} : new[j] = active[j]
  BY <1>2 DEF PutItem
<1>4. active[i] \in Item /\ Disciplined(active[i])
  BY ActiveRecords
<1>5. /\ new[i].parent = parent
      /\ new[i].status = active[i].status
      /\ new[i].claimed_by = active[i].claimed_by
      /\ new[i].blocked_from_status = active[i].blocked_from_status
  BY <1>3, <1>4 DEF Item
<1>6. Disciplined(new[i])
  BY <1>4, <1>5 DEF Disciplined
<1>7. new[i].parent \in DOMAIN active \cup DOMAIN archive \cup {None}
  BY <1>2, <1>5, ActiveRecords
<1> QED
  BY <1>3, <1>5, <1>6, <1>7, ActiveRecords DEF Rewrite

(* tg do --claim. *)
LEMMA ClaimsRewrites ==
  ASSUME CommitInv, NEW new, ClaimsItem(new)
  PROVE  Rewrite(new)
<1>1. PICK i \in DOMAIN active, claim \in Agents :
        /\ active[i].status = "doing"
        /\ active[i].claimed_by \in {None, claim}
        /\ new = PutItem(active, i, [active[i] EXCEPT !.claimed_by = claim])
  BY DEF ClaimsItem
<1>2. /\ DOMAIN new = DOMAIN active
      /\ new[i] = [active[i] EXCEPT !.claimed_by = claim]
      /\ \A j \in DOMAIN active \ {i} : new[j] = active[j]
  BY <1>1 DEF PutItem
<1>3. active[i] \in Item /\ Disciplined(active[i])
  BY ActiveRecords
<1>4. /\ new[i].parent = active[i].parent
      /\ new[i].status = active[i].status
      /\ new[i].claimed_by = claim
      /\ new[i].blocked_from_status = active[i].blocked_from_status
  BY <1>2, <1>3 DEF Item
<1>5. Disciplined(new[i])
  BY <1>1, <1>3, <1>4 DEF Disciplined
<1> QED
  BY <1>1, <1>2, <1>4, <1>5, ActiveRecords DEF Rewrite

(* tg rm, and the rewrite of a done: its task is in archive.jsonl by then. *)
LEMMA RemovalRewrites ==
  ASSUME CommitInv, NEW i \in DOMAIN active, NEW new, new = RemoveItem(active, i),
         \/ i \in DOMAIN archive
         \/ ActiveDependents(active, i) = {} /\ ActiveChildren(active, i) = {}
  PROVE  Rewrite(new)
<1>1. /\ DOMAIN new = DOMAIN active \ {i}
      /\ \A j \in DOMAIN new : new[j] = active[j]
  BY DEF RemoveItem
<1>2. ASSUME NEW j \in DOMAIN new
      PROVE  new[j].parent \in DOMAIN new \cup DOMAIN archive \cup {None}
  <2>1. j \in DOMAIN active /\ new[j] = active[j]
    BY <1>1, <1>2
  <2>2. active[j].parent \in DOMAIN active \cup DOMAIN archive \cup {None}
    BY <2>1, ActiveRecords
  <2>3. active[j].parent = i => i \in DOMAIN archive
    BY <2>1 DEF ActiveChildren
  <2> QED
    BY <1>1, <2>1, <2>2, <2>3
<1> QED
  BY <1>1, <1>2, ActiveRecords DEF Rewrite

(* A status change, its event already written. *)
LEMMA StatusRewrites ==
  ASSUME CommitInv, NEW i \in DOMAIN active, NEW item, Moves(active[i], item),
         NewestEvent(i) = item.status, NEW new, new = PutItem(active, i, item)
  PROVE  Rewrite(new)
<1>1. /\ DOMAIN new = DOMAIN active
      /\ new[i] = item
      /\ \A j \in DOMAIN active \ {i} : new[j] = active[j]
  BY DEF PutItem
<1>2. active[i] \in Item /\ Disciplined(active[i])
  BY ActiveRecords
<1>3. /\ Disciplined(item)
      /\ active[i].claimed_by # None => item.claimed_by \in {active[i].claimed_by, None}
      /\ item.parent = active[i].parent
  BY <1>2, MovesDisciplined
<1> QED
  BY <1>1, <1>3, ActiveRecords DEF Rewrite

(* Every write of tasks.jsonl is such a rewrite. *)
LEMMA WriteTasksRewrites ==
  ASSUME CommitInv, NEW p \in Procs, WriteTasks(p)
  PROVE  Rewrite(job[p].tasks) /\ active' = job[p].tasks
<1>1. lock = p /\ job[p].stage = "tasks" /\ active' = job[p].tasks
  BY DEF WriteTasks, At
<1>2. Effect(job[p]) /\ job[p].kind \in Kind
  BY <1>1 DEF CommitInv, InProgress, StoreInv, TypeOK, IsJob
<1>3. CASE job[p].kind = "save"
  <2>1. \/ AddsItems(job[p].tasks) \/ RevisesItem(job[p].tasks)
        \/ ClaimsItem(job[p].tasks) \/ RemovesItem(job[p].tasks)
    BY <1>2, <1>3 DEF Effect, SaveEffect
  <2>2. RemovesItem(job[p].tasks) => Rewrite(job[p].tasks)
    BY RemovalRewrites DEF RemovesItem
  <2> QED
    BY <1>1, <2>1, <2>2, AddsRewrites, RevisesRewrites, ClaimsRewrites
<1>4. CASE job[p].kind = "status"
  BY <1>1, <1>2, <1>4, StatusRewrites DEF Effect, StatusEffect
<1>5. CASE job[p].kind = "done"
  BY <1>1, <1>2, <1>5, RemovalRewrites DEF Effect, DoneEffect, Pending
<1> QED
  BY <1>2, <1>3, <1>4, <1>5 DEF Kind

-----------------------------------------------------------------------------
(***************************************************************************)
(* The writes keep the invariant.                                          *)
(***************************************************************************)
(* The lock holder's commit, and how it goes on. *)
LEMMA HolderCommit ==
  ASSUME CommitInv, NEW p \in Procs, lock = p, InProgress(p)
  PROVE  /\ Effect(job[p])
         /\ WellFormed(job[p])
         /\ job[p].kind \in Kind
         /\ Pending(job[p]) => Sound(job[p])
         /\ \A q \in Procs \ {p} : job[q].stage = "idle"
         /\ DOMAIN job = Procs
  BY OthersIdle DEF CommitInv, StoreInv, TypeOK, IsJob, JobsOK

(* When the commit ends, nothing is under way any more. *)
LEMMA ReleaseEndsAll ==
  ASSUME CommitInv, NEW p \in Procs, lock = p, Release(p)
  PROVE  \A q \in Procs : job'[q].stage = "idle"
  BY OthersIdle DEF CommitInv, Release, NoJob, StoreInv, TypeOK

(* The event comes first, and only the task of the commit has a new one. *)
LEMMA AppendEventKeepsCommit ==
  ASSUME CommitInv, NEW p \in Procs, AppendEvent(p)
  PROVE  CommitInv'
<1> DEFINE s == job[p].item.status
<1>1. /\ lock = p /\ job[p].stage = "event"
      /\ UNCHANGED <<active, archive, events_archive, issued, crashes>>
      /\ events' = [events EXCEPT ![job[p].id] = s]
      /\ Advance(p)
  BY DEF AppendEvent, At
<1>2. StoreInv /\ StoreInv' /\ events \in [Ids -> Status \cup {None}]
  BY AppendEventKeepsInv DEF CommitInv, StoreInv, TypeOK
<1>3. /\ Effect(job[p]) /\ WellFormed(job[p]) /\ Sound(job[p])
      /\ job[p].kind \in {"status", "done"}
      /\ \A q \in Procs \ {p} : job[q].stage = "idle"
      /\ DOMAIN job = Procs
  BY <1>1, HolderCommit DEF InProgress, Pending, WellFormed, Kind
<1>4. PICK i \in issued : i = job[p].id /\ i \in Ids /\ job[p].item \in Item
  <2>1. job[p].id \in DOMAIN active
    BY <1>1, <1>3 DEF Effect, StatusEffect, DoneEffect, Pending
  <2> QED
    BY <1>2, <1>3, <2>1 DEF WellFormed, StoreInv, FilesOK, MentionsIssued
<1>5. s \in Status /\ s # None
  BY <1>4, NoneIsFresh DEF Item
<1>6. /\ NewestEvent(i)' = s
      /\ \A j \in Ids \ {i} : NewestEvent(j)' = NewestEvent(j)
  BY <1>1, <1>2, <1>4, <1>5 DEF NewestEvent
<1>7. PICK t \in {"archive", "tasks"} :
        /\ job' = [job EXCEPT ![p].stage = t]
        /\ t = "archive" <=> job[p].kind = "done"
  BY <1>1, <1>2, <1>3, Stages
<1>8. /\ job'[p] = [job[p] EXCEPT !.stage = t]
      /\ \A q \in Procs \ {p} : job'[q] = job[q]
  BY <1>3, <1>7
<1>9. /\ job'[p].stage = t /\ job'[p].kind = job[p].kind /\ job'[p].id = i
      /\ job'[p].item = job[p].item /\ job'[p].tasks = job[p].tasks
  <2>1. IsJob(job[p])
    BY <1>2 DEF StoreInv, TypeOK
  <2> QED
    BY <1>4, <1>8, <2>1 DEF IsJob
<1> HIDE DEF s
<1>10. IsFiniteSet(Drifted') /\ DriftNeedsCrash'
  <2>1. ASSUME NEW j \in Drifted' PROVE j \in Drifted
    <3>1. j \in DOMAIN active /\ j \in Ids
      BY <1>1, <1>2 DEF Drifted, StoreInv, TypeOK, IsItemFile
    <3>2. j # i
      BY <1>7, <1>9 DEF Drifted, InProgress
    <3>3. NewestEvent(j)' = NewestEvent(j)
      BY <1>6, <3>1, <3>2
    <3>4. \A q \in Procs : InProgress(q) => job[q].id # j
      BY <1>3, <1>4, <3>2 DEF InProgress
    <3> QED
      BY <1>1, <3>1, <3>3, <3>4 DEF Drifted
  <2> QED
    BY <1>1, <2>1, NoNewDrift
<1>11. ArchivedIsDone'
  <2>1. i \in DOMAIN archive => s = "done"
    <3>1. job[p].kind = "status" => i \notin DOMAIN archive
      BY <1>3, <1>4 DEF Effect, StatusEffect, Sound, PutItem
    <3>2. job[p].kind = "done" => s = "done"
      <4>1. job[p].kind = "done" => job[p].item = ApplyDone(active[i]) /\ active[i] \in Item
        BY <1>1, <1>3, <1>4, ActiveRecords DEF Effect, DoneEffect, Pending
      <4> QED
        BY <4>1 DEF ApplyDone, Item, s
    <3> QED
      BY <1>3, <3>1, <3>2
  <2>2. DOMAIN archive \subseteq Ids
    BY <1>2 DEF StoreInv, TypeOK, IsItemFile
  <2> QED
    BY <1>1, <1>6, <2>1, <2>2 DEF CommitInv, RecordsOK, ArchivedIsDone
<1>12. RecordsOK'
  <2>1. ClaimDiscipline' /\ ParentsKnown'
    BY <1>1 DEF CommitInv, RecordsOK, ClaimDiscipline, ParentsKnown, Known
  <2>2. \A j \in Ids \ issued' : NewestEvent(j)' = None
    BY <1>1, <1>4, <1>6 DEF CommitInv, RecordsOK
  <2> QED
    BY <1>10, <1>11, <2>1, <2>2 DEF RecordsOK
<1>13. Effect(job[p])'
  <2>1. CASE job[p].kind = "status"
    <3>1. t = "tasks" /\ NewestEvent(i)' = job[p].item.status
      BY <1>6, <1>7, <2>1 DEF s
    <3>2. /\ i \in DOMAIN active /\ Moves(active[i], job[p].item)
          /\ job[p].tasks = PutItem(active, i, job[p].item)
      BY <1>3, <1>4, <2>1 DEF Effect, StatusEffect
    <3> QED
      BY <1>1, <1>9, <2>1, <3>1, <3>2 DEF Effect, StatusEffect
  <2>2. CASE job[p].kind = "done"
    <3>1. /\ i \in DOMAIN active /\ active[i].status \in {"todo", "doing"}
          /\ job[p].item = ApplyDone(active[i]) /\ job[p].tasks = RemoveItem(active, i)
      BY <1>1, <1>3, <1>4, <2>2 DEF Effect, DoneEffect, Pending
    <3>2. NewestEvent(i)' = "done"
      <4>1. active[i] \in Item
        BY <3>1, ActiveRecords
      <4> QED
        BY <1>6, <3>1, <4>1 DEF ApplyDone, Item, s
    <3>3. t = "archive"
      BY <1>7, <2>2
    <3> QED
      BY <1>1, <1>9, <2>2, <3>1, <3>2, <3>3 DEF Effect, DoneEffect, Pending
  <2> QED
    BY <1>3, <2>1, <2>2
<1> QED
  BY <1>2, <1>3, <1>8, <1>12, <1>13 DEF CommitInv, InProgress

(* What enters archive.jsonl is done, unclaimed and has its event. *)
LEMMA AppendToArchiveKeepsCommit ==
  ASSUME CommitInv, NEW p \in Procs, AppendToArchive(p)
  PROVE  CommitInv'
<1> DEFINE i == job[p].id
<1>1. /\ lock = p /\ job[p].stage = "archive"
      /\ UNCHANGED <<active, events, events_archive, issued, crashes>>
      /\ archive' = PutItem(archive, i, job[p].item)
      /\ Advance(p)
  BY DEF AppendToArchive, At
<1>2. StoreInv /\ StoreInv'
  BY AppendToArchiveKeepsInv DEF CommitInv
<1>3. /\ Effect(job[p]) /\ WellFormed(job[p])
      /\ job[p].kind = "done"
      /\ \A q \in Procs \ {p} : job[q].stage = "idle"
      /\ DOMAIN job = Procs
  BY <1>1, HolderCommit DEF InProgress, Pending, WellFormed, Kind
<1>4. /\ i \in DOMAIN active /\ active[i].status \in {"todo", "doing"}
      /\ job[p].item = ApplyDone(active[i]) /\ job[p].tasks = RemoveItem(active, i)
      /\ NewestEvent(i) = "done"
  BY <1>1, <1>3 DEF Effect, DoneEffect, Pending
<1>5. job[p].item.status = "done" /\ job[p].item.claimed_by = None
  <2>1. active[i] \in Item
    BY <1>4, ActiveRecords
  <2> QED
    BY <1>4, <2>1 DEF ApplyDone, Item
<1>6. job' = [job EXCEPT ![p].stage = "tasks"]
  BY <1>1, <1>2, Stages
<1>7. /\ job'[p] = [job[p] EXCEPT !.stage = "tasks"]
      /\ \A q \in Procs \ {p} : job'[q] = job[q]
  BY <1>3, <1>6
<1>8. /\ job'[p].stage = "tasks" /\ job'[p].kind = job[p].kind /\ job'[p].id = i
      /\ job'[p].item = job[p].item /\ job'[p].tasks = job[p].tasks
  <2>1. IsJob(job[p])
    BY <1>2 DEF StoreInv, TypeOK
  <2> QED
    BY <1>7, <2>1 DEF IsJob
<1> HIDE DEF i
<1>9. /\ DOMAIN archive' = DOMAIN archive \cup {i}
      /\ archive'[i] = job[p].item
      /\ \A j \in DOMAIN archive \ {i} : archive'[j] = archive[j]
  BY <1>1 DEF PutItem
<1>10. IsFiniteSet(Drifted') /\ DriftNeedsCrash'
  <2>1. ASSUME NEW q \in Procs
        PROVE  (InProgress(q)' <=> InProgress(q)) /\ (InProgress(q) => job'[q].id = job[q].id)
    BY <1>1, <1>7, <1>8 DEF InProgress, i
  <2>2. Drifted' \subseteq Drifted
    BY <1>1, <2>1 DEF Drifted, NewestEvent
  <2> QED
    BY <1>1, <2>2, NoNewDrift
<1>11. ArchivedIsDone'
  BY <1>1, <1>4, <1>5, <1>9 DEF CommitInv, RecordsOK, ArchivedIsDone, NewestEvent
<1>12. RecordsOK'
  BY <1>1, <1>9, <1>10, <1>11
     DEF CommitInv, RecordsOK, ClaimDiscipline, ParentsKnown, Known, NewestEvent
<1>13. Effect(job[p])'
  BY <1>1, <1>3, <1>4, <1>8, <1>9 DEF Effect, DoneEffect, Pending, NewestEvent
<1> QED
  BY <1>2, <1>3, <1>7, <1>12, <1>13 DEF CommitInv, InProgress

(* The rewrite ends the drift that the commit itself was making. *)
LEMMA WriteTasksKeepsCommit ==
  ASSUME CommitInv, NEW p \in Procs, WriteTasks(p)
  PROVE  CommitInv'
<1> DEFINE i == job[p].id
<1>1. /\ lock = p /\ job[p].stage = "tasks"
      /\ UNCHANGED <<archive, events, events_archive, issued, crashes>>
      /\ active' = job[p].tasks
      /\ Advance(p)
  BY DEF WriteTasks, At
<1>2. StoreInv /\ StoreInv'
  BY WriteTasksKeepsInv DEF CommitInv
<1>3. /\ Effect(job[p])
      /\ job[p].kind \in Kind
      /\ \A q \in Procs \ {p} : job[q].stage = "idle"
      /\ DOMAIN job = Procs
  BY <1>1, HolderCommit DEF InProgress
<1>4. Rewrite(job[p].tasks)
  BY WriteTasksRewrites
<1>5. i \in DOMAIN active' =>
         job[p].kind = "status" /\ active'[i].status = NewestEvent(i)
  <2>1. DOMAIN active' \subseteq Ids
    BY <1>2 DEF StoreInv, TypeOK, IsItemFile
  <2>2. CASE job[p].kind = "save"
    BY <1>3, <2>1, <2>2, NoneIsFresh DEF Effect, SaveEffect
  <2>3. CASE job[p].kind = "status"
    BY <1>1, <1>3, <2>3 DEF Effect, StatusEffect, PutItem
  <2>4. CASE job[p].kind = "done"
    BY <1>1, <1>3, <2>4 DEF Effect, DoneEffect, Pending, RemoveItem
  <2> QED
    BY <1>3, <2>2, <2>3, <2>4 DEF Kind
<1> HIDE DEF i
<1>6. IsFiniteSet(Drifted') /\ DriftNeedsCrash'
  <2>1. ASSUME NEW j \in Drifted' PROVE j \in Drifted
    <3>1. /\ j \in DOMAIN active'
          /\ active'[j].status # (IF NewestEvent(j) = None THEN "todo" ELSE NewestEvent(j))
      BY <1>1 DEF Drifted, NewestEvent
    <3>2. active'[j].status # None
      BY <1>2, <3>1, NoneIsFresh DEF StoreInv, TypeOK, IsItemFile, Item
    <3>3. j # i
      BY <1>5, <3>1, <3>2
    <3>4. j \in DOMAIN active /\ active'[j].status = active[j].status
      BY <1>1, <1>4, <3>1, <3>2 DEF Rewrite
    <3> QED
      BY <1>3, <3>1, <3>3, <3>4 DEF Drifted, InProgress, i
  <2> QED
    BY <1>1, <2>1, NoNewDrift
<1>7. RecordsOK'
  <2>1. ArchivedIsDone'
    BY <1>1 DEF CommitInv, RecordsOK, ArchivedIsDone, NewestEvent
  <2>2. ClaimDiscipline'
    BY <1>1, <1>4 DEF Rewrite, Disciplined, ClaimDiscipline
  <2>3. ParentsKnown'
    BY <1>1, <1>4 DEF Rewrite, ParentsKnown, Known
  <2> QED
    BY <1>1, <1>6, <2>1, <2>2, <2>3 DEF CommitInv, RecordsOK, NewestEvent
<1>8. CASE job[p].kind # "done"
  <2>1. \A q \in Procs : job'[q].stage = "idle"
    BY <1>1, <1>2, <1>8, Stages, ReleaseEndsAll
  <2> QED
    BY <1>2, <1>7, <2>1 DEF CommitInv, InProgress
<1>9. CASE job[p].kind = "done"
  <2>1. job' = [job EXCEPT ![p].stage = "copy"]
    BY <1>1, <1>2, <1>9, Stages
  <2>2. /\ job'[p] = [job[p] EXCEPT !.stage = "copy"]
        /\ \A q \in Procs \ {p} : job'[q] = job[q]
    BY <1>3, <2>1
  <2>3. job'[p].stage = "copy" /\ job'[p].kind = "done" /\ job'[p].id = i
    <3>1. IsJob(job[p])
      BY <1>2 DEF StoreInv, TypeOK
    <3> QED
      BY <1>9, <2>2, <3>1 DEF IsJob, i
  <2>4. i \notin DOMAIN active' /\ NewestEvent(i) = "done" /\ i \in DOMAIN archive
    BY <1>1, <1>3, <1>5, <1>9 DEF Effect, DoneEffect, i
  <2>5. Effect(job[p])'
    BY <1>1, <2>3, <2>4 DEF Effect, DoneEffect, Pending, NewestEvent
  <2> QED
    BY <1>2, <1>3, <1>7, <2>2, <2>5 DEF CommitInv, InProgress
<1> QED
  BY <1>8, <1>9

(* A step that ends the commit, changes neither item file and leaves every *)
(* task its newest event.                                                  *)
LEMMA ReleaseKeepsCommit ==
  ASSUME CommitInv, StoreInv', NEW p \in Procs, lock = p, Release(p),
         UNCHANGED <<active, archive, issued>>,
         \A j \in Ids : NewestEvent(j)' = NewestEvent(j),
         \/ crashes' = crashes /\ job[p].id \notin DOMAIN active
         \/ crashes' = crashes + 1
  PROVE  CommitInv'
<1>1. \A q \in Procs : job'[q].stage = "idle"
  BY ReleaseEndsAll
<1>2. \A q \in Procs \ {p} : job[q].stage = "idle"
  BY OthersIdle DEF CommitInv
<1>3. DOMAIN active \subseteq Ids /\ DOMAIN archive \subseteq Ids
  BY DEF CommitInv, StoreInv, TypeOK, IsItemFile
<1>4. ASSUME NEW j \in Drifted', j # job[p].id PROVE j \in Drifted
  <2>1. j \in DOMAIN active /\ NewestEvent(j)' = NewestEvent(j)
    BY <1>3 DEF Drifted
  <2>2. \A q \in Procs : InProgress(q) => job[q].id # j
    BY <1>2, <1>4 DEF InProgress
  <2> QED
    BY <2>1, <2>2 DEF Drifted
<1>5. Drifted' \subseteq DOMAIN active
  BY DEF Drifted
<1>6. IsFiniteSet(Drifted') /\ DriftNeedsCrash'
  <2>1. CASE crashes' = crashes /\ job[p].id \notin DOMAIN active
    <3>1. Drifted' \subseteq Drifted
      BY <1>4, <1>5, <2>1
    <3> QED
      BY <2>1, <3>1, NoNewDrift
  <2>2. CASE crashes' = crashes + 1
    <3>1. PICK i : i = job[p].id
      OBVIOUS
    <3>2. Drifted' \subseteq Drifted \cup {i}
      BY <1>4, <3>1
    <3> QED
      BY <2>2, <3>2, OneMoreDrift
  <2> QED
    BY <2>1, <2>2
<1>7. RecordsOK'
  <2>1. ArchivedIsDone' /\ ClaimDiscipline' /\ ParentsKnown'
    BY <1>3 DEF CommitInv, RecordsOK, ArchivedIsDone, ClaimDiscipline, ParentsKnown, Known
  <2> QED
    BY <1>6, <2>1 DEF CommitInv, RecordsOK
<1> QED
  BY <1>1, <1>7 DEF CommitInv, InProgress

(* The copy of an event is the event. *)
LEMMA CopyEventsKeepsCommit ==
  ASSUME CommitInv, NEW p \in Procs, CopyEvents(p)
  PROVE  CommitInv'
<1>1. /\ lock = p /\ job[p].stage = "copy"
      /\ UNCHANGED <<active, archive, events, issued, crashes>>
  BY DEF CopyEvents, At
<1>2. StoreInv /\ StoreInv'
  BY CopyEventsKeepsInv DEF CommitInv
<1>3. /\ Effect(job[p])
      /\ job[p].kind = "done"
      /\ \A q \in Procs \ {p} : job[q].stage = "idle"
      /\ DOMAIN job = Procs
  BY <1>1, HolderCommit DEF InProgress, WellFormed, Kind
<1>4. PICK i \in Ids : i = job[p].id
  BY <1>1, <1>2 DEF StoreInv, TypeOK
<1>5. /\ i \notin DOMAIN active /\ i \in DOMAIN archive /\ NewestEvent(i) = "done"
      /\ events_archive \in [Ids -> Status \cup {None}]
  BY <1>1, <1>2, <1>3, <1>4 DEF Effect, DoneEffect, StoreInv, TypeOK
<1>6. CASE events[i] = None
  <2>1. UNCHANGED events_archive /\ Release(p)
    BY <1>4, <1>6 DEF CopyEvents
  <2>2. \A j \in Ids : NewestEvent(j)' = NewestEvent(j)
    BY <1>1, <2>1 DEF NewestEvent
  <2>3. job[p].id \notin DOMAIN active
    BY <1>4, <1>5
  <2> QED
    BY <1>1, <1>2, <2>1, <2>2, <2>3, ReleaseKeepsCommit
<1>7. CASE events[i] # None
  <2>1. /\ events_archive' = [events_archive EXCEPT ![i] = events[i]]
        /\ job' = [job EXCEPT ![p].stage = "clear"]
    BY <1>1, <1>2, <1>4, <1>7, Stages DEF CopyEvents
  <2>2. \A j \in Ids : NewestEvent(j)' = NewestEvent(j)
    BY <1>1, <1>5, <1>7, <2>1 DEF NewestEvent
  <2>3. /\ job'[p] = [job[p] EXCEPT !.stage = "clear"]
        /\ \A q \in Procs \ {p} : job'[q] = job[q]
    BY <1>3, <2>1
  <2>4. job'[p].stage = "clear" /\ job'[p].kind = "done" /\ job'[p].id = i
    <3>1. IsJob(job[p])
      BY <1>2 DEF StoreInv, TypeOK
    <3> QED
      BY <1>3, <1>4, <2>3, <3>1 DEF IsJob
  <2>5. Effect(job[p])'
    <3>1. NewestEvent(i)' = "done"
      BY <1>5, <2>2
    <3>2. events_archive'[i] = events'[i]
      BY <1>1, <1>5, <2>1
    <3> QED
      BY <1>1, <1>5, <2>4, <3>1, <3>2 DEF Effect, DoneEffect, Pending
  <2>6. Drifted' \subseteq Drifted
    <3> SUFFICES ASSUME NEW j \in Drifted' PROVE j \in Drifted
      OBVIOUS
    <3>1. j \in DOMAIN active /\ j \in Ids
      BY <1>1, <1>2 DEF Drifted, StoreInv, TypeOK, IsItemFile
    <3>2. NewestEvent(j)' = NewestEvent(j)
      BY <2>2, <3>1
    <3>3. \A q \in Procs : InProgress(q) => job[q].id # j
      BY <1>3, <1>4, <1>5, <3>1 DEF InProgress
    <3> QED
      BY <1>1, <3>1, <3>2, <3>3 DEF Drifted
  <2>7. RecordsOK'
    <3>1. IsFiniteSet(Drifted') /\ DriftNeedsCrash'
      BY <1>1, <2>6, NoNewDrift
    <3>2. DOMAIN active \subseteq Ids /\ DOMAIN archive \subseteq Ids
      BY <1>2 DEF StoreInv, TypeOK, IsItemFile
    <3>3. ArchivedIsDone' /\ ClaimDiscipline' /\ ParentsKnown'
      BY <1>1, <2>2, <3>2
         DEF CommitInv, RecordsOK, ArchivedIsDone, ClaimDiscipline, ParentsKnown, Known
    <3> QED
      BY <1>1, <2>2, <3>1, <3>3 DEF CommitInv, RecordsOK
  <2> QED
    BY <1>2, <1>3, <2>3, <2>5, <2>7 DEF CommitInv, InProgress
<1> QED
  BY <1>6, <1>7

(* Nothing is lost with the original of a copy. *)
LEMMA ClearEventsKeepsCommit ==
  ASSUME CommitInv, NEW p \in Procs, ClearEvents(p)
  PROVE  CommitInv'
<1>1. /\ lock = p /\ job[p].stage = "clear" /\ Advance(p)
      /\ UNCHANGED <<active, archive, events_archive, issued, crashes>>
      /\ events' = [events EXCEPT ![job[p].id] = None]
  BY DEF ClearEvents, At
<1>2. StoreInv /\ StoreInv'
  BY ClearEventsKeepsInv DEF CommitInv
<1>3. Effect(job[p]) /\ job[p].kind = "done"
  BY <1>1, HolderCommit DEF InProgress, WellFormed, Kind
<1>4. /\ job[p].id \notin DOMAIN active
      /\ events_archive[job[p].id] = events[job[p].id]
      /\ events \in [Ids -> Status \cup {None}]
  BY <1>1, <1>2, <1>3 DEF Effect, DoneEffect, StoreInv, TypeOK
<1>5. \A j \in Ids : NewestEvent(j)' = NewestEvent(j)
  BY <1>1, <1>4 DEF NewestEvent
<1>6. Release(p)
  BY <1>1, <1>2, Stages
<1> QED
  BY <1>1, <1>2, <1>4, <1>5, <1>6, ReleaseKeepsCommit

(* A crash leaves the commit's task as its last write left it: it may have *)
(* its event without its status, and no other task can.                    *)
LEMMA CrashKeepsCommit ==
  ASSUME CommitInv, NEW p \in Procs, Crash(p)
  PROVE  CommitInv'
<1>1. /\ lock = p /\ Release(p) /\ crashes' = crashes + 1
      /\ UNCHANGED <<active, archive, issued, events, events_archive>>
  BY DEF Crash, files
<1>2. StoreInv'
  BY CrashKeepsInv DEF CommitInv
<1>3. \A j \in Ids : NewestEvent(j)' = NewestEvent(j)
  BY <1>1 DEF NewestEvent
<1> QED
  BY <1>1, <1>2, <1>3, ReleaseKeepsCommit

-----------------------------------------------------------------------------
(***************************************************************************)
(* The theorems.                                                           *)
(***************************************************************************)
(* An initialised project satisfies the invariant. *)
LEMMA InitCommit == Init => CommitInv
<1> SUFFICES ASSUME Init PROVE CommitInv
  OBVIOUS
<1>1. StoreInv
  BY InitInv
<1>2. DOMAIN active = {} /\ DOMAIN archive = {} /\ crashes = 0
  BY DEF Init, EmptyFile
<1>3. Drifted = {}
  BY <1>2 DEF Drifted
<1>4. IsFiniteSet(Drifted) /\ DriftNeedsCrash
  BY <1>2, <1>3, FS_EmptySet DEF DriftNeedsCrash
<1>5. \A i \in Ids : NewestEvent(i) = None
  BY DEF Init, NewestEvent
<1>6. RecordsOK
  BY <1>2, <1>4, <1>5 DEF RecordsOK, ArchivedIsDone, ClaimDiscipline, ParentsKnown
<1>7. \A p \in Procs : ~InProgress(p)
  BY DEF Init, InProgress, NoJob
<1> QED
  BY <1>1, <1>6, <1>7 DEF CommitInv

(* The lock itself is in none of the facts but LockProtects: whoever else  *)
(* takes it and gives it back disturbs no commit.                          *)
LEMMA LockKeepsCommit ==
  ASSUME CommitInv, UNCHANGED <<files, issued, job>>, crashes' \in crashes..MaxCrashes,
         lock' \in Procs \cup {None}, LockProtects'
  PROVE  CommitInv'
<1>1. /\ job' = job /\ active' = active /\ archive' = archive /\ events' = events
      /\ events_archive' = events_archive /\ issued' = issued
  BY DEF files
<1>2. TypeOK'
  BY <1>1, CrashBound DEF CommitInv, StoreInv, TypeOK, IsJob
<1>3. FilesOK'
  BY <1>1
     DEF CommitInv, StoreInv, FilesOK, DependenciesResolve, NoDependencyCycle, NoParentCycle,
         MentionsIssued, Split, Known
<1>4. JobsOK'
  BY <1>1 DEF CommitInv, StoreInv, JobsOK, WellFormed, Pending, Sound, BeforeArchiving,
         MentionsIssued
<1>5. Drifted' = Drifted
  BY <1>1 DEF Drifted, NewestEvent, InProgress
<1>6. RecordsOK'
  <2>1. IsFiniteSet(Drifted) /\ Cardinality(Drifted) <= crashes /\ crashes \in Nat
    BY CrashBound DEF CommitInv, StoreInv, TypeOK, RecordsOK, DriftNeedsCrash
  <2>2. Cardinality(Drifted) <= crashes'
    BY <2>1, CrashBound, FS_CardinalityType
  <2>3. IsFiniteSet(Drifted') /\ DriftNeedsCrash'
    BY <1>5, <2>1, <2>2 DEF DriftNeedsCrash
  <2> QED
    BY <1>1, <2>3
       DEF CommitInv, RecordsOK, ArchivedIsDone, ClaimDiscipline, ParentsKnown, Known,
           NewestEvent
<1>7. ASSUME NEW p \in Procs, InProgress(p)' PROVE Effect(job[p])'
  <2>1. Effect(job[p])
    BY <1>1, <1>7 DEF CommitInv, InProgress
  <2>2. SaveEffect(job[p]) => SaveEffect(job[p])'
    <3>1. job'[p] = job[p] /\ active' = active
      BY <1>1
    <3>2. AddsItems(job[p].tasks) => AddsItems(job[p].tasks)'
      BY <1>1 DEF AddsItems, NewestEvent
    <3>3. RevisesItem(job[p].tasks) => RevisesItem(job[p].tasks)'
      BY <3>1 DEF RevisesItem
    <3>4. ClaimsItem(job[p].tasks) => ClaimsItem(job[p].tasks)'
      BY <3>1 DEF ClaimsItem
    <3>5. RemovesItem(job[p].tasks) => RemovesItem(job[p].tasks)'
      BY <3>1 DEF RemovesItem
    <3> QED
      BY <3>1, <3>2, <3>3, <3>4, <3>5 DEF SaveEffect
  <2>3. StatusEffect(job[p]) => StatusEffect(job[p])'
    BY <1>1 DEF StatusEffect, NewestEvent
  <2>4. DoneEffect(job[p]) => DoneEffect(job[p])'
    BY <1>1 DEF DoneEffect, NewestEvent, Pending
  <2> QED
    BY <1>1, <2>1, <2>2, <2>3, <2>4 DEF Effect
<1> QED
  BY <1>2, <1>3, <1>4, <1>6, <1>7 DEF CommitInv, StoreInv

(* Every step keeps it. *)
LEMMA NextCommit == CommitInv /\ [Next \/ ApplyNext]_vars => CommitInv'
<1> SUFFICES ASSUME CommitInv, [Next \/ ApplyNext]_vars PROVE CommitInv'
  OBVIOUS
<1>1. ASSUME NEW p \in Procs, Command(p) \/ \E request \in Requests : ApplyGraph(p, request)
      PROVE  CommitInv'
  BY <1>1, CommandKeepsCommit
<1>2. ASSUME NEW p \in Procs, Write(p) PROVE CommitInv'
  BY <1>2, AppendEventKeepsCommit, AppendToArchiveKeepsCommit, WriteTasksKeepsCommit,
     CopyEventsKeepsCommit, ClearEventsKeepsCommit DEF Write
<1>3. ASSUME NEW p \in Procs, Crash(p) PROVE CommitInv'
  BY <1>3, CrashKeepsCommit
<1>4. CASE UNCHANGED vars
  <2>1. UNCHANGED <<files, issued, job>> /\ lock' = lock
    BY <1>4 DEF vars, files
  <2>2. crashes' \in crashes..MaxCrashes
    BY <1>4, CrashBound DEF vars, CommitInv, StoreInv, TypeOK
  <2>3. lock' \in Procs \cup {None} /\ LockProtects'
    BY <2>1 DEF CommitInv, StoreInv, TypeOK, LockProtects, InProgress
  <2> QED
    BY <2>1, <2>2, <2>3, LockKeepsCommit
<1> QED
  BY <1>1, <1>2, <1>3, <1>4 DEF Next, ApplyNext

(* Every behavior of the store, tg apply included, keeps CommitInv: every  *)
(* commit under way makes the one change it was taken on for, from the     *)
(* files as they still are.                                                *)
THEOREM CommitInvariant == GraphApplySpec => []CommitInv
  BY InitCommit, NextCommit, PTL DEF GraphApplySpec

(* Done is final: a task in archive.jsonl is done there, and by its newest *)
(* event, for ever (ArchivedIsDone).                                       *)
THEOREM DoneIsFinal == GraphApplySpec => []ArchivedIsDone
<1>1. CommitInv => ArchivedIsDone
  BY DEF CommitInv, RecordsOK
<1> QED
  BY <1>1, CommitInvariant, PTL

(* The claim and block fields always fit the status (model/item.rs). *)
THEOREM ClaimsFollowStatus == GraphApplySpec => []ClaimDiscipline
<1>1. CommitInv => ClaimDiscipline
  BY DEF CommitInv, RecordsOK
<1> QED
  BY <1>1, CommitInvariant, PTL

(* A task's status and its newest event differ only after a crash between  *)
(* the two writes of a commit, and each crash is good for one such task.   *)
THEOREM DriftBound == GraphApplySpec => []DriftNeedsCrash
<1>1. CommitInv => DriftNeedsCrash
  BY DEF CommitInv, RecordsOK
<1> QED
  BY <1>1, CommitInvariant, PTL

(* Work never stops for ever on its own graph: among the active tasks when *)
(* none is doing or blocked, one has only archived, hence done,            *)
(* dependencies.                                                           *)
THEOREM BoardNeverStuck == GraphApplySpec => []NeverStuck
<1>1. CommitInv => NeverStuck
  <2> SUFFICES ASSUME CommitInv,
                      NEW i \in DOMAIN active, active[i].status = "todo",
                      \A j \in DOMAIN active : active[j].status \notin {"doing", "blocked"}
               PROVE  ReadyItems(active, archive) # {}
    BY DEF NeverStuck
  <2>1. \A j \in DOMAIN active : active[j].status = "todo"
    BY ActiveRecords DEF Item, Status, Disciplined
  <2>2. PICK j \in DOMAIN active : active[j].dependencies \cap DOMAIN active = {}
    <3>1. Acyclic(DependencyEdges(active))
      BY DEF CommitInv, StoreInv, FilesOK, NoDependencyCycle
    <3>2. DOMAIN DependencyEdges(active) = DOMAIN active
      BY DEF DependencyEdges
    <3>3. \E x \in DOMAIN active : DependencyEdges(active)[x] \cap DOMAIN active = {}
      BY <3>1, <3>2 DEF Acyclic
    <3> QED
      BY <3>3 DEF DependencyEdges
  <2>3. \A d \in active[j].dependencies : d \in DOMAIN archive /\ d \notin DOMAIN active
    BY <2>2 DEF CommitInv, StoreInv, FilesOK, DependenciesResolve, Known
  <2>4. \A d \in active[j].dependencies : DependencyMet(d, active, archive)
    BY <2>3 DEF CommitInv, RecordsOK, ArchivedIsDone, DependencyMet
  <2> QED
    BY <2>1, <2>4 DEF ReadyItems
<1> QED
  BY <1>1, CommitInvariant, PTL

(* Taking parents away leaves the dependencies as they are and closes no   *)
(* cycle.                                                                  *)
LEMMA FewerParents ==
  ASSUME IsItemFile(active), NEW f, DOMAIN f = DOMAIN active,
         Acyclic(DependencyEdges(active)), Acyclic(ParentEdges(active)),
         \A i \in DOMAIN active :
            /\ f[i].dependencies = active[i].dependencies
            /\ f[i].parent \in {None, active[i].parent}
  PROVE  Acyclic(DependencyEdges(f)) /\ Acyclic(ParentEdges(f))
<1>1. /\ DOMAIN DependencyEdges(f) \subseteq DOMAIN DependencyEdges(active)
      /\ \A x \in DOMAIN DependencyEdges(f) : DependencyEdges(f)[x] \subseteq DependencyEdges(active)[x]
  BY DEF DependencyEdges
<1>2. /\ DOMAIN ParentEdges(f) \subseteq DOMAIN ParentEdges(active)
      /\ \A x \in DOMAIN ParentEdges(f) : ParentEdges(f)[x] \subseteq ParentEdges(active)[x]
  BY DEF ParentEdges
<1>3. Acyclic(DependencyEdges(f))
  BY <1>1, AcyclicSubgraph
<1>4. Acyclic(ParentEdges(f))
  BY <1>2, AcyclicSubgraph
<1> QED
  BY <1>3, <1>4

(* An acyclic item refers to others only. *)
LEMMA NoSelfReference ==
  ASSUME NEW f, Acyclic(DependencyEdges(f)), Acyclic(ParentEdges(f)), NEW i \in DOMAIN f
  PROVE  i \notin f[i].dependencies /\ (f[i].parent = i => i = None)
<1>1. {i} \in SUBSET DOMAIN DependencyEdges(f) /\ {i} \in SUBSET DOMAIN ParentEdges(f)
  BY DEF DependencyEdges, ParentEdges
<1>2. DependencyEdges(f)[i] \cap {i} = {} /\ ParentEdges(f)[i] \cap {i} = {}
  BY <1>1 DEF Acyclic
<1> QED
  BY <1>2 DEF DependencyEdges, ParentEdges

(* The store that tg apply refuses because a parent was archived before    *)
(* its children can be mended: each child can be saved without its parent, *)
(* and after that the store passes validate_snapshot (EditsMendRefusal).   *)
THEOREM RefusalCanBeMended == GraphApplySpec => []EditsMendRefusal
<1>1. ASSUME CommitInv, Split = {}
      PROVE  /\ \A i \in Orphans : ValidateActiveWrite(WithoutParent(i))
             /\ StrictSnapshot(Mended)
  <2>1. /\ IsItemFile(active)
        /\ Acyclic(DependencyEdges(active)) /\ Acyclic(ParentEdges(active))
        /\ DOMAIN active \cap DOMAIN archive = {}
        /\ \A i \in DOMAIN active :
              active[i].dependencies \subseteq DOMAIN active \cup DOMAIN archive
    BY <1>1 DEF CommitInv, StoreInv, TypeOK, FilesOK, NoDependencyCycle, NoParentCycle,
                DependenciesResolve, Known, Split
  <2>2. \A i \in DOMAIN active : active[i] \in Item
    BY <2>1 DEF IsItemFile
  <2>3. ASSUME NEW i \in Orphans PROVE ValidateActiveWrite(WithoutParent(i))
    <3>1. /\ DOMAIN WithoutParent(i) = DOMAIN active
          /\ \A j \in DOMAIN active :
                WithoutParent(i)[j].dependencies = active[j].dependencies
      BY <2>2 DEF WithoutParent, Item
    <3> QED
      BY <2>1, <3>1 DEF ValidateActiveWrite, DependencyReferencesResolve
  <2>4. /\ DOMAIN Mended = DOMAIN active
        /\ \A i \in DOMAIN active :
              /\ Mended[i].dependencies = active[i].dependencies
              /\ Mended[i].parent = IF i \in Orphans THEN None ELSE active[i].parent
    BY <2>2 DEF Mended, WithoutParent, Item
  <2>5. Acyclic(DependencyEdges(Mended)) /\ Acyclic(ParentEdges(Mended))
    BY <2>1, <2>4, FewerParents
  <2>6. \A i \in DOMAIN active :
           i \notin Mended[i].dependencies /\ (Mended[i].parent = i => i = None)
    BY <2>4, <2>5, NoSelfReference
  <2>7. \A i \in DOMAIN active : Mended[i].parent \in DOMAIN active \cup {None}
    BY <1>1, <2>4, ActiveRecords DEF Orphans
  <2>8. EdgesLead(Mended)
    BY <2>1, <2>4, <2>6, <2>7 DEF EdgesLead
  <2> QED
    BY <2>1, <2>3, <2>4, <2>5, <2>8
       DEF StrictSnapshot, UniqueIdentities, ParentCycleFree, DependencyCycleFree
<1>2. CommitInv => EditsMendRefusal
  BY <1>1 DEF EditsMendRefusal
<1> QED
  BY <1>2, CommitInvariant, PTL

-----------------------------------------------------------------------------
(***************************************************************************)
(* Single steps.                                                           *)
(***************************************************************************)
(* A command writes nothing before it holds the lock and has its commit. *)
LEMMA CommandsWriteNothing ==
  ASSUME NEW p \in Procs, Command(p) \/ \E request \in Requests : ApplyGraph(p, request)
  PROVE  UNCHANGED files
<1>1. ASSUME NEW c, Begin(p, c) PROVE UNCHANGED files
  BY <1>1 DEF Begin
<1>2. ASSUME NEW new, SaveActive(p, new) PROVE UNCHANGED files
  BY <1>1, <1>2 DEF SaveActive
<1>3. ASSUME NEW i, NEW item, CommitStatusChange(p, i, item) \/ CommitDone(p, i, item)
      PROVE  UNCHANGED files
  BY <1>1, <1>3 DEF CommitStatusChange, CommitDone
<1>4. ASSUME NEW i \in Ids, NEW deps \in SUBSET Ids, NEW parent \in Ids \cup {None},
             Add(p, i, deps, parent) \/ Edit(p, i, deps, parent)
      PROVE  UNCHANGED files
  BY <1>2, <1>4 DEF Add, Edit
<1>5. ASSUME NEW i \in Ids, NEW claim \in Agents \cup {None},
             Do(p, i, claim) \/ Claim(p, i, claim)
      PROVE  UNCHANGED files
  BY <1>2, <1>3, <1>5 DEF Do, Claim
<1>6. ASSUME NEW i \in Ids,
             Rm(p, i) \/ Todo(p, i) \/ Block(p, i) \/ Unblock(p, i) \/ Done(p, i)
      PROVE  UNCHANGED files
  BY <1>2, <1>3, <1>6 DEF Rm, Todo, Block, Unblock, Done
<1>7. ASSUME NEW request \in Requests, ApplyGraph(p, request) PROVE UNCHANGED files
  BY <1>1, <1>7 DEF ApplyGraph
<1> QED
  BY <1>4, <1>5, <1>6, <1>7 DEF Command

(* tasks.jsonl changes only by its rewrite, which is one of the changes of *)
(* Rewrite, and archive.jsonl only by an append of the task of a done.     *)
LEMMA FileSteps ==
  ASSUME CommitInv, [Next \/ ApplyNext]_vars
  PROVE  \/ active' = active /\ archive' = archive
         \/ Rewrite(active') /\ archive' = archive
         \/ /\ active' = active
            /\ \E i \in DOMAIN active :
                  DOMAIN archive' = DOMAIN archive \cup {i} /\ NewestEvent(i) = "done"
<1>1. ASSUME NEW p \in Procs, Command(p) \/ \E request \in Requests : ApplyGraph(p, request)
      PROVE  active' = active /\ archive' = archive
  BY <1>1, CommandsWriteNothing DEF files
<1>2. ASSUME NEW p \in Procs, WriteTasks(p)
      PROVE  Rewrite(active') /\ archive' = archive
  <2>1. active' = job[p].tasks /\ archive' = archive
    BY <1>2 DEF WriteTasks
  <2> QED
    BY <1>2, <2>1, WriteTasksRewrites
<1>3. ASSUME NEW p \in Procs, AppendToArchive(p)
      PROVE  /\ active' = active
             /\ \E i \in DOMAIN active :
                   DOMAIN archive' = DOMAIN archive \cup {i} /\ NewestEvent(i) = "done"
  <2>1. /\ lock = p /\ job[p].stage = "archive" /\ active' = active
        /\ DOMAIN archive' = DOMAIN archive \cup {job[p].id}
    BY <1>3 DEF AppendToArchive, At, PutItem
  <2>2. Effect(job[p]) /\ job[p].kind = "done"
    BY <2>1, HolderCommit DEF InProgress, Pending, WellFormed, Kind
  <2>3. job[p].id \in DOMAIN active /\ NewestEvent(job[p].id) = "done"
    BY <2>1, <2>2 DEF Effect, DoneEffect, Pending
  <2> QED
    BY <2>1, <2>3
<1>4. ASSUME NEW p \in Procs,
             AppendEvent(p) \/ CopyEvents(p) \/ ClearEvents(p) \/ Crash(p)
      PROVE  active' = active /\ archive' = archive
  BY <1>4 DEF AppendEvent, CopyEvents, ClearEvents, Crash, files
<1>5. CASE UNCHANGED vars
  BY <1>5 DEF vars
<1> QED
  BY <1>1, <1>2, <1>3, <1>4, <1>5 DEF Next, ApplyNext, Write

(* The event log changes only for the task of a commit whose tasks.jsonl   *)
(* is not yet written, or behind a done, where what is read stays the      *)
(* same.                                                                   *)
LEMMA EventSteps ==
  ASSUME CommitInv, [Next \/ ApplyNext]_vars, NEW i \in Ids,
         NewestEvent(i)' # NewestEvent(i)
  PROVE  NewestEvent(i)' # None /\ i \in DOMAIN active
<1>1. CASE events' = events /\ events_archive' = events_archive
  BY <1>1 DEF NewestEvent
<1>2. ASSUME NEW p \in Procs, AppendEvent(p)
      PROVE  NewestEvent(i)' # None /\ i \in DOMAIN active
  <2>1. /\ lock = p /\ job[p].stage = "event" /\ events_archive' = events_archive
        /\ events' = [events EXCEPT ![job[p].id] = job[p].item.status]
    BY <1>2 DEF AppendEvent, At
  <2>2. /\ Effect(job[p]) /\ WellFormed(job[p])
        /\ job[p].kind \in {"status", "done"}
    BY <2>1, HolderCommit DEF InProgress, WellFormed, Kind
  <2>3. job[p].id \in DOMAIN active /\ job[p].item \in Item
    BY <2>1, <2>2 DEF Effect, StatusEffect, DoneEffect, Pending, WellFormed
  <2>4. events \in [Ids -> Status \cup {None}]
    BY DEF CommitInv, StoreInv, TypeOK
  <2>5. i = job[p].id
    BY <2>1, <2>4 DEF NewestEvent
  <2>6. job[p].item.status # None
    BY <2>3, NoneIsFresh DEF Item
  <2>7. events'[i] = job[p].item.status
    BY <2>1, <2>4, <2>5
  <2> QED
    BY <2>3, <2>5, <2>6, <2>7 DEF NewestEvent
<1>3. ASSUME NEW p \in Procs, CopyEvents(p)
      PROVE  NewestEvent(i)' = NewestEvent(i)
  <2>1. events_archive \in [Ids -> Status \cup {None}]
    BY DEF CommitInv, StoreInv, TypeOK
  <2> QED
    BY <1>3, <2>1 DEF CopyEvents, NewestEvent
<1>4. ASSUME NEW p \in Procs, ClearEvents(p)
      PROVE  NewestEvent(i)' = NewestEvent(i)
  <2>1. /\ lock = p /\ job[p].stage = "clear" /\ events_archive' = events_archive
        /\ events' = [events EXCEPT ![job[p].id] = None]
    BY <1>4 DEF ClearEvents, At
  <2>2. Effect(job[p]) /\ job[p].kind = "done"
    BY <2>1, HolderCommit DEF InProgress, WellFormed, Kind
  <2>3. /\ events_archive[job[p].id] = events[job[p].id]
        /\ events \in [Ids -> Status \cup {None}]
    BY <2>1, <2>2 DEF Effect, DoneEffect, CommitInv, StoreInv, TypeOK
  <2> QED
    BY <2>1, <2>3 DEF NewestEvent
<1>5. ASSUME NEW p \in Procs,
             \/ Command(p) \/ WriteTasks(p) \/ AppendToArchive(p) \/ Crash(p)
             \/ \E request \in Requests : ApplyGraph(p, request)
      PROVE  events' = events /\ events_archive' = events_archive
  BY <1>5, CommandsWriteNothing DEF files, Crash, WriteTasks, AppendToArchive
<1>6. CASE UNCHANGED vars
  BY <1>1, <1>6 DEF vars
<1> QED
  BY <1>1, <1>2, <1>3, <1>4, <1>5, <1>6 DEF Next, ApplyNext, Write

(* A process takes a step of the store only if the lock is free or its     *)
(* own, and touches no commit of another.                                  *)
LEMMA StepIsOwn ==
  ASSUME TypeOK, NEW p \in Procs, Command(p) \/ Write(p) \/ Crash(p)
  PROVE  /\ lock \in {None, p} /\ lock' \in {None, p}
         /\ \A q \in Procs \ {p} : job'[q] = job[q]
<1> DEFINE Own == /\ lock \in {None, p} /\ lock' \in {None, p}
                  /\ \A q \in Procs \ {p} : job'[q] = job[q]
<1>0. DOMAIN job = Procs
  BY DEF TypeOK
<1>1. ASSUME NEW c, Begin(p, c) PROVE Own
  BY <1>0, <1>1 DEF Begin
<1>2. ASSUME NEW new, SaveActive(p, new) PROVE Own
  BY <1>1, <1>2 DEF SaveActive
<1>3. ASSUME NEW i, NEW item, CommitStatusChange(p, i, item) \/ CommitDone(p, i, item)
      PROVE  Own
  BY <1>1, <1>3 DEF CommitStatusChange, CommitDone
<1>4. ASSUME lock = p, Advance(p) \/ Release(p) PROVE Own
  BY <1>0, <1>4 DEF Advance, Release
<1> HIDE DEF Own
<1>5. ASSUME NEW i \in Ids, NEW deps \in SUBSET Ids, NEW parent \in Ids \cup {None},
             Add(p, i, deps, parent) \/ Edit(p, i, deps, parent)
      PROVE  Own
  BY <1>2, <1>5 DEF Add, Edit
<1>6. ASSUME NEW i \in Ids, NEW claim \in Agents \cup {None},
             Do(p, i, claim) \/ Claim(p, i, claim)
      PROVE  Own
  BY <1>2, <1>3, <1>6 DEF Do, Claim
<1>7. ASSUME NEW i \in Ids,
             Rm(p, i) \/ Todo(p, i) \/ Block(p, i) \/ Unblock(p, i) \/ Done(p, i)
      PROVE  Own
  BY <1>2, <1>3, <1>7 DEF Rm, Todo, Block, Unblock, Done
<1>8. ASSUME Write(p) \/ Crash(p) PROVE Own
  BY <1>4, <1>8
     DEF Write, AppendEvent, AppendToArchive, WriteTasks, CopyEvents, ClearEvents, Crash, At
<1>9. Own
  BY <1>5, <1>6, <1>7, <1>8 DEF Command
<1> QED
  BY <1>9 DEF Own

(* A claim is never overwritten by another agent's (ClaimNeverStolen). *)
THEOREM ClaimsAreKept == GraphApplySpec => ClaimNeverStolen
<1>1. ASSUME CommitInv, [Next \/ ApplyNext]_vars
      PROVE  [ \A i \in DOMAIN active \cap DOMAIN active' :
                 active[i].claimed_by # None =>
                   active'[i].claimed_by \in {active[i].claimed_by, None} ]_vars
  BY <1>1, FileSteps DEF Rewrite
<1> QED
  BY <1>1, CommitInvariant, PTL DEF GraphApplySpec, ClaimNeverStolen

(* No write gives a task a status before the event that announces it is in *)
(* the log (EventPrecedesStatus).                                          *)
THEOREM EventsComeFirst == GraphApplySpec => EventPrecedesStatus
<1>1. ASSUME CommitInv, [Next \/ ApplyNext]_vars
      PROVE  [ /\ \A i \in DOMAIN active \cap DOMAIN active' :
                    active'[i].status # active[i].status => active'[i].status = NewestEvent(i)
               /\ \A i \in DOMAIN archive' \ DOMAIN archive : NewestEvent(i) = "done" ]_vars
  BY <1>1, FileSteps DEF Rewrite
<1> QED
  BY <1>1, CommitInvariant, PTL DEF GraphApplySpec, EventPrecedesStatus

(* A task's history never shrinks, through every half of the move to       *)
(* events.archive.jsonl, and changes only while the task is active.        *)
THEOREM HistoryOnlyGrows == GraphApplySpec => HistoryKept
<1>1. ASSUME CommitInv, [Next \/ ApplyNext]_vars
      PROVE  [ \A i \in Ids : NewestEvent(i)' # NewestEvent(i) =>
                 NewestEvent(i)' # None /\ i \in DOMAIN active ]_vars
  BY <1>1, EventSteps
<1> QED
  BY <1>1, CommitInvariant, PTL DEF GraphApplySpec, HistoryKept

-----------------------------------------------------------------------------
(***************************************************************************)
(* What was asked for.  RequestInv holds beside CommitInv: a save under    *)
(* way removes and creates what its command was asked to, and then so does *)
(* the write that is all that is left of it.                               *)
(***************************************************************************)
(* The history variable allows no step that the store does not. *)
LEMMA RequestStep == [RequestNext]_requestVars => [Next \/ ApplyNext]_vars
<1>1. ASSUME NEW p \in Procs, AskNewItems(p) PROVE Next \/ ApplyNext
  BY <1>1 DEF AskNewItems, AskAdd, AskApply, Next, Command, ApplyNext
<1>2. ASSUME NEW p \in Procs, NEW i \in Ids, AskRm(p, i) PROVE Next
  BY <1>2 DEF AskRm, Next, Command
<1>3. ASSUME NEW p \in Procs, AskChange(p) PROVE Next
  BY <1>3 DEF AskChange, ChangeItem, Next, Command
<1>4. ASSUME NEW p \in Procs, GoOn(p) PROVE Next
  BY <1>4 DEF GoOn, Next
<1>5. ASSUME UNCHANGED requestVars PROVE UNCHANGED vars
  BY <1>5 DEF requestVars, vars
<1> QED
  BY <1>1, <1>2, <1>3, <1>4, <1>5 DEF RequestNext

(* So what was proved of the store holds. *)
LEMMA RequestCommits == RequestSpec => []CommitInv
<1>1. RequestInit => Init
  BY DEF RequestInit
<1> QED
  BY <1>1, RequestStep, InitCommit, NextCommit, PTL DEF RequestSpec

(* A command that takes on a commit; a save must answer its request. *)
LEMMA BeginAnswers ==
  ASSUME CommitInv, NEW p \in Procs, NEW c, Begin(p, c), IsRequest(asked)',
         job'[p].kind = "save" => Answers(job[p])'
  PROVE  RequestInv'
<1>1. lock = None /\ \A q \in Procs \ {p} : job'[q] = job[q]
  BY DEF Begin, CommitInv, StoreInv, TypeOK
<1>2. \A q \in Procs : job[q].stage = "idle"
  BY <1>1, NoneIsNoProc DEF CommitInv, StoreInv, LockProtects, InProgress
<1>3. \A q \in Procs \ {p} : ~InProgress(q)'
  BY <1>1, <1>2 DEF InProgress
<1> QED
  BY <1>3 DEF RequestInv

(* save_active of new content, compared with the request. *)
LEMMA SaveAnswers ==
  ASSUME CommitInv, NEW p \in Procs, NEW new, SaveActive(p, new), IsRequest(asked)',
         DOMAIN active \ DOMAIN new \subseteq asked'.removes,
         \/ DOMAIN new \subseteq DOMAIN active
         \/ /\ DOMAIN new \ DOMAIN active = DOMAIN asked'.creates
            /\ \A i \in DOMAIN asked'.creates :
                  new[i] = NewItem(asked'.creates[i].dependencies, asked'.creates[i].parent)
  PROVE  RequestInv'
<1> DEFINE c == [NoJob EXCEPT !.stage = "tasks", !.tasks = new]
<1>1. Begin(p, c)
  BY DEF SaveActive
<1>2. job'[p].tasks = new /\ active' = active
  BY <1>1 DEF Begin, files, NoJob, CommitInv, StoreInv, TypeOK
<1>3. Answers(job[p])'
  BY <1>2 DEF Answers
<1> HIDE DEF c
<1> QED
  BY <1>1, <1>3, BeginAnswers

(* tg rm. *)
LEMMA RmAnswers ==
  ASSUME CommitInv, NEW p \in Procs, NEW i \in Ids, AskRm(p, i)
  PROVE  RequestInv'
<1>1. SaveActive(p, RemoveItem(active, i)) /\ asked'.removes = {i}
  BY DEF AskRm, Rm, NoRequest
<1>2. asked'.creates = [j \in {} |-> None]
  BY DEF AskRm, NoRequest
<1>3. IsRequest(asked)'
  BY <1>1, <1>2 DEF IsRequest
<1>4. DOMAIN RemoveItem(active, i) = DOMAIN active \ {i}
  BY DEF RemoveItem
<1> QED
  BY <1>1, <1>3, <1>4, SaveAnswers

(* tg add. *)
LEMMA AddAnswers ==
  ASSUME CommitInv, NEW p \in Procs, NEW i \in Ids, NEW deps \in SUBSET Ids,
         NEW parent \in Ids \cup {None}, AskAdd(p, i, deps, parent)
  PROVE  RequestInv'
<1> DEFINE base == PutItem(active, i, NewItem(deps, None))
           new == [base EXCEPT ![i].parent = parent]
<1>1. i \notin DOMAIN active /\ SaveActive(p, new)
  BY DEF AskAdd, Add, Known
<1>2. /\ asked'.removes = {}
      /\ DOMAIN asked'.creates = {i}
      /\ asked'.creates[i] = [dependencies |-> deps, parent |-> parent]
  BY DEF AskAdd, NoRequest
<1>3. IsRequest(asked)'
  BY <1>2 DEF IsRequest, RequestItem
<1>4. DOMAIN base = DOMAIN active \cup {i} /\ base[i] = NewItem(deps, None)
  BY DEF PutItem
<1>5. new = [base EXCEPT ![i] = [base[i] EXCEPT !.parent = parent]]
  OBVIOUS
<1>6. [NewItem(deps, None) EXCEPT !.parent = parent] = NewItem(deps, parent)
  BY DEF NewItem
<1> HIDE DEF base, new
<1>7. DOMAIN new = DOMAIN active \cup {i} /\ new[i] = NewItem(deps, parent)
  BY <1>4, <1>5, <1>6
<1> QED
  BY <1>1, <1>2, <1>3, <1>7, SaveAnswers

(* tg apply. *)
LEMMA ApplyAnswers ==
  ASSUME CommitInv, NEW p \in Procs, NEW request \in Requests, AskApply(p, request)
  PROVE  RequestInv'
<1> DEFINE new == ProposedActive(request)
<1>1. SaveActive(p, new) /\ DOMAIN request \cap DOMAIN active = {}
  BY ApplyGraphIsSafeSave DEF AskApply, ApplyGraph, FreshIds, Known
<1>2. asked'.removes = {} /\ asked'.creates = request
  BY DEF AskApply, NoRequest
<1>3. PICK S \in SUBSET FreshIds : request \in [S -> RequestItem]
  BY DEF Requests
<1>4. IsRequest(asked)'
  BY <1>2, <1>3 DEF IsRequest, FreshIds
<1>5. \A i \in DOMAIN request : new[i] = NewItem(request[i].dependencies, request[i].parent)
  BY ProposedType DEF CommitInv, StoreInv, TypeOK
<1>6. DOMAIN new = DOMAIN active \cup DOMAIN request
  BY DEF ProposedActive
<1> HIDE DEF new
<1> QED
  BY <1>1, <1>2, <1>4, <1>5, <1>6, SaveAnswers

(* The other commands neither add an item to tasks.jsonl by a save nor     *)
(* remove one.                                                             *)
LEMMA ChangeAnswers ==
  ASSUME CommitInv, NEW p \in Procs, AskChange(p)
  PROVE  RequestInv'
<1>1. asked' = NoRequest /\ IsRequest(asked)'
  BY DEF AskChange, IsRequest, NoRequest
<1>2. ASSUME NEW new, SaveActive(p, new), DOMAIN new = DOMAIN active PROVE RequestInv'
  BY <1>1, <1>2, SaveAnswers
<1>3. ASSUME NEW i \in Ids, NEW item,
             CommitStatusChange(p, i, item) \/ CommitDone(p, i, item)
      PROVE  RequestInv'
  <2>1. PICK c : Begin(p, c) /\ c.kind # "save"
    BY <1>3 DEF CommitStatusChange, CommitDone
  <2>2. job'[p] = c
    BY <2>1 DEF Begin, CommitInv, StoreInv, TypeOK
  <2> QED
    BY <1>1, <2>1, <2>2, BeginAnswers
<1>4. ASSUME NEW i \in Ids, NEW deps \in SUBSET Ids, NEW parent \in Ids \cup {None},
             Edit(p, i, deps, parent)
      PROVE  RequestInv'
  BY <1>2, <1>4 DEF Edit
<1>5. ASSUME NEW i \in Ids, NEW claim \in Agents, Claim(p, i, claim) PROVE RequestInv'
  BY <1>2, <1>5 DEF Claim
<1>6. ASSUME NEW i \in Ids, NEW claim \in Agents \cup {None}, Do(p, i, claim)
      PROVE  RequestInv'
  BY <1>3, <1>6 DEF Do
<1>7. ASSUME NEW i \in Ids, Todo(p, i) \/ Block(p, i) \/ Unblock(p, i) \/ Done(p, i)
      PROVE  RequestInv'
  BY <1>3, <1>7 DEF Todo, Block, Unblock, Done
<1> QED
  BY <1>4, <1>5, <1>6, <1>7 DEF AskChange, ChangeItem

(* The write of a save is its only one: no save is under way after a write *)
(* or a crash.                                                             *)
LEMMA GoOnAnswers ==
  ASSUME CommitInv, RequestInv, NEW p \in Procs, GoOn(p)
  PROVE  RequestInv'
<1>1. IsRequest(asked)'
  BY DEF GoOn, RequestInv, IsRequest, NoRequest
<1>2. lock = p /\ (Advance(p) \/ Release(p)) /\ DOMAIN job = Procs
  BY DEF GoOn, Write, AppendEvent, AppendToArchive, WriteTasks, CopyEvents, ClearEvents,
         Crash, At, CommitInv, StoreInv, TypeOK
<1>3. /\ \A q \in Procs \ {p} : job[q].stage = "idle"
      /\ WellFormed(job[p])
  BY <1>2, OthersIdle DEF CommitInv, StoreInv, JobsOK
<1>4. /\ \A q \in Procs \ {p} : job'[q] = job[q]
      /\ \/ job'[p] = NoJob
         \/ /\ job'[p] = [job[p] EXCEPT !.stage = NextStage(job[p].kind, job[p].stage)]
            /\ NextStage(job[p].kind, job[p].stage) # "idle"
  BY <1>2 DEF Advance, Release
<1>5. ASSUME NEW q \in Procs, job'[q].kind = "save" PROVE ~InProgress(q)'
  <2>1. CASE q # p
    BY <2>1, <1>3, <1>4 DEF InProgress
  <2>2. CASE q = p /\ job'[p] = NoJob
    BY <2>2 DEF InProgress, NoJob
  <2>3. CASE q = p /\ job'[p] # NoJob
    <3>1. job[p].kind = "save" /\ NextStage(job[p].kind, job[p].stage) # "idle"
      BY <2>3, <1>4, <1>5 DEF CommitInv, StoreInv, TypeOK, IsJob
    <3>2. NextStage("save", job[p].stage) = "idle"
      BY <3>1, <1>3 DEF WellFormed, NextStage
    <3> QED
      BY <3>1, <3>2
  <2> QED
    BY <2>1, <2>2, <2>3
<1> QED
  BY <1>1, <1>5 DEF RequestInv

(* A save under way answers its request. *)
LEMMA RequestsAnswered == RequestSpec => [](CommitInv /\ RequestInv)
<1>1. RequestInit => RequestInv
  BY DEF RequestInit, Init, RequestInv, IsRequest, NoRequest, InProgress, NoJob
<1>2. ASSUME CommitInv, RequestInv, UNCHANGED requestVars PROVE RequestInv'
  BY <1>2 DEF requestVars, RequestInv, IsRequest, Answers, InProgress
<1>3. CommitInv /\ RequestInv /\ [RequestNext]_requestVars => RequestInv'
  BY <1>2, RmAnswers, AddAnswers, ApplyAnswers, ChangeAnswers, GoOnAnswers
     DEF RequestNext, AskNewItems
<1> QED
  BY <1>1, <1>3, RequestCommits, PTL DEF RequestSpec

(* tasks.jsonl changes only by its rewrite. *)
LEMMA TasksChange ==
  ASSUME [Next \/ ApplyNext]_vars, active' # active
  PROVE  \E p \in Procs : WriteTasks(p)
<1>1. ASSUME NEW p \in Procs, Command(p) \/ \E request \in Requests : ApplyGraph(p, request)
      PROVE  FALSE
  BY <1>1, CommandsWriteNothing DEF files
<1>2. ASSUME NEW p \in Procs,
             AppendEvent(p) \/ AppendToArchive(p) \/ CopyEvents(p) \/ ClearEvents(p) \/ Crash(p)
      PROVE  FALSE
  BY <1>2 DEF AppendEvent, AppendToArchive, CopyEvents, ClearEvents, Crash, files
<1>3. CASE UNCHANGED vars
  BY <1>3 DEF vars
<1> QED
  BY <1>1, <1>2, <1>3 DEF Next, ApplyNext, Write

(* A rewrite that adds an item, or takes one out that is not archived, is  *)
(* that of a save.                                                         *)
LEMMA OnlySavesAddOrRemove ==
  ASSUME CommitInv, NEW p \in Procs, WriteTasks(p)
  PROVE  /\ active' = job[p].tasks /\ InProgress(p)
         /\ \/ job[p].kind = "save"
            \/ /\ DOMAIN active' \subseteq DOMAIN active
               /\ DOMAIN active \ DOMAIN active' \subseteq DOMAIN archive
<1>1. lock = p /\ job[p].stage = "tasks" /\ active' = job[p].tasks /\ InProgress(p)
  BY DEF WriteTasks, At, InProgress
<1>2. Effect(job[p]) /\ job[p].kind \in Kind
  BY <1>1, HolderCommit
<1>3. CASE job[p].kind = "status"
  <2>1. job[p].id \in DOMAIN active /\ job[p].tasks = PutItem(active, job[p].id, job[p].item)
    BY <1>2, <1>3 DEF Effect, StatusEffect
  <2>2. DOMAIN active' = DOMAIN active
    BY <1>1, <2>1 DEF PutItem
  <2> QED
    BY <1>1, <2>2
<1>4. CASE job[p].kind = "done"
  <2>1. job[p].id \in DOMAIN archive /\ job[p].tasks = RemoveItem(active, job[p].id)
    BY <1>1, <1>2, <1>4 DEF Effect, DoneEffect, Pending
  <2>2. DOMAIN active' = DOMAIN active \ {job[p].id}
    BY <1>1, <2>1 DEF RemoveItem
  <2> QED
    BY <1>1, <2>1, <2>2
<1> QED
  BY <1>1, <1>2, <1>3, <1>4 DEF Kind

(* No write loses a task: what leaves both files is what an rm was asked   *)
(* to remove, and at that very write nothing active depends on it or has   *)
(* it as parent (NoTaskLost).                                              *)
THEOREM TasksAreKept == RequestSpec => NoTaskLost
<1>1. ASSUME CommitInv, RequestInv, [RequestNext]_requestVars, NEW i \in Known \ Known'
      PROVE  /\ i \in asked.removes
             /\ ActiveDependents(active, i) = {}
             /\ ActiveChildren(active, i) = {}
  <2>1. [Next \/ ApplyNext]_vars
    BY <1>1, RequestStep
  <2>2. Rewrite(active') /\ archive' = archive /\ active' # active
    <3>1. CASE active' = active /\ DOMAIN archive \subseteq DOMAIN archive'
      BY <3>1, <1>1 DEF Known
    <3> QED
      BY <1>1, <2>1, <3>1, FileSteps DEF Known
  <2>3. i \in DOMAIN active \ DOMAIN active' /\ i \notin DOMAIN archive
    BY <1>1, <2>2 DEF Known
  <2>4. ActiveDependents(active, i) = {} /\ ActiveChildren(active, i) = {}
    BY <2>2, <2>3 DEF Rewrite
  <2>5. PICK p \in Procs : WriteTasks(p)
    BY <2>1, <2>2, TasksChange
  <2>6. active' = job[p].tasks /\ InProgress(p) /\ job[p].kind = "save"
    BY <1>1, <2>3, <2>5, OnlySavesAddOrRemove
  <2>7. Answers(job[p])
    BY <1>1, <2>6 DEF RequestInv
  <2> QED
    BY <2>3, <2>4, <2>6, <2>7 DEF Answers
<1>2. CommitInv /\ RequestInv /\ [RequestNext]_requestVars
        => [ \A i \in Known \ Known' :
               /\ i \in asked.removes
               /\ ActiveDependents(active, i) = {}
               /\ ActiveChildren(active, i) = {} ]_requestVars
  BY <1>1
<1> QED
  BY <1>2, RequestsAnswered, PTL DEF RequestSpec, NoTaskLost

(* What is added to tasks.jsonl is one whole request, each item with the   *)
(* relations that were asked for, every edge leading to an item, and the   *)
(* items that were there stay as they are (GraphIsWhole).                  *)
THEOREM GraphsAreWhole == RequestSpec => GraphIsWhole
<1> DEFINE new == DOMAIN active' \ DOMAIN active
           Whole ==
             /\ new = DOMAIN asked.creates
             /\ \A i \in new :
                   /\ active'[i] = NewItem(asked.creates[i].dependencies, asked.creates[i].parent)
                   /\ asked.creates[i].dependencies \subseteq DOMAIN active' \cup DOMAIN archive
                   /\ asked.creates[i].parent \in DOMAIN active' \cup {None}
             /\ \A i \in DOMAIN active : i \in DOMAIN active' /\ active'[i] = active[i]
<1>1. ASSUME CommitInv, CommitInv', RequestInv, [RequestNext]_requestVars, new # {}
      PROVE  Whole
  <2>1. [Next \/ ApplyNext]_vars
    BY <1>1, RequestStep
  <2>2. AddsItems(active') /\ archive' = archive
    BY <1>1, <2>1, FileSteps DEF Rewrite
  <2>3. PICK p \in Procs : WriteTasks(p)
    BY <1>1, <2>1, TasksChange
  <2>4. active' = job[p].tasks /\ InProgress(p) /\ job[p].kind = "save"
    BY <1>1, <2>3, OnlySavesAddOrRemove
  <2>5. Answers(job[p])
    BY <1>1, <2>4 DEF RequestInv
  <2>6. /\ new = DOMAIN asked.creates
        /\ \A i \in new :
              active'[i] = NewItem(asked.creates[i].dependencies, asked.creates[i].parent)
    BY <1>1, <2>4, <2>5 DEF Answers
  <2>7. \A i \in DOMAIN active' : active'[i].dependencies \subseteq DOMAIN active' \cup DOMAIN archive
    BY <1>1, <2>2 DEF CommitInv, StoreInv, FilesOK, DependenciesResolve, Known
  <2>8. \A i \in new : active'[i].parent \in DOMAIN active' \cup {None}
    BY <2>2 DEF AddsItems
  <2>9. \A i \in new : /\ active'[i].dependencies = asked.creates[i].dependencies
                      /\ active'[i].parent = asked.creates[i].parent
    BY <2>6 DEF NewItem
  <2>10. \A i \in DOMAIN active : i \in DOMAIN active' /\ active'[i] = active[i]
    BY <2>2 DEF AddsItems
  <2> QED
    BY <2>6, <2>7, <2>8, <2>9, <2>10
<1>2. CommitInv /\ CommitInv' /\ RequestInv /\ [RequestNext]_requestVars
        => [new # {} => Whole]_requestVars
  BY <1>1
<1> QED
  BY <1>2, RequestsAnswered, PTL DEF RequestSpec, GraphIsWhole

-----------------------------------------------------------------------------
(***************************************************************************)
(* The store implements the board: every behavior of its files, with tg    *)
(* apply among the commands and with any number of crashes, is a behavior  *)
(* of TaskBoard, where each command is one atomic step.  CommitInv carries *)
(* the argument, for it says which change the commit under way makes; what *)
(* is left is that the write which makes the change visible is that step.  *)
(***************************************************************************)
(* A record put into tasks.jsonl is put on the board. *)
LEMMA BoardPut ==
  ASSUME NEW f, NEW g, NEW i \in DOMAIN f \ DOMAIN g, NEW item
  PROVE  BoardOf(PutItem(f, i, item), g) = PutItem(BoardOf(f, g), i, item)
  BY DEF BoardOf, PutItem

(* So is a record put into archive.jsonl. *)
LEMMA BoardArchive ==
  ASSUME NEW f, NEW g, NEW i \in DOMAIN f \ DOMAIN g, NEW item
  PROVE  BoardOf(f, PutItem(g, i, item)) = PutItem(BoardOf(f, g), i, item)
  BY DEF BoardOf, PutItem

(* Leaving tasks.jsonl is leaving the board for an item that is not        *)
(* archived, and nothing for one that is.                                  *)
LEMMA BoardRemove ==
  ASSUME NEW f, NEW g, NEW i
  PROVE  BoardOf(RemoveItem(f, i), g) =
           IF i \in DOMAIN g THEN BoardOf(f, g) ELSE RemoveItem(BoardOf(f, g), i)
<1>1. CASE i \in DOMAIN g
  BY <1>1 DEF BoardOf, RemoveItem
<1>2. CASE i \notin DOMAIN g
  BY <1>2 DEF BoardOf, RemoveItem
<1> QED
  BY <1>1, <1>2

(* Archived tasks are the finished ones. *)
LEMMA BoardStatus ==
  ASSUME CommitInv
  PROVE  /\ DOMAIN BoardOf(active, archive) = Known
         /\ \A i \in DOMAIN active \ DOMAIN archive : BoardOf(active, archive)[i] = active[i]
         /\ Board!Unfinished = DOMAIN active \ DOMAIN archive
<1>1. /\ DOMAIN BoardOf(active, archive) = Known
      /\ \A i \in DOMAIN active \ DOMAIN archive : BoardOf(active, archive)[i] = active[i]
      /\ \A i \in DOMAIN archive : BoardOf(active, archive)[i] = archive[i]
  BY DEF BoardOf, Known
<1>2. \A i \in DOMAIN archive : archive[i].status = "done"
  BY DEF CommitInv, RecordsOK, ArchivedIsDone
<1>3. \A i \in DOMAIN active : active[i].status # "done"
  BY DEF CommitInv, RecordsOK, ClaimDiscipline
<1> QED
  BY <1>1, <1>2, <1>3 DEF Board!Unfinished, Known

(* Without an item in both files, the unfinished tasks are the active      *)
(* ones.                                                                   *)
LEMMA BoardWithoutSplit ==
  ASSUME CommitInv, Split = {}
  PROVE  /\ Board!Unfinished = DOMAIN active
         /\ Board!UnfinishedTasks = active
         /\ \A i \in DOMAIN active : BoardOf(active, archive)[i] = active[i]
<1>1. /\ Board!Unfinished = DOMAIN active
      /\ \A i \in DOMAIN active : BoardOf(active, archive)[i] = active[i]
  BY BoardStatus DEF Split
<1>2. active = [i \in DOMAIN active |-> active[i]]
  BY DEF CommitInv, StoreInv, TypeOK, IsItemFile
<1>3. Board!UnfinishedTasks = active
  BY <1>1, <1>2 DEF Board!UnfinishedTasks
<1> QED
  BY <1>1, <1>3

-----------------------------------------------------------------------------
(***************************************************************************)
(* The write that makes a change visible is a step of the board.           *)
(***************************************************************************)
(* tg do, todo, block and unblock. *)
LEMMA MoveIsStep ==
  ASSUME CommitInv, Split = {}, NEW i \in DOMAIN active, NEW item, Moves(active[i], item),
         active' = PutItem(active, i, item), archive' = archive
  PROVE  Board!Next
<1> DEFINE board == BoardOf(active, archive)
           old == active[i]
<1>1. /\ i \in Ids /\ old \in Item /\ Disciplined(old)
      /\ i \in Board!Unfinished /\ board[i] = old /\ i \in DOMAIN board
      /\ i \in DOMAIN active \ DOMAIN archive
  BY ActiveRecords, BoardWithoutSplit, BoardStatus DEF Known, Split
<1>2. board' = PutItem(board, i, item)
  BY <1>1, BoardPut
<1>3. board = [j \in DOMAIN board |-> board[j]]
  BY DEF BoardOf
<1> HIDE DEF board, old
<1>4. ASSUME old.status = "todo", NEW claim \in Agents \cup {None}, item = ApplyDo(old, claim)
      PROVE  Board!Start(i, claim)
  <2>1. old.claimed_by = None
    BY <1>1, <1>4 DEF Disciplined
  <2>2. item = [old EXCEPT !.status = "doing", !.claimed_by = claim]
    BY <1>1, <1>4, <2>1 DEF ApplyDo, Item
  <2>3. [board EXCEPT ![i].status = "doing", ![i].claimed_by = claim] =
          PutItem(board, i, [board[i] EXCEPT !.status = "doing", !.claimed_by = claim])
    BY <1>1, <1>3 DEF PutItem
  <2>4. board' = [board EXCEPT ![i].status = "doing", ![i].claimed_by = claim]
    BY <1>1, <1>2, <2>2, <2>3, Zenon
  <2> QED
    BY <1>1, <1>4, <2>4 DEF Board!Start, board
<1>5. ASSUME old.status = "doing", item = ApplyTodo(old)
      PROVE  Board!Return(i)
  <2>1. item = [old EXCEPT !.status = "todo", !.claimed_by = None]
    BY <1>5 DEF ApplyTodo
  <2>2. [board EXCEPT ![i].status = "todo", ![i].claimed_by = None] =
          PutItem(board, i, [board[i] EXCEPT !.status = "todo", !.claimed_by = None])
    BY <1>1, <1>3 DEF PutItem
  <2>3. board' = [board EXCEPT ![i].status = "todo", ![i].claimed_by = None]
    BY <1>1, <1>2, <2>1, <2>2, Zenon
  <2> QED
    BY <1>1, <1>5, <2>3 DEF Board!Return, board
<1>6. ASSUME old.status \in {"todo", "doing"}, item = ApplyBlock(old)
      PROVE  Board!Suspend(i)
  <2>1. old.claimed_by # None => old.status = "doing"
    BY <1>1 DEF Disciplined
  <2>2. item = [old EXCEPT !.status = "blocked", !.blocked_from_status = old.status,
                           !.claimed_by = None]
    BY <1>1, <1>6, <2>1 DEF ApplyBlock, Item
  <2>3. [board EXCEPT ![i].status = "blocked", ![i].blocked_from_status = board[i].status,
                      ![i].claimed_by = None] =
          PutItem(board, i, [board[i] EXCEPT !.status = "blocked",
                                             !.blocked_from_status = board[i].status,
                                             !.claimed_by = None])
    BY <1>1, <1>3 DEF PutItem
  <2>4. board' = [board EXCEPT ![i].status = "blocked", ![i].blocked_from_status = board[i].status,
                               ![i].claimed_by = None]
    BY <1>1, <1>2, <2>2, <2>3, Zenon
  <2> QED
    BY <1>1, <1>6, <2>4 DEF Board!Suspend, board
<1>7. ASSUME old.status = "blocked", item = ApplyUnblock(old)
      PROVE  Board!Resume(i)
  <2>1. old.blocked_from_status # None
    BY <1>1, <1>7, NoneIsFresh DEF Disciplined, Status
  <2>2. item = [old EXCEPT !.status = old.blocked_from_status, !.blocked_from_status = None]
    BY <1>1, <1>7, <2>1 DEF ApplyUnblock, Item
  <2>3. [board EXCEPT ![i].status = board[i].blocked_from_status,
                      ![i].blocked_from_status = None] =
          PutItem(board, i, [board[i] EXCEPT !.status = board[i].blocked_from_status,
                                             !.blocked_from_status = None])
    BY <1>1, <1>3 DEF PutItem
  <2>4. board' = [board EXCEPT ![i].status = board[i].blocked_from_status,
                               ![i].blocked_from_status = None]
    BY <1>1, <1>2, <2>2, <2>3, Zenon
  <2> QED
    BY <1>1, <1>7, <2>4 DEF Board!Resume, board
<1> QED
  BY <1>1, <1>4, <1>5, <1>6, <1>7 DEF Moves, Board!Next, old

(* tg done takes effect when the item is appended to archive.jsonl. *)
LEMMA FinishIsStep ==
  ASSUME CommitInv, NEW i \in DOMAIN active \ DOMAIN archive,
         active[i].status \in {"todo", "doing"},
         active' = active, archive' = PutItem(archive, i, ApplyDone(active[i]))
  PROVE  Board!Next
<1> DEFINE board == BoardOf(active, archive)
<1>1. /\ i \in Ids /\ i \in Board!Unfinished /\ board[i] = active[i] /\ i \in DOMAIN board
  BY ActiveRecords, BoardStatus DEF Known
<1>2. board' = PutItem(board, i, ApplyDone(active[i]))
  BY BoardArchive
<1>3. board = [j \in DOMAIN board |-> board[j]]
  BY DEF BoardOf
<1> HIDE DEF board
<1>4. [board EXCEPT ![i].status = "done", ![i].claimed_by = None] =
        PutItem(board, i, [board[i] EXCEPT !.status = "done", !.claimed_by = None])
  BY <1>1, <1>3 DEF PutItem
<1>5. board' = [board EXCEPT ![i].status = "done", ![i].claimed_by = None]
  BY <1>1, <1>2, <1>4, Zenon DEF ApplyDone
<1>6. Board!Finish(i)
  BY <1>1, <1>5 DEF Board!Finish, board
<1> QED
  BY <1>1, <1>6 DEF Board!Next

(* tg do --claim of a task that is already doing. *)
LEMMA ClaimIsStep ==
  ASSUME CommitInv, Split = {}, ClaimsItem(active'), archive' = archive
  PROVE  Board!Next
<1> DEFINE board == BoardOf(active, archive)
<1>1. PICK i \in DOMAIN active, claim \in Agents :
        /\ active[i].status = "doing"
        /\ active[i].claimed_by \in {None, claim}
        /\ active' = PutItem(active, i, [active[i] EXCEPT !.claimed_by = claim])
  BY DEF ClaimsItem
<1>2. /\ i \in Ids /\ active[i] \in Item
      /\ i \in Board!Unfinished /\ board[i] = active[i] /\ i \in DOMAIN board
      /\ i \in DOMAIN active \ DOMAIN archive
  BY ActiveRecords, BoardWithoutSplit, BoardStatus DEF Known, Split
<1>3. board' = PutItem(board, i, [active[i] EXCEPT !.claimed_by = claim])
  BY <1>1, <1>2, BoardPut
<1>4. board = [j \in DOMAIN board |-> board[j]]
  BY DEF BoardOf
<1> HIDE DEF board
<1>5. [active[i] EXCEPT !.claimed_by = claim] =
        [active[i] EXCEPT !.status = "doing", !.claimed_by = claim]
  BY <1>1, <1>2 DEF Item
<1>6. [board EXCEPT ![i].status = "doing", ![i].claimed_by = claim] =
        PutItem(board, i, [board[i] EXCEPT !.status = "doing", !.claimed_by = claim])
  BY <1>2, <1>4 DEF PutItem
<1>7. board' = [board EXCEPT ![i].status = "doing", ![i].claimed_by = claim]
  BY <1>2, <1>3, <1>5, <1>6, Zenon
<1>8. Board!Start(i, claim)
  BY <1>1, <1>2, <1>7 DEF Board!Start, board
<1> QED
  BY <1>2, <1>8 DEF Board!Next

(* The board speaks of the same relations as the files. *)
LEMMA BoardGraph ==
  ASSUME NEW f
  PROVE  /\ Board!Acyclic(Board!DependencyEdges(f)) <=> Acyclic(DependencyEdges(f))
         /\ Board!Acyclic(Board!ParentEdges(f)) <=> Acyclic(ParentEdges(f))
  BY DEF Board!Acyclic, Board!DependencyEdges, Board!ParentEdges, Acyclic, DependencyEdges,
         ParentEdges

(* tg edit: what the store validated while it held the lock is true of the *)
(* board at the rename.                                                    *)
LEMMA ReviseIsStep ==
  ASSUME CommitInv, StoreInv', Split = {}, RevisesItem(active'), archive' = archive
  PROVE  Board!Next
<1> DEFINE board == BoardOf(active, archive)
<1>1. PICK i \in DOMAIN active, deps \in SUBSET Ids :
        \E parent \in DOMAIN active \cup {None, active[i].parent} :
           active' = PutItem(active, i, [active[i] EXCEPT !.dependencies = deps, !.parent = parent])
  BY DEF RevisesItem
<1>2. PICK parent \in DOMAIN active \cup {None, active[i].parent} :
        active' = PutItem(active, i, [active[i] EXCEPT !.dependencies = deps, !.parent = parent])
  BY <1>1
<1> DEFINE item == [active[i] EXCEPT !.dependencies = deps, !.parent = parent]
<1>3. /\ i \in Ids /\ active[i] \in Item
      /\ Board!Unfinished = DOMAIN active /\ Board!UnfinishedTasks = active
      /\ board[i] = active[i] /\ DOMAIN board = Known
      /\ i \in DOMAIN active \ DOMAIN archive
      /\ DOMAIN active \subseteq Ids
  BY ActiveRecords, BoardWithoutSplit, BoardStatus DEF Known, Split
<1>4. board' = PutItem(board, i, item)
  BY <1>2, <1>3, BoardPut
<1>5. [active EXCEPT ![i].dependencies = deps, ![i].parent = parent] = active'
  <2>1. active = [j \in DOMAIN active |-> active[j]]
    BY DEF CommitInv, StoreInv, TypeOK, IsItemFile
  <2> QED
    BY <1>2, <2>1 DEF PutItem
<1>6. active'[i] = item /\ item.dependencies = deps /\ DOMAIN active' = DOMAIN active
  BY <1>2, <1>3 DEF PutItem, Item
<1>7. deps \subseteq Known
  BY <1>3, <1>6 DEF StoreInv, FilesOK, DependenciesResolve, Known
<1>8. parent \in Ids \cup {None}
  BY <1>3 DEF Item
<1>9. Acyclic(DependencyEdges(active')) /\ Acyclic(ParentEdges(active'))
  BY DEF StoreInv, FilesOK, NoDependencyCycle, NoParentCycle
<1> HIDE DEF board, item
<1>10. Board!Revise(i, deps, parent)
  <2>1. /\ Board!Acyclic(Board!DependencyEdges(active'))
        /\ Board!Acyclic(Board!ParentEdges(active'))
    BY <1>9, BoardGraph
  <2>2. board' = Board!PutItem(board, i, active'[i])
    BY <1>4, <1>6 DEF PutItem, Board!PutItem
  <2>3. parent \in Board!Unfinished \cup {None, board[i].parent}
    BY <1>3
  <2> QED
    BY <1>3, <1>5, <1>7, <2>1, <2>2, <2>3 DEF Board!Revise, board
<1> QED
  BY <1>3, <1>8, <1>10 DEF Board!Next

(* tg rm.  Removing the active copy of an item that a crash left in both   *)
(* files takes nothing from the board.                                     *)
LEMMA RemoveIsStep ==
  ASSUME CommitInv, DOMAIN active' \cap DOMAIN archive = {}, RemovesItem(active'),
         archive' = archive
  PROVE  Board!Next \/ UNCHANGED BoardOf(active, archive)
<1> DEFINE board == BoardOf(active, archive)
<1>1. PICK i \in DOMAIN active :
        /\ ActiveChildren(active, i) = {}
        /\ ActiveDependents(active, i) = {}
        /\ active' = RemoveItem(active, i)
  BY DEF RemovesItem
<1>2. CASE i \in DOMAIN archive
  BY <1>1, <1>2, BoardRemove
<1>3. CASE i \notin DOMAIN archive
  <2>1. board' = RemoveItem(board, i)
    BY <1>1, <1>3, BoardRemove
  <2>2. Split = {}
    BY <1>1, <1>3 DEF Split, RemoveItem
  <2>3. /\ i \in Ids /\ Board!Unfinished = DOMAIN active /\ Board!UnfinishedTasks = active
    BY <2>2, ActiveRecords, BoardWithoutSplit
  <2>4. Board!ActiveDependents(active, i) = {} /\ Board!ActiveChildren(active, i) = {}
    BY <1>1 DEF ActiveDependents, ActiveChildren, Board!ActiveDependents, Board!ActiveChildren
  <2> HIDE DEF board
  <2>5. board' = Board!RemoveItem(board, i)
    BY <2>1 DEF RemoveItem, Board!RemoveItem
  <2>6. Board!Remove(i)
    BY <2>3, <2>4, <2>5 DEF Board!Remove, board
  <2> QED
    BY <2>3, <2>6 DEF Board!Next
<1> QED
  BY <1>2, <1>3

(* tg add and tg apply. *)
LEMMA CreateIsStep ==
  ASSUME CommitInv, StoreInv', Split = {}, AddsItems(active'), archive' = archive
  PROVE  Board!Next
<1> DEFINE board == BoardOf(active, archive)
           request == [i \in DOMAIN active' \ DOMAIN active |->
                         [dependencies |-> active'[i].dependencies, parent |-> active'[i].parent]]
<1>1. /\ \A i \in DOMAIN active : i \in DOMAIN active' /\ active'[i] = active[i]
      /\ \A i \in DOMAIN active' \ DOMAIN active :
            /\ i \notin DOMAIN archive
            /\ active'[i].parent \in DOMAIN active' \cup {None}
            /\ active'[i] = NewItem(active'[i].dependencies, active'[i].parent)
            /\ active'[i].dependencies \subseteq DOMAIN active' \cup DOMAIN archive
  BY DEF AddsItems, StoreInv, FilesOK, DependenciesResolve, Known
<1>2. /\ IsItemFile(active')
      /\ Acyclic(DependencyEdges(active')) /\ Acyclic(ParentEdges(active'))
  BY DEF StoreInv, TypeOK, FilesOK, NoDependencyCycle, NoParentCycle
<1>3. /\ Board!Unfinished = DOMAIN active /\ Board!UnfinishedTasks = active
      /\ DOMAIN board = DOMAIN active \cup DOMAIN archive
  BY BoardWithoutSplit, BoardStatus DEF Known
<1>4. request \in Board!Requests
  <2>1. \A i \in DOMAIN active' \ DOMAIN active :
           [dependencies |-> active'[i].dependencies, parent |-> active'[i].parent]
             \in Board!RequestItem
    BY <1>2 DEF IsItemFile, Item, Board!RequestItem
  <2>2. DOMAIN active' \ DOMAIN active \in SUBSET Ids
    BY <1>2 DEF IsItemFile
  <2>3. request \in [DOMAIN active' \ DOMAIN active -> Board!RequestItem]
    BY <2>1
  <2> HIDE DEF request
  <2> QED
    BY <2>2, <2>3 DEF Board!Requests
<1>5. /\ DOMAIN request = DOMAIN active' \ DOMAIN active
      /\ \A i \in DOMAIN request :
            /\ request[i].dependencies = active'[i].dependencies
            /\ request[i].parent = active'[i].parent
            /\ Board!NewItem(request[i].dependencies, request[i].parent) = active'[i]
  BY <1>1 DEF NewItem, Board!NewItem
<1> HIDE DEF request
<1>6. Board!WithNew(active, request) = active'
  <2>1. active' = [i \in DOMAIN active' |-> active'[i]]
    BY <1>2 DEF IsItemFile
  <2>2. DOMAIN active \cup DOMAIN request = DOMAIN active'
    BY <1>1, <1>5
  <2> QED
    BY <1>1, <1>5, <2>1, <2>2 DEF Board!WithNew
<1>7. board' = Board!WithNew(board, request)
  BY <1>1, <1>3, <1>5 DEF Board!WithNew, BoardOf
<1> HIDE DEF board
<1>8. Board!Create(request)
  <2>1. /\ Board!Acyclic(Board!DependencyEdges(active'))
        /\ Board!Acyclic(Board!ParentEdges(active'))
    BY <1>2, BoardGraph
  <2>2. DOMAIN request \cap DOMAIN board = {}
    BY <1>1, <1>3, <1>5
  <2>3. \A i \in DOMAIN request :
          /\ request[i].dependencies \subseteq DOMAIN board \cup DOMAIN request
          /\ request[i].parent \in Board!Unfinished \cup DOMAIN request \cup {None}
    BY <1>1, <1>3, <1>5
  <2> QED
    BY <1>3, <1>6, <1>7, <2>1, <2>2, <2>3 DEF Board!Create, board
<1> QED
  BY <1>4, <1>8 DEF Board!Next

(* Every step of the store is a step of the board or leaves it as it is. *)
LEMMA StepsAreSteps ==
  ASSUME CommitInv, StoreInv', [Next \/ ApplyNext]_vars
  PROVE  Board!Next \/ UNCHANGED BoardOf(active, archive)
<1>1. CASE active' = active /\ archive' = archive
  BY <1>1
<1>2. ASSUME NEW p \in Procs, WriteTasks(p)
      PROVE  Board!Next \/ UNCHANGED BoardOf(active, archive)
  <2>1. /\ lock = p /\ job[p].stage = "tasks"
        /\ active' = job[p].tasks /\ archive' = archive
    BY <1>2 DEF WriteTasks, At
  <2>2. Effect(job[p]) /\ Sound(job[p]) /\ job[p].kind \in Kind
    BY <2>1, HolderCommit DEF InProgress, Pending
  <2>3. DOMAIN active' \cap DOMAIN archive = {}
    BY <2>1, <2>2 DEF Sound
  <2>4. DOMAIN active \subseteq DOMAIN active' => Split = {}
    BY <2>3 DEF Split
  <2>5. CASE job[p].kind = "save"
    <3>1. \/ AddsItems(active') \/ RevisesItem(active')
          \/ ClaimsItem(active') \/ RemovesItem(active')
      BY <2>1, <2>2, <2>5 DEF Effect, SaveEffect
    <3>2. AddsItems(active') \/ RevisesItem(active') \/ ClaimsItem(active') =>
            DOMAIN active \subseteq DOMAIN active'
      BY DEF AddsItems, RevisesItem, ClaimsItem, PutItem
    <3> QED
      BY <2>1, <2>3, <2>4, <3>1, <3>2, CreateIsStep, ReviseIsStep, ClaimIsStep, RemoveIsStep
  <2>6. CASE job[p].kind = "status"
    <3>1. PICK i \in DOMAIN active :
            Moves(active[i], job[p].item) /\ active' = PutItem(active, i, job[p].item)
      BY <2>1, <2>2, <2>6 DEF Effect, StatusEffect
    <3>2. Split = {}
      BY <2>4, <3>1 DEF PutItem
    <3> QED
      BY <2>1, <3>1, <3>2, MoveIsStep
  <2>7. CASE job[p].kind = "done"
    <3>1. job[p].id \in DOMAIN archive /\ active' = RemoveItem(active, job[p].id)
      BY <2>1, <2>2, <2>7 DEF Effect, DoneEffect, Pending
    <3> QED
      BY <2>1, <3>1, BoardRemove
  <2> QED
    BY <2>2, <2>5, <2>6, <2>7 DEF Kind
<1>3. ASSUME NEW p \in Procs, AppendToArchive(p)
      PROVE  Board!Next
  <2>1. /\ lock = p /\ job[p].stage = "archive" /\ active' = active
        /\ job[p].id \notin DOMAIN archive
        /\ archive' = PutItem(archive, job[p].id, job[p].item)
    BY <1>3 DEF AppendToArchive, At
  <2>2. Effect(job[p]) /\ job[p].kind = "done"
    BY <2>1, HolderCommit DEF InProgress, Pending, WellFormed, Kind
  <2>3. /\ job[p].id \in DOMAIN active
        /\ active[job[p].id].status \in {"todo", "doing"}
        /\ job[p].item = ApplyDone(active[job[p].id])
    BY <2>1, <2>2 DEF Effect, DoneEffect, Pending
  <2> QED
    BY <2>1, <2>3, FinishIsStep
<1>4. ASSUME NEW p \in Procs,
             \/ Command(p) \/ AppendEvent(p) \/ CopyEvents(p) \/ ClearEvents(p) \/ Crash(p)
             \/ \E request \in Requests : ApplyGraph(p, request)
      PROVE  active' = active /\ archive' = archive
  BY <1>4, CommandsWriteNothing DEF AppendEvent, CopyEvents, ClearEvents, Crash, files
<1>5. CASE UNCHANGED vars
  BY <1>1, <1>5 DEF vars
<1> QED
  BY <1>1, <1>2, <1>3, <1>4, <1>5 DEF Next, ApplyNext, Write

(* The store implements the board (ImplementsBoard): whatever interleaves  *)
(* and wherever commits are cut short, every command happens on the board  *)
(* entirely, once, or not at all.                                          *)
THEOREM StoreImplementsBoard == GraphApplySpec => ImplementsBoard
<1>1. Init => Board!Init
  BY DEF Init, Board!Init, BoardOf, EmptyFile, Board!EmptyFile
<1>2. CommitInv /\ CommitInv' /\ [Next \/ ApplyNext]_vars => [Board!Next]_(BoardOf(active, archive))
  BY StepsAreSteps DEF CommitInv
<1> QED
  BY <1>1, <1>2, CommitInvariant, PTL DEF GraphApplySpec, ImplementsBoard, Board!Spec
=============================================================================
