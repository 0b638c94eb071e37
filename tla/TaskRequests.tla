---------------------------- MODULE TaskRequests ----------------------------
(***************************************************************************)
(* The task store, `tg apply` among its commands, with a history variable: *)
(* what the command whose commit is under way was asked to remove and to   *)
(* create.  No step depends on it.  It is there to say of a write of       *)
(* tasks.jsonl, steps after the command has read the files and decided,    *)
(* that it does what was asked for and nothing else.                       *)
(***************************************************************************)
EXTENDS GraphApply

VARIABLE asked

requestVars == <<active, archive, events, events_archive, issued, lock, job,
                 crashes, asked>>

(* The identifier of tg rm, and the items of tg add and tg apply under the *)
(* identifiers they are given.                                             *)
IsRequest(r) ==
  /\ r.removes \subseteq Ids
  /\ DOMAIN r.creates \subseteq Ids
  /\ \A i \in DOMAIN r.creates : r.creates[i] \in RequestItem

NoRequest == [removes |-> {}, creates |-> [i \in {} |-> None]]

RequestInit == Init /\ asked = NoRequest

AskRm(p, i) == Rm(p, i) /\ asked' = [NoRequest EXCEPT !.removes = {i}]

AskAdd(p, i, deps, parent) ==
  /\ Add(p, i, deps, parent)
  /\ asked' = [NoRequest EXCEPT
                 !.creates = [j \in {i} |-> [dependencies |-> deps, parent |-> parent]]]

AskApply(p, request) ==
  /\ ApplyGraph(p, request)
  /\ asked' = [NoRequest EXCEPT !.creates = request]

(* The commands that neither add an item nor take one from the store.      *)
ChangeItem(p) ==
  \E i \in Ids :
     \/ \E deps \in SUBSET Ids, parent \in Ids \cup {None} : Edit(p, i, deps, parent)
     \/ \E claim \in Agents \cup {None} : Do(p, i, claim)
     \/ \E claim \in Agents : Claim(p, i, claim)
     \/ Todo(p, i)
     \/ Block(p, i)
     \/ Unblock(p, i)
     \/ Done(p, i)

AskChange(p) == ChangeItem(p) /\ asked' = NoRequest

AskNewItems(p) ==
  \/ \E i \in Ids, deps \in SUBSET Ids, parent \in Ids \cup {None} : AskAdd(p, i, deps, parent)
  \/ \E request \in Requests : AskApply(p, request)

(* The request is remembered until its commit ends. *)
GoOn(p) ==
  /\ Write(p) \/ Crash(p)
  /\ asked' = IF InProgress(p)' THEN asked ELSE NoRequest

RequestNext ==
  \E p \in Procs :
     \/ AskNewItems(p)
     \/ \E i \in Ids : AskRm(p, i)
     \/ AskChange(p)
     \/ GoOn(p)

RequestSpec == RequestInit /\ [][RequestNext]_requestVars
-----------------------------------------------------------------------------
(* A task leaves the store only by the rm that was asked to remove it, and *)
(* only while, at that very write, no active item depends on it or has it  *)
(* as parent.  No add, edit, transition, done or apply loses one, and no   *)
(* crash between two writes.                                               *)
NoTaskLost ==
  [][ \A i \in Known \ Known' :
        /\ i \in asked.removes
        /\ ActiveDependents(active, i) = {}
        /\ ActiveChildren(active, i) = {} ]_requestVars

(* A graph is created whole or not at all: a write of tasks.jsonl that     *)
(* adds any item adds exactly the items of one request, all at once, each  *)
(* with the dependencies and the parent that were asked for, which lead to *)
(* items that are active or archived at that write; and it leaves every    *)
(* item that was there as it was (store/graph_apply.rs).                   *)
GraphIsWhole ==
  [][ LET new == DOMAIN active' \ DOMAIN active
      IN  new # {} =>
            /\ new = DOMAIN asked.creates
            /\ \A i \in new :
                  LET item == asked.creates[i]
                  IN  /\ active'[i] = NewItem(item.dependencies, item.parent)
                      /\ item.dependencies \subseteq DOMAIN active' \cup DOMAIN archive
                      /\ item.parent \in DOMAIN active' \cup {None}
            /\ \A i \in DOMAIN active : i \in DOMAIN active' /\ active'[i] = active[i]
    ]_requestVars
-----------------------------------------------------------------------------
(* What a save under way removes and creates is what its command was asked *)
(* to: with CommitInv, an inductive invariant.                             *)
Answers(c) ==
  /\ DOMAIN active \ DOMAIN c.tasks \subseteq asked.removes
  /\ LET new == DOMAIN c.tasks \ DOMAIN active
     IN  new # {} =>
           /\ new = DOMAIN asked.creates
           /\ \A i \in new :
                 c.tasks[i] = NewItem(asked.creates[i].dependencies, asked.creates[i].parent)

RequestInv ==
  /\ IsRequest(asked)
  /\ \A p \in Procs : job[p].kind = "save" /\ InProgress(p) => Answers(job[p])
=============================================================================
