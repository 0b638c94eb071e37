------------------------------ MODULE TaskItem ------------------------------
(***************************************************************************)
(* The durable task record of task-golem and the status transitions that   *)
(* rewrite it (model/item.rs, model/status.rs).  An item keeps the fields  *)
(* on which another part of the program decides; titles, tags, priorities, *)
(* timestamps and extensions are text carried along unchanged and are left *)
(* out.                                                                    *)
(***************************************************************************)
CONSTANTS
  Ids,      (* the item identifiers the UUIDv7 generator may hand out *)
  Agents,   (* the names that `tg do --claim` may record              *)
  None      (* the JSON null of an optional field                     *)

Status == {"todo", "doing", "done", "blocked"}

ASSUME NoneIsFresh == None \notin Ids \cup Agents \cup Status

Item ==
  [ status:              Status,
    dependencies:        SUBSET Ids,
    parent:              Ids \cup {None},
    claimed_by:          Agents \cup {None},
    blocked_from_status: Status \cup {None} ]

(* What `tg add` builds: a todo item without claim or block. *)
NewItem(deps, parent) ==
  [ status |-> "todo", dependencies |-> deps, parent |-> parent,
    claimed_by |-> None, blocked_from_status |-> None ]

(***************************************************************************)
(* Status::can_transition_to.  "done" is terminal and "blocked" is left by *)
(* unblock only, which does not consult this table.                        *)
(***************************************************************************)
CanTransitionTo(from, to) ==
  <<from, to>> \in { <<"todo",  "doing">>, <<"todo",  "done">>,
                     <<"todo",  "blocked">>, <<"doing", "done">>,
                     <<"doing", "blocked">>, <<"doing", "todo">> }

(* A claim argument is recorded; without one the old field stays. *)
ApplyDo(item, claim) ==
  [item EXCEPT !.status = "doing",
               !.claimed_by = IF claim = None THEN @ ELSE claim]

ApplyTodo(item) == [item EXCEPT !.status = "todo", !.claimed_by = None]

ApplyDone(item) == [item EXCEPT !.status = "done", !.claimed_by = None]

(* Faulty: work in progress stays claimed while it is blocked. *)
ApplyBlock_KeepsClaim(item) ==
  [item EXCEPT !.status = "blocked", !.blocked_from_status = item.status]

(* The status to come back to is remembered; work in progress is released. *)
ApplyBlock(item) ==
  [item EXCEPT !.status = "blocked",
               !.blocked_from_status = item.status,
               !.claimed_by = IF item.status = "doing" THEN None ELSE @]

ApplyUnblock(item) ==
  [item EXCEPT !.status = IF item.blocked_from_status = None
                          THEN "todo" ELSE item.blocked_from_status,
               !.blocked_from_status = None]
=============================================================================
