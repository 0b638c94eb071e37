----------------------------- MODULE TaskBoard -----------------------------
(***************************************************************************)
(* What task-golem promises its users: one board of tasks that every       *)
(* command changes in a single atomic step, whoever else is running and    *)
(* whatever crashes.  A finished task stays on the board for ever, exactly *)
(* as it was finished.  There are no files here, no lock and no half-made  *)
(* commit.                                                                 *)
(***************************************************************************)
EXTENDS TaskGraph

VARIABLE board  (* every task ever added and not removed, and its record *)

Unfinished == {i \in DOMAIN board : board[i].status # "done"}

UnfinishedTasks == [i \in Unfinished |-> board[i]]

Init == board = EmptyFile

RequestItem == [dependencies: SUBSET Ids, parent: Ids \cup {None}]

Requests == UNION {[S -> RequestItem] : S \in SUBSET Ids}

WithNew(tasks, request) ==
  [i \in DOMAIN tasks \cup DOMAIN request |->
     IF i \in DOMAIN request
     THEN NewItem(request[i].dependencies, request[i].parent)
     ELSE tasks[i]]

(* New tasks, one of them or a whole graph: they may depend on each other  *)
(* and on anything on the board, and have unfinished parents or none.      *)
Create(request) ==
  /\ DOMAIN request \cap DOMAIN board = {}
  /\ \A i \in DOMAIN request :
        /\ request[i].dependencies \subseteq DOMAIN board \cup DOMAIN request
        /\ request[i].parent \in Unfinished \cup DOMAIN request \cup {None}
  /\ Acyclic(DependencyEdges(WithNew(UnfinishedTasks, request)))
  /\ Acyclic(ParentEdges(WithNew(UnfinishedTasks, request)))
  /\ board' = WithNew(board, request)

(* An unfinished task gets other relations, never circular ones.           *)
Revise(i, deps, parent) ==
  LET new == [UnfinishedTasks EXCEPT ![i].dependencies = deps, ![i].parent = parent]
  IN  /\ i \in Unfinished
      /\ deps \subseteq DOMAIN board
      /\ parent \in Unfinished \cup {None, board[i].parent}
      /\ Acyclic(DependencyEdges(new))
      /\ Acyclic(ParentEdges(new))
      /\ board' = PutItem(board, i, new[i])

(* Any unfinished task nobody relies on may go.                            *)
Remove(i) ==
  /\ i \in Unfinished
  /\ ActiveDependents(UnfinishedTasks, i) = {}
  /\ ActiveChildren(UnfinishedTasks, i) = {}
  /\ board' = RemoveItem(board, i)

(* Starting a task, or claiming a started one that no other agent holds.   *)
Start(i, claim) ==
  /\ i \in Unfinished
  /\ \/ board[i].status = "todo"
     \/ board[i].status = "doing" /\ board[i].claimed_by \in {None, claim}
  /\ board' = [board EXCEPT ![i].status = "doing", ![i].claimed_by = claim]

(* Putting a started task back releases it.                                *)
Return(i) ==
  /\ i \in Unfinished
  /\ board[i].status = "doing"
  /\ board' = [board EXCEPT ![i].status = "todo", ![i].claimed_by = None]

Suspend(i) ==
  /\ i \in Unfinished
  /\ board[i].status \in {"todo", "doing"}
  /\ board' = [board EXCEPT ![i].status = "blocked",
                            ![i].blocked_from_status = board[i].status,
                            ![i].claimed_by = None]

(* A suspended task comes back in the status it was suspended from.        *)
Resume(i) ==
  /\ i \in Unfinished
  /\ board[i].status = "blocked"
  /\ board' = [board EXCEPT ![i].status = board[i].blocked_from_status,
                            ![i].blocked_from_status = None]

Finish(i) ==
  /\ i \in Unfinished
  /\ board[i].status # "blocked"
  /\ board' = [board EXCEPT ![i].status = "done", ![i].claimed_by = None]

Next ==
  \/ \E i \in Ids :
        \/ \E deps \in SUBSET Ids, parent \in Ids \cup {None} : Revise(i, deps, parent)
        \/ \E claim \in Agents \cup {None} : Start(i, claim)
        \/ Remove(i) \/ Return(i) \/ Suspend(i) \/ Resume(i) \/ Finish(i)
  \/ \E request \in Requests : Create(request)

Spec == Init /\ [][Next]_board
=============================================================================
