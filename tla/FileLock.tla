------------------------------ MODULE FileLock ------------------------------
(***************************************************************************)
(* How the commands of TaskStore get the lock (store/lock.rs): a try-lock  *)
(* repeated with growing pauses until TOTAL_TIMEOUT has passed, in a world *)
(* where the holder may spend up to DEFAULT_GIT_TIMEOUT asking git for the *)
(* author of an event before it writes anything (events/author.rs).        *)
(*                                                                         *)
(* Time is discrete.  Reading and writing files takes none; a pause that   *)
(* is over, a write that is due and an author that is known are served     *)
(* before time moves on.                                                   *)
(***************************************************************************)
EXTENDS TaskStore

CONSTANTS
  InitialBackoff,  (* INITIAL_BACKOFF_MS                                  *)
  MaxBackoff,      (* MAX_BACKOFF_MS                                      *)
  TotalTimeout,    (* TOTAL_TIMEOUT                                       *)
  GitTimeout,      (* DEFAULT_GIT_TIMEOUT                                 *)
  MaxPassed        (* bound: up to where the overtaking commits are counted *)

(* The longest pause between two attempts, with all its jitter. *)
LongestPause == (3 * MaxBackoff - 1) \div 2

(* 10 ms, 500 ms, 5 s and 2 s: besides the two git timeouts that fit into  *)
(* the total one, time for another pause is left.                          *)
ASSUME LockTiming ==
  /\ InitialBackoff \in Nat \ {0}
  /\ MaxBackoff \in Nat /\ MaxBackoff >= InitialBackoff
  /\ {TotalTimeout, GitTimeout, MaxPassed} \subseteq Nat
  /\ MaxPassed >= 2
  /\ TotalTimeout > 2 * GitTimeout + LongestPause

VARIABLES
  wait,  (* per process, its call of with_lock that has not got the lock yet *)
  busy   (* per process, the time it still needs to know the author          *)

lockVars == <<vars, wait, busy>>

(* Not waiting.  A process that has returned from with_lock needs some     *)
(* time before it, or the next process in its place, calls again.          *)
Returned ==
  [ waiting |-> FALSE,
    rested  |-> FALSE,           (* time has passed since the last call      *)
    elapsed |-> 0,               (* since the call                           *)
    backoff |-> InitialBackoff,  (* backoff_ms                               *)
    pause   |-> 0,               (* what is left of thread::sleep            *)
    passed  |-> 0 ]              (* commits that got the lock since the call *)

NoWait == [Returned EXCEPT !.rested = TRUE]

LockInit ==
  /\ Init
  /\ wait = [p \in Procs |-> NoWait]
  /\ busy = [p \in Procs |-> 0]

Waiting(p) == wait[p].waiting
Due(p) == Waiting(p) /\ wait[p].pause = 0

AtMost(n, bound) == IF n > bound THEN bound ELSE n

(* backoff_ms * (1 + jitter) with a jitter of 0..0.5, cut to an integer. *)
Jittered(backoff) == backoff .. (3 * backoff - 1) \div 2

(* Faulty: git is waited for as long as it takes. *)
AuthorTime_Unbounded == 0 .. TotalTimeout

(* resolve: TG_AUTHOR or a missing git cost nothing, git answers or is     *)
(* killed after its timeout, whatever it does.                             *)
AuthorTime == 0 .. GitTimeout

-----------------------------------------------------------------------------
CallWithLock(p) ==
  /\ wait[p].rested
  /\ ~InProgress(p)
  /\ wait' = [wait EXCEPT ![p] = [Returned EXCEPT !.waiting = TRUE]]
  /\ UNCHANGED <<vars, busy>>

(* The lock is free: a command that has something to commit keeps it, and  *)
(* looks for the author first if an event is to be written.                *)
TakeLock(p) ==
  /\ Due(p)
  /\ Command(p)
  /\ wait' = [q \in Procs |->
                IF q = p THEN Returned
                ELSE IF Waiting(q)
                     THEN [wait[q] EXCEPT !.passed = AtMost(@ + 1, MaxPassed)]
                     ELSE wait[q]]
  /\ IF job'[p].stage = "event"
     THEN \E t \in AuthorTime : busy' = [busy EXCEPT ![p] = t]
     ELSE UNCHANGED busy

(* A command that is refused, or has nothing to do, gives it back at once. *)
RefuseCommand(p) ==
  /\ Due(p)
  /\ lock = None
  /\ wait' = [wait EXCEPT ![p] = Returned]
  /\ UNCHANGED <<vars, busy>>

(* Faulty: the clock is started anew at every attempt. *)
BackOff_RestartsClock(p) ==
  /\ Due(p)
  /\ lock # None
  /\ wait[p].elapsed < TotalTimeout
  /\ \E pause \in Jittered(wait[p].backoff) :
       wait' = [wait EXCEPT ![p].pause = pause,
                            ![p].elapsed = 0,
                            ![p].backoff = AtMost(2 * @, MaxBackoff)]
  /\ UNCHANGED <<vars, busy>>

BackOff(p) ==
  /\ Due(p)
  /\ lock # None
  /\ wait[p].elapsed < TotalTimeout
  /\ \E pause \in Jittered(wait[p].backoff) :
       wait' = [wait EXCEPT ![p].pause = pause,
                            ![p].backoff = AtMost(2 * @, MaxBackoff)]
  /\ UNCHANGED <<vars, busy>>

(* LockTimeout: the time is up and the lock is still held. *)
GiveUp(p) ==
  /\ Due(p)
  /\ lock # None
  /\ wait[p].elapsed >= TotalTimeout
  /\ wait' = [wait EXCEPT ![p] = Returned]
  /\ UNCHANGED <<vars, busy>>

HolderWrites(p) == busy[p] = 0 /\ Write(p) /\ UNCHANGED <<wait, busy>>

HolderDies(p) ==
  /\ Crash(p)
  /\ busy' = [busy EXCEPT ![p] = 0]
  /\ UNCHANGED wait

Tick ==
  /\ \E p \in Procs : ~wait[p].rested \/ busy[p] > 0
  /\ \A p \in Procs : ~Due(p) /\ (InProgress(p) => busy[p] > 0)
  /\ wait' = [p \in Procs |->
                IF Waiting(p)
                THEN [wait[p] EXCEPT !.elapsed = AtMost(@ + 1, TotalTimeout),
                                     !.pause = @ - 1]
                ELSE NoWait]
  /\ busy' = [p \in Procs |-> IF busy[p] > 0 THEN busy[p] - 1 ELSE 0]
  /\ UNCHANGED vars

Attempt(p) == TakeLock(p) \/ RefuseCommand(p) \/ BackOff(p) \/ GiveUp(p)

LockNext ==
  \/ Tick
  \/ \E p \in Procs :
       CallWithLock(p) \/ Attempt(p) \/ HolderWrites(p) \/ HolderDies(p)

(* A process that is not dead runs: it makes its next attempt or its next  *)
(* write when it is due, and time passes.  Who gets the lock is open.      *)
LockSpec ==
  /\ LockInit /\ [][LockNext]_lockVars
  /\ WF_lockVars(Tick)
  /\ \A p \in Procs : WF_lockVars(Attempt(p)) /\ WF_lockVars(HolderWrites(p))
-----------------------------------------------------------------------------
(***************************************************************************)
(* Properties.                                                             *)
(***************************************************************************)
(* Nobody waits for ever, although the lock is given to whoever tries at   *)
(* the right moment: every call of with_lock runs its command or ends in a *)
(* LockTimeout (lock.rs:32-55).                                            *)
CallsEnd == \A p \in Procs : Waiting(p) ~> ~Waiting(p)

(* One command that hangs in git never makes another fail: a LockTimeout   *)
(* takes two more commits that came later and still got the lock first     *)
(* (lock.rs:43, author.rs:22).                                             *)
TimeoutNeedsQueue ==
  [][ \A p \in Procs : GiveUp(p) => wait[p].passed >= 2 ]_lockVars
-----------------------------------------------------------------------------
(***************************************************************************)
(* Inductive invariant, beside StoreInv: how long a call can have waited.  *)
(***************************************************************************)
Call ==
  [ waiting: BOOLEAN, rested: BOOLEAN, elapsed: Nat, backoff: 1..MaxBackoff,
    pause: 0..LongestPause, passed: Nat ]

(* As long as the commit that holds the lock is the first since the call,  *)
(* or the second, the call is no older than the time it can have had; the  *)
(* pause that a free lock finds the caller in comes between the two.       *)
CallOK(p) ==
  /\ wait[p] \in Call
  /\ Waiting(p) /\ wait[p].passed = 0 =>
        IF lock = None
        THEN wait[p].elapsed + wait[p].pause <= GitTimeout + LongestPause
        ELSE wait[p].elapsed + busy[lock] <= GitTimeout
  /\ Waiting(p) /\ wait[p].passed = 1 /\ lock # None =>
        wait[p].elapsed + busy[lock] <= 2 * GitTimeout + LongestPause

QueueOK ==
  /\ \A p \in Procs : lock = p => InProgress(p)
  /\ busy \in [Procs -> 0..GitTimeout]
  /\ DOMAIN wait = Procs
  /\ \A p \in Procs : CallOK(p)
=============================================================================
