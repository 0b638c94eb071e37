--------------------------- MODULE FileLockProofs ---------------------------
(***************************************************************************)
(* How long a command waits for the lock, proved for any lengths of the    *)
(* pauses and timeouts that LockTiming allows.                             *)
(***************************************************************************)
EXTENDS TaskCommitProofs, FileLock

LockInv == StoreInv /\ QueueOK

(* Who takes the lock has a commit, and gives it back with its last write. *)
LEMMA HolderHasCommit ==
  ASSUME StoreInv, NEW p \in Procs, Command(p) \/ Write(p) \/ Crash(p)
  PROVE  /\ Command(p) => lock = None /\ lock' = p
         /\ Write(p) \/ Crash(p) => lock = p
         /\ lock' = p => InProgress(p)'
<1> DEFINE Begun == lock = None /\ lock' = p /\ InProgress(p)'
<1>0. DOMAIN job = Procs
  BY DEF StoreInv, TypeOK
<1>1. ASSUME NEW c, c.stage # "idle", Begin(p, c) PROVE Begun
  BY <1>0, <1>1 DEF Begin, InProgress
<1>2. ASSUME NEW new, SaveActive(p, new) PROVE Begun
  <2>1. [NoJob EXCEPT !.stage = "tasks", !.tasks = new].stage # "idle"
    BY DEF NoJob
  <2> QED
    BY <1>1, <1>2, <2>1 DEF SaveActive
<1>3. ASSUME NEW i, NEW item, CommitStatusChange(p, i, item) \/ CommitDone(p, i, item)
      PROVE  Begun
  BY <1>1, <1>3 DEF CommitStatusChange, CommitDone
<1> HIDE DEF Begun
<1>4. ASSUME NEW i \in Ids, NEW deps \in SUBSET Ids, NEW parent \in Ids \cup {None},
             Add(p, i, deps, parent) \/ Edit(p, i, deps, parent)
      PROVE  Begun
  BY <1>2, <1>4 DEF Add, Edit
<1>5. ASSUME NEW i \in Ids, NEW claim \in Agents \cup {None},
             Do(p, i, claim) \/ Claim(p, i, claim)
      PROVE  Begun
  BY <1>2, <1>3, <1>5 DEF Do, Claim
<1>6. ASSUME NEW i \in Ids,
             Rm(p, i) \/ Todo(p, i) \/ Block(p, i) \/ Unblock(p, i) \/ Done(p, i)
      PROVE  Begun
  BY <1>2, <1>3, <1>6 DEF Rm, Todo, Block, Unblock, Done
<1>7. Command(p) => Begun
  BY <1>4, <1>5, <1>6 DEF Command
<1>8. ASSUME Write(p) \/ Crash(p)
      PROVE  lock = p /\ (lock' = p => InProgress(p)')
  <2>1. lock = p /\ (Advance(p) \/ Release(p))
    BY <1>8 DEF Write, AppendEvent, AppendToArchive, WriteTasks, CopyEvents, ClearEvents,
                Crash, At
  <2>2. CASE Release(p)
    BY <2>1, <2>2, NoneIsNoProc DEF Release
  <2>3. ASSUME NEW stage, stage # "idle", job' = [job EXCEPT ![p].stage = stage]
        PROVE  InProgress(p)'
    BY <1>0, <2>3 DEF InProgress, StoreInv, TypeOK, IsJob
  <2>4. CASE Advance(p)
    BY <2>1, <2>2, <2>3, <2>4 DEF Advance
  <2> QED
    BY <2>1, <2>2, <2>4
<1> QED
  BY <1>7, <1>8, NoneIsNoProc DEF Begun

(* The longest pause is that after the longest back-off. *)
LEMMA PausesAreBounded ==
  ASSUME NEW backoff \in 1..MaxBackoff
  PROVE  /\ Jittered(backoff) \subseteq 0..LongestPause
         /\ AtMost(2 * backoff, MaxBackoff) \in 1..MaxBackoff
         /\ LongestPause \in Nat
<1>1. MaxBackoff \in Nat
  BY LockTiming
<1>2. (3 * backoff - 1) \div 2 <= (3 * MaxBackoff - 1) \div 2
  BY <1>1
<1>3. (3 * backoff - 1) \div 2 \in Int /\ (3 * MaxBackoff - 1) \div 2 \in Nat
  BY <1>1
<1> QED
  BY <1>1, <1>2, <1>3 DEF Jittered, AtMost, LongestPause

(* The constants, as LockTiming has them. *)
LEMMA Durations ==
  /\ InitialBackoff \in 1..MaxBackoff
  /\ MaxBackoff \in Nat /\ LongestPause \in Nat
  /\ TotalTimeout \in Nat /\ GitTimeout \in Nat
  /\ MaxPassed \in Nat /\ MaxPassed >= 2
  /\ TotalTimeout > 2 * GitTimeout + LongestPause
<1>1. /\ InitialBackoff \in Nat \ {0} /\ MaxBackoff \in Nat /\ MaxBackoff >= InitialBackoff
      /\ TotalTimeout \in Nat /\ GitTimeout \in Nat
      /\ MaxPassed \in Nat /\ MaxPassed >= 2
      /\ TotalTimeout > 2 * GitTimeout + LongestPause
  BY LockTiming
<1>2. InitialBackoff \in 1..MaxBackoff
  BY <1>1
<1>3. LongestPause \in Nat
  BY <1>1, <1>2, PausesAreBounded
<1> QED
  BY <1>1, <1>2, <1>3

(* A call that has just been made, or is over. *)
LEMMA FreshCall ==
  /\ Returned \in Call /\ NoWait \in Call
  /\ [Returned EXCEPT !.waiting = TRUE] \in Call
  /\ ~Returned.waiting /\ ~NoWait.waiting
<1>1. InitialBackoff \in 1..MaxBackoff /\ 0 \in 0..LongestPause
  BY Durations
<1>2. Returned \in Call
  BY <1>1 DEF Returned, Call
<1>3. ASSUME NEW c \in Call
      PROVE  [c EXCEPT !.rested = TRUE] \in Call /\ [c EXCEPT !.waiting = TRUE] \in Call
  BY DEF Call
<1> QED
  BY <1>2, <1>3 DEF NoWait, Returned

LEMMA NotWaiting ==
  ASSUME NEW p \in Procs, wait'[p] \in {Returned, NoWait}
  PROVE  CallOK(p)'
  BY FreshCall DEF CallOK, Waiting

(* A call that nothing is done about, while the lock and its holder's time *)
(* stay the same. *)
LEMMA CallKept ==
  ASSUME NEW p \in Procs, CallOK(p), wait'[p] = wait[p], lock' = lock, busy' = busy
  PROVE  CallOK(p)'
  BY DEF CallOK, Waiting

LEMMA CallKeepsQueue ==
  ASSUME LockInv, NEW p \in Procs, CallWithLock(p)
  PROVE  QueueOK'
<1>1. lock' = lock /\ busy' = busy /\ job' = job
  BY DEF CallWithLock, vars
<1>2. /\ DOMAIN wait' = Procs
      /\ wait'[p] = [Returned EXCEPT !.waiting = TRUE]
      /\ \A q \in Procs \ {p} : wait'[q] = wait[q]
  BY DEF LockInv, QueueOK, CallWithLock
<1>3. wait'[p] \in Call
  BY <1>2, FreshCall
<1>4. wait'[p].passed = 0 /\ wait'[p].elapsed = 0 /\ wait'[p].pause = 0
  BY <1>2 DEF Returned
<1>5. lock # None => busy[lock] \in 0..GitTimeout
  BY DEF LockInv, QueueOK, StoreInv, TypeOK
<1>6. CallOK(p)'
  BY <1>1, <1>3, <1>4, <1>5, Durations DEF CallOK, Waiting
<1>7. \A q \in Procs \ {p} : CallOK(q)'
  BY <1>1, <1>2, CallKept DEF LockInv, QueueOK
<1> QED
  BY <1>1, <1>2, <1>6, <1>7 DEF LockInv, QueueOK, InProgress

LEMMA TakeKeepsQueue ==
  ASSUME LockInv, NEW p \in Procs, TakeLock(p)
  PROVE  QueueOK'
<1>1. lock = None /\ lock' = p /\ InProgress(p)' /\ lock' # None
  BY HolderHasCommit, NoneIsNoProc DEF TakeLock, LockInv
<1>2. busy' \in [Procs -> 0..GitTimeout]
  <2>1. busy \in [Procs -> 0..GitTimeout]
    BY DEF LockInv, QueueOK
  <2>2. ASSUME NEW t \in AuthorTime, busy' = [busy EXCEPT ![p] = t]
        PROVE  busy' \in [Procs -> 0..GitTimeout]
    BY <2>1, <2>2 DEF AuthorTime
  <2> QED
    BY <2>1, <2>2 DEF TakeLock
<1>3. busy'[p] \in 0..GitTimeout
  BY <1>2
<1>4. DOMAIN wait' = Procs
  BY DEF TakeLock
<1>5. ASSUME NEW q \in Procs PROVE CallOK(q)'
  <2>1. CASE q = p
    BY <2>1, NotWaiting DEF TakeLock
  <2>2. CASE q # p /\ ~Waiting(q)
    BY <2>2 DEF TakeLock, LockInv, QueueOK, CallOK, Waiting
  <2>3. CASE q # p /\ Waiting(q)
    <3>1. wait'[q] = [wait[q] EXCEPT !.passed = AtMost(@ + 1, MaxPassed)]
      BY <2>3 DEF TakeLock
    <3>2. CallOK(q) /\ Waiting(q)
      BY <2>3 DEF LockInv, QueueOK
    <3>3. wait[q] \in Call
      BY <3>2 DEF CallOK
    <3>4. AtMost(wait[q].passed + 1, MaxPassed) \in Nat \ {0}
      BY <3>3, Durations DEF AtMost, Call
    <3>5. AtMost(wait[q].passed + 1, MaxPassed) = 1 => wait[q].passed = 0
      BY <3>3, Durations DEF AtMost, Call
    <3>6. /\ wait'[q].elapsed = wait[q].elapsed
          /\ wait'[q].passed = AtMost(wait[q].passed + 1, MaxPassed)
          /\ wait'[q] \in Call
      BY <3>1, <3>3, <3>4 DEF Call
    <3>7. wait[q].passed = 0 =>
             wait[q].elapsed + busy'[p] <= 2 * GitTimeout + LongestPause
      <4> SUFFICES ASSUME wait[q].passed = 0
                   PROVE  wait[q].elapsed + busy'[p] <= 2 * GitTimeout + LongestPause
        OBVIOUS
      <4>1. wait[q].elapsed + wait[q].pause <= GitTimeout + LongestPause
        BY <1>1, <3>2 DEF CallOK
      <4>2. wait[q].elapsed \in Nat /\ wait[q].pause \in Nat
        BY <3>3, Durations DEF Call
      <4> QED
        BY <1>3, <4>1, <4>2, Durations
    <3> QED
      BY <1>1, <3>4, <3>5, <3>6, <3>7 DEF CallOK
  <2> QED
    BY <2>1, <2>2, <2>3
<1> QED
  BY <1>1, <1>2, <1>4, <1>5 DEF QueueOK

(* An attempt that leaves the lock where it is. *)
LEMMA AttemptKeepsQueue ==
  ASSUME LockInv, NEW p \in Procs, RefuseCommand(p) \/ BackOff(p) \/ GiveUp(p)
  PROVE  QueueOK'
<1>1. lock' = lock /\ busy' = busy /\ job' = job
  BY DEF RefuseCommand, BackOff, GiveUp, vars
<1>2. DOMAIN wait' = Procs /\ \A q \in Procs \ {p} : wait'[q] = wait[q]
  BY DEF RefuseCommand, BackOff, GiveUp, LockInv, QueueOK
<1>3. ASSUME RefuseCommand(p) \/ GiveUp(p) PROVE CallOK(p)'
  <2>1. wait'[p] = Returned
    BY <1>3 DEF RefuseCommand, GiveUp, LockInv, QueueOK
  <2> QED
    BY <2>1, NotWaiting
<1>4. ASSUME BackOff(p) PROVE CallOK(p)'
  <2>1. CallOK(p) /\ wait[p] \in Call /\ lock # None
    BY <1>4 DEF BackOff, LockInv, QueueOK, CallOK
  <2>2. PICK pause \in Jittered(wait[p].backoff) :
           wait'[p] = [wait[p] EXCEPT !.pause = pause,
                                      !.backoff = AtMost(2 * @, MaxBackoff)]
    BY <1>4 DEF BackOff, LockInv, QueueOK
  <2>3. wait[p].backoff \in 1..MaxBackoff
    BY <2>1 DEF Call
  <2>4. pause \in 0..LongestPause /\ AtMost(2 * wait[p].backoff, MaxBackoff) \in 1..MaxBackoff
    BY <2>3, PausesAreBounded
  <2>5. /\ wait'[p] \in Call
        /\ wait'[p].waiting = wait[p].waiting
        /\ wait'[p].passed = wait[p].passed
        /\ wait'[p].elapsed = wait[p].elapsed
    BY <2>1, <2>2, <2>4 DEF Call
  <2> QED
    BY <1>1, <2>1, <2>5 DEF CallOK, Waiting
<1>5. CallOK(p)'
  BY <1>3, <1>4
<1>6. \A q \in Procs \ {p} : CallOK(q)'
  BY <1>1, <1>2, CallKept DEF LockInv, QueueOK
<1> QED
  BY <1>1, <1>2, <1>5, <1>6 DEF LockInv, QueueOK, InProgress

(* The holder's next write is due, or it dies: whoever waits has waited no *)
(* longer than the holder could take. *)
LEMMA HolderKeepsQueue ==
  ASSUME LockInv, NEW p \in Procs, HolderWrites(p) \/ HolderDies(p)
  PROVE  QueueOK'
<1>1. lock = p /\ lock # None /\ lock' \in {None, p} /\ wait' = wait
  BY HolderHasCommit, StepIsOwn, NoneIsNoProc
     DEF HolderWrites, HolderDies, LockInv, StoreInv
<1>2. lock' = p => InProgress(p)'
  BY HolderHasCommit DEF HolderWrites, HolderDies, LockInv
<1>3. busy' \in [Procs -> 0..GitTimeout] /\ busy'[p] = 0
  BY Durations DEF HolderWrites, HolderDies, LockInv, QueueOK
<1>4. busy[p] \in 0..GitTimeout
  BY DEF LockInv, QueueOK
<1>5. ASSUME NEW q \in Procs PROVE CallOK(q)'
  <2>1. CallOK(q) /\ wait[q] \in Call
    BY DEF LockInv, QueueOK, CallOK
  <2>2. /\ wait[q].elapsed \in Nat
        /\ wait[q].pause \in Nat /\ wait[q].pause <= LongestPause
    BY <2>1, Durations DEF Call
  <2>3. Waiting(q) /\ wait[q].passed = 0 => wait[q].elapsed <= GitTimeout
    <3> SUFFICES ASSUME Waiting(q), wait[q].passed = 0
                 PROVE  wait[q].elapsed <= GitTimeout
      OBVIOUS
    <3>1. wait[q].elapsed + busy[p] <= GitTimeout
      BY <1>1, <2>1 DEF CallOK
    <3> QED
      BY <1>4, <2>2, <3>1, Durations
  <2>4. Waiting(q) /\ wait[q].passed = 1 =>
           wait[q].elapsed <= 2 * GitTimeout + LongestPause
    <3> SUFFICES ASSUME Waiting(q), wait[q].passed = 1
                 PROVE  wait[q].elapsed <= 2 * GitTimeout + LongestPause
      OBVIOUS
    <3>1. wait[q].elapsed + busy[p] <= 2 * GitTimeout + LongestPause
      BY <1>1, <2>1 DEF CallOK
    <3> QED
      BY <1>4, <2>2, <3>1, Durations
  <2>5. CASE lock' = None
    <3>1. Waiting(q) /\ wait[q].passed = 0 =>
             wait[q].elapsed + wait[q].pause <= GitTimeout + LongestPause
      BY <2>2, <2>3, Durations
    <3> QED
      BY <1>1, <2>1, <2>5, <3>1 DEF CallOK, Waiting
  <2>6. CASE lock' = p
    <3>1. wait[q].elapsed + busy'[p] = wait[q].elapsed
      BY <1>3, <2>2
    <3> QED
      BY <1>1, <2>1, <2>3, <2>4, <2>6, <3>1 DEF CallOK, Waiting
  <2> QED
    BY <1>1, <2>5, <2>6
<1>6. \A q \in Procs : lock' = q => InProgress(q)'
  BY <1>1, <1>2, NoneIsNoProc
<1>7. DOMAIN wait' = Procs
  BY <1>1 DEF LockInv, QueueOK
<1> QED
  BY <1>3, <1>5, <1>6, <1>7 DEF QueueOK

(* Time passes for the caller and for the holder alike. *)
LEMMA TickKeepsQueue ==
  ASSUME LockInv, Tick
  PROVE  QueueOK'
<1>1. lock' = lock /\ job' = job
  BY DEF Tick, vars
<1>2. busy' = [p \in Procs |-> IF busy[p] > 0 THEN busy[p] - 1 ELSE 0]
  BY DEF Tick
<1>3. busy \in [Procs -> 0..GitTimeout]
  BY DEF LockInv, QueueOK
<1>4. ASSUME NEW p \in Procs
      PROVE  busy'[p] \in 0..GitTimeout /\ (busy[p] > 0 => busy'[p] = busy[p] - 1)
  <2>1. busy[p] \in 0..GitTimeout /\ busy'[p] = IF busy[p] > 0 THEN busy[p] - 1 ELSE 0
    BY <1>2, <1>3
  <2> QED
    BY <2>1, Durations
<1>5. busy' \in [Procs -> 0..GitTimeout]
  BY <1>2, <1>4
<1>6. lock # None => lock \in Procs /\ busy[lock] \in Nat /\ busy'[lock] = busy[lock] - 1
  <2> SUFFICES ASSUME lock # None
               PROVE  lock \in Procs /\ busy[lock] \in Nat /\ busy'[lock] = busy[lock] - 1
    OBVIOUS
  <2>1. lock \in Procs
    BY DEF LockInv, StoreInv, TypeOK
  <2>2. InProgress(lock)
    BY <2>1 DEF LockInv, QueueOK
  <2>3. busy[lock] > 0
    BY <2>1, <2>2 DEF Tick
  <2>4. busy[lock] \in Nat
    BY <1>3, <2>1, Durations
  <2> QED
    BY <1>4, <2>1, <2>3, <2>4
<1>7. ASSUME NEW q \in Procs PROVE CallOK(q)'
  <2>1. CASE ~Waiting(q)
    BY <2>1, NotWaiting DEF Tick
  <2>2. CASE Waiting(q)
    <3>1. CallOK(q) /\ wait[q] \in Call /\ wait[q].pause # 0
      BY <2>2 DEF Tick, Due, LockInv, QueueOK, CallOK
    <3>2. wait'[q] = [wait[q] EXCEPT !.elapsed = AtMost(@ + 1, TotalTimeout),
                                     !.pause = @ - 1]
      BY <2>2 DEF Tick
    <3> DEFINE e == wait[q].elapsed
               n == wait[q].pause
    <3>3. e \in Nat /\ n \in 0..LongestPause
      BY <3>1 DEF Call
    <3>4. n - 1 \in 0..LongestPause /\ AtMost(e + 1, TotalTimeout) \in Nat
      BY <3>1, <3>3, Durations DEF AtMost
    <3>5. /\ wait'[q] \in Call
          /\ wait'[q].elapsed = AtMost(e + 1, TotalTimeout)
          /\ wait'[q].pause = n - 1
          /\ wait'[q].passed = wait[q].passed
      BY <3>1, <3>2, <3>4 DEF Call
    <3>6. AtMost(e + 1, TotalTimeout) <= e + 1
      BY <3>3, Durations DEF AtMost
    <3>7. ASSUME wait[q].passed = 0, lock = None
          PROVE  wait'[q].elapsed + wait'[q].pause <= GitTimeout + LongestPause
      <4>1. e + n <= GitTimeout + LongestPause
        BY <2>2, <3>1, <3>7 DEF CallOK
      <4> HIDE DEF e, n
      <4> QED
        BY <3>3, <3>4, <3>5, <3>6, <4>1, Durations
    <3>8. ASSUME NEW bound \in Nat, lock # None, e + busy[lock] <= bound
          PROVE  wait'[q].elapsed + busy'[lock] <= bound
      <4> HIDE DEF e, n
      <4> QED
        BY <1>6, <3>3, <3>4, <3>5, <3>6, <3>8
    <3>9. GitTimeout \in Nat /\ 2 * GitTimeout + LongestPause \in Nat
      BY Durations
    <3> QED
      BY <1>1, <3>1, <3>5, <3>7, <3>8, <3>9, <2>2 DEF CallOK, Waiting
  <2> QED
    BY <2>1, <2>2
<1>8. \A p \in Procs : lock' = p => InProgress(p)'
  BY <1>1 DEF LockInv, QueueOK, InProgress
<1>9. DOMAIN wait' = Procs
  BY DEF Tick
<1> QED
  BY <1>5, <1>7, <1>8, <1>9 DEF QueueOK

-----------------------------------------------------------------------------
(***************************************************************************)
(* The theorems.                                                           *)
(***************************************************************************)
LEMMA InitLock == LockInit => LockInv
<1> SUFFICES ASSUME LockInit PROVE LockInv
  OBVIOUS
<1>1. StoreInv
  BY InitInv DEF LockInit
<1>2. lock = None /\ busy = [p \in Procs |-> 0] /\ wait = [p \in Procs |-> NoWait]
  BY DEF LockInit, Init
<1>3. \A p \in Procs : CallOK(p)
  BY <1>2, FreshCall DEF CallOK, Waiting
<1>4. busy \in [Procs -> 0..GitTimeout]
  BY <1>2, Durations
<1>5. QueueOK
  BY <1>2, <1>3, <1>4, NoneIsNoProc DEF QueueOK
<1> QED
  BY <1>1, <1>5 DEF LockInv

LEMMA NextLock == LockInv /\ [LockNext]_lockVars => LockInv'
<1> SUFFICES ASSUME LockInv, [LockNext]_lockVars PROVE LockInv'
  OBVIOUS
<1>1. StoreInv'
  <2>1. [Next]_vars
    BY DEF LockNext, lockVars, Tick, CallWithLock, Attempt, TakeLock, RefuseCommand, BackOff,
           GiveUp, HolderWrites, HolderDies, Next
  <2> QED
    BY <2>1, NextInv DEF LockInv
<1>2. CASE UNCHANGED lockVars
  <2>1. QueueOK'
    BY <1>2 DEF lockVars, vars, LockInv, QueueOK, CallOK, Waiting, InProgress
  <2> QED
    BY <1>1, <2>1 DEF LockInv
<1>3. ASSUME NEW p \in Procs,
             CallWithLock(p) \/ Attempt(p) \/ HolderWrites(p) \/ HolderDies(p)
      PROVE  QueueOK'
  BY <1>3, CallKeepsQueue, TakeKeepsQueue, AttemptKeepsQueue, HolderKeepsQueue DEF Attempt
<1> QED
  BY <1>1, <1>2, <1>3, TickKeepsQueue DEF LockNext, LockInv

(* However long the pauses and timeouts are, within LockTiming, no call is *)
(* older than the commits that it has seen take the lock explain.          *)
THEOREM LockInvariant == LockSpec => []LockInv
<1>1. LockSpec => LockInit /\ [][LockNext]_lockVars
  BY PTL DEF LockSpec
<1> QED
  BY <1>1, InitLock, NextLock, PTL

(* Whoever gets a LockTimeout has seen two commits take the lock before    *)
(* it: one command that hangs in git makes no other fail                   *)
(* (TimeoutNeedsQueue).                                                    *)
THEOREM TimeoutsNeedQueue == LockSpec => TimeoutNeedsQueue
<1>1. LockInv /\ [LockNext]_lockVars
        => [\A p \in Procs : GiveUp(p) => wait[p].passed >= 2]_lockVars
  <2> SUFFICES ASSUME LockInv, NEW p \in Procs, GiveUp(p)
               PROVE  wait[p].passed >= 2
    OBVIOUS
  <2>1. /\ CallOK(p) /\ wait[p] \in Call /\ Waiting(p)
        /\ lock # None /\ wait[p].elapsed >= TotalTimeout
    BY DEF LockInv, QueueOK, CallOK, GiveUp, Due
  <2>2. wait[p].elapsed \in Nat /\ wait[p].passed \in Nat
    BY <2>1 DEF Call
  <2>3. busy[lock] \in 0..GitTimeout
    BY <2>1 DEF LockInv, QueueOK, StoreInv, TypeOK
  <2>4. wait[p].passed # 0
    <3> SUFFICES ASSUME wait[p].passed = 0 PROVE FALSE
      OBVIOUS
    <3>1. wait[p].elapsed + busy[lock] <= GitTimeout
      BY <2>1 DEF CallOK
    <3> QED
      BY <2>1, <2>2, <2>3, <3>1, Durations
  <2>5. wait[p].passed # 1
    <3> SUFFICES ASSUME wait[p].passed = 1 PROVE FALSE
      OBVIOUS
    <3>1. wait[p].elapsed + busy[lock] <= 2 * GitTimeout + LongestPause
      BY <2>1 DEF CallOK
    <3> QED
      BY <2>1, <2>2, <2>3, <3>1, Durations
  <2> QED
    BY <2>2, <2>4, <2>5
<1>2. LockSpec => [][LockNext]_lockVars
  BY PTL DEF LockSpec
<1> QED
  BY <1>1, <1>2, LockInvariant, PTL DEF TimeoutNeedsQueue
=============================================================================
