------------------------------ MODULE EventLog ------------------------------
(***************************************************************************)
(* The event log of task-golem, line by line: events.jsonl, to which every *)
(* process appends (notes without the lock), events.archive.jsonl, and     *)
(* move_for_task, which takes the events of an archived task from the one  *)
(* to the other by a read, single appends and a rewrite.  tg note, the     *)
(* status commands, tg done, tg events and the event repairs of            *)
(* tg doctor --fix run concurrently.                                       *)
(*                                                                         *)
(* Of tasks.jsonl and archive.jsonl only the identifiers matter here.      *)
(***************************************************************************)
EXTENDS Naturals, FiniteSets

CONSTANTS
  Ids,         (* the tasks, all of them active at first               *)
  Procs,       (* the concurrent tg processes                          *)
  None,        (* nobody, nothing                                      *)
  MaxEvents,   (* bound: events stamped in a behavior                  *)
  MaxCrashes,  (* bound: processes that die while they hold the lock   *)
  MaxTears     (* bound: appends that write only a part of their line  *)

ASSUME EventLogBounds == {MaxEvents, MaxCrashes, MaxTears} \subseteq Nat
ASSUME NobodyIsNoProc == None \notin Procs

(* As for the doctor, task and timestamp identify an event. *)
Event == [task: Ids, kind: {"note", "status"}, ts: 1..MaxEvents]

VARIABLES
  active, archived,  (* the tasks in tasks.jsonl and in archive.jsonl *)
  log, old,          (* events.jsonl and events.archive.jsonl         *)
  clock,             (* the timestamp given out last                  *)
  acknowledged,      (* the events whose append returned Ok           *)
  lock,              (* the holder of tasks.lock, or None             *)
  job,               (* per process, what it does and remembers       *)
  crashes, tears     (* the faults so far                             *)

items == <<active, archived>>
faults == <<crashes, tears>>
vars == <<active, archived, log, old, clock, acknowledged, lock, job, crashes, tears>>

-----------------------------------------------------------------------------
(***************************************************************************)
(* Files.  A file has so many readable lines of each event, and may end in *)
(* a fragment without a newline.  A line appended to a fragment makes one  *)
(* malformed line with it, which the lenient reader skips.                 *)
(***************************************************************************)
Lines == [Event -> Nat]

EventFile == [lines: Lines, torn: BOOLEAN]

Events(file) == {e \in Event : file.lines[e] > 0}

EventsOf(file, i) == {e \in Events(file) : e.task = i}

Without(lines, drop) == [e \in Event |-> IF e \in drop THEN 0 ELSE lines[e]]

Whole(lines) == [lines |-> lines, torn |-> FALSE]

AppendLine(file, e) ==
  Whole(IF file.torn THEN file.lines ELSE [file.lines EXCEPT ![e] = @ + 1])

AppendFragment(file) == [file EXCEPT !.torn = TRUE]

NoLines == [e \in Event |-> 0]

-----------------------------------------------------------------------------
(***************************************************************************)
(* Processes.  A verb runs through its stages:                             *)
(*   note     append                                  without the lock     *)
(*   status   append                                                       *)
(*   done     append, archive, tasks, and the move of the task's events    *)
(*   doctor   three scans without the lock; then save, move and dedup,     *)
(*            each under a lock of its own                                 *)
(*   events   first, second                           without the lock     *)
(* where a move is read, copy, rewrite for one task after the other.       *)
(***************************************************************************)
Verb == {"note", "status", "done", "doctor", "events"}

Stage == {"idle", "append", "archive", "tasks", "read", "copy", "rewrite",
          "scan_archive", "scan_log", "scan_old", "save", "move", "dedup",
          "repaired", "first", "second", "shown"}

NoJob ==
  [ verb |-> "note", stage |-> "idle",
    event |-> None,   (* the event to append                               *)
    tasks |-> {},     (* the tasks whose events are still to be moved      *)
    kept |-> NoLines, (* what the move has read and is not going to move   *)
    copy |-> {},      (* what it has read and not yet copied               *)
    snap |-> {},      (* doctor: the tasks it is going to save             *)
    dup |-> FALSE,    (* doctor: has it seen an event in both logs?        *)
    due |-> {},       (* reader: what was acknowledged when it began       *)
    seen |-> {} ]     (* doctor, reader: the events read so far            *)

Init ==
  /\ active = Ids
  /\ archived = {}
  /\ log = Whole(NoLines)
  /\ old = Whole(NoLines)
  /\ clock = 0
  /\ acknowledged = {}
  /\ lock = None
  /\ job = [p \in Procs |-> NoJob]
  /\ crashes = 0
  /\ tears = 0

At(p, stage) == job[p].stage = stage

Holds(p, stage) == lock = p /\ At(p, stage)

Goto(p, stage) == job' = [job EXCEPT ![p].stage = stage]

Acquire(p) == lock = None /\ lock' = p

(* The process is through, or fails and loses what it still had to do. *)
Stop(p) ==
  /\ job' = [job EXCEPT ![p] = NoJob]
  /\ lock' = IF lock = p THEN None ELSE lock

(* A new event has its timestamp before it is appended. *)
Stamp(p, verb, i, kind) ==
  /\ clock < MaxEvents
  /\ clock' = clock + 1
  /\ job' = [job EXCEPT ![p] =
               [NoJob EXCEPT !.verb = verb, !.stage = "append",
                             !.event = [task |-> i, kind |-> kind, ts |-> clock + 1]]]

(* tg note: the task is active when it is looked up; nothing is locked. *)
Note(p, i) ==
  /\ At(p, "idle")
  /\ i \in active
  /\ Stamp(p, "note", i, "note")
  /\ UNCHANGED <<items, log, old, acknowledged, lock, faults>>

(* A status change or a done, refused while a task is in both item files. *)
Transition(p, verb, i) ==
  /\ At(p, "idle")
  /\ i \in active
  /\ active \cap archived = {}
  /\ Acquire(p)
  /\ Stamp(p, verb, i, "status")
  /\ UNCHANGED <<items, log, old, acknowledged, faults>>

(* events::append::write on events.jsonl: a single write(2). *)
AppendEvent(p) ==
  /\ At(p, "append")
  /\ log' = AppendLine(log, job[p].event)
  /\ acknowledged' = acknowledged \cup {job[p].event}
  /\ IF job[p].verb = "done" THEN Goto(p, "archive") /\ UNCHANGED lock ELSE Stop(p)
  /\ UNCHANGED <<items, old, clock, faults>>

(* A short write is an error and is not retried; what was written stays. *)
TearLog(p) ==
  /\ At(p, "append")
  /\ tears < MaxTears
  /\ tears' = tears + 1
  /\ log' = AppendFragment(log)
  /\ Stop(p)
  /\ UNCHANGED <<items, old, clock, acknowledged, crashes>>

AppendToArchive(p) ==
  /\ Holds(p, "archive")
  /\ archived' = archived \cup {job[p].event.task}
  /\ Goto(p, "tasks")
  /\ UNCHANGED <<active, log, old, clock, acknowledged, lock, faults>>

(* Faulty: the events stay where they are. *)
WriteTasks_NoMove(p) ==
  /\ Holds(p, "tasks")
  /\ active' = active \ {job[p].event.task}
  /\ Stop(p)
  /\ UNCHANGED <<archived, log, old, clock, acknowledged, faults>>

WriteTasks(p) ==
  /\ Holds(p, "tasks")
  /\ active' = active \ {job[p].event.task}
  /\ job' = [job EXCEPT ![p].stage = "read", ![p].tasks = {job[p].event.task}]
  /\ UNCHANGED <<archived, log, old, clock, acknowledged, lock, faults>>

-----------------------------------------------------------------------------
(***************************************************************************)
(* move_for_task under the lock, for one task after the other.             *)
(***************************************************************************)
StartMove(p, i, moved) ==
  /\ Holds(p, "read")
  /\ i \in job[p].tasks
  /\ job' = [job EXCEPT ![p].tasks = @ \ {i},
                        ![p].kept = Without(log.lines, moved),
                        ![p].copy = moved,
                        ![p].stage = IF moved = {} THEN "read" ELSE "copy"]
  /\ UNCHANGED <<items, log, old, clock, acknowledged, lock, faults>>

(* Faulty: the doctor moves what it saw when it scanned. *)
ReadLog_Stale(p, i) ==
  StartMove(p, i, {e \in IF job[p].verb = "doctor" THEN job[p].seen ELSE Events(log) :
                     e.task = i})

(* Read and partition; no event to move, nothing to do. *)
ReadLog(p, i) == StartMove(p, i, EventsOf(log, i))

(* Faulty: the log is rewritten after the first event of the batch. *)
CopyEvent_Once(p) ==
  \E e \in job[p].copy :
    /\ Holds(p, "copy")
    /\ \A f \in job[p].copy : e.ts <= f.ts
    /\ old' = AppendLine(old, e)
    /\ job' = [job EXCEPT ![p].copy = @ \ {e}, ![p].stage = "rewrite"]
    /\ UNCHANGED <<items, log, clock, acknowledged, lock, faults>>

(* One append per event, in timestamp order. *)
CopyEvent(p) ==
  \E e \in job[p].copy :
    /\ Holds(p, "copy")
    /\ \A f \in job[p].copy : e.ts <= f.ts
    /\ old' = AppendLine(old, e)
    /\ job' = [job EXCEPT ![p].copy = @ \ {e},
                          ![p].stage = IF job[p].copy = {e} THEN "rewrite" ELSE "copy"]
    /\ UNCHANGED <<items, log, clock, acknowledged, lock, faults>>

TearOld(p) ==
  /\ Holds(p, "copy")
  /\ tears < MaxTears
  /\ tears' = tears + 1
  /\ old' = AppendFragment(old)
  /\ Stop(p)
  /\ UNCHANGED <<items, log, clock, acknowledged, crashes>>

(* The rename: events.jsonl is what was read without what was moved. *)
RewriteLog(p) ==
  /\ Holds(p, "rewrite")
  /\ log' = Whole(job[p].kept)
  /\ Goto(p, "read")
  /\ UNCHANGED <<items, old, clock, acknowledged, lock, faults>>

(* All moved: the lock goes back; the doctor has repairs left. *)
EndMove(p) ==
  /\ Holds(p, "read")
  /\ job[p].tasks = {}
  /\ IF job[p].verb = "doctor"
     THEN Goto(p, IF job[p].dup THEN "dedup" ELSE "repaired") /\ lock' = None
     ELSE Stop(p)
  /\ UNCHANGED <<items, log, old, clock, acknowledged, faults>>

Crash(p) ==
  /\ lock = p
  /\ crashes < MaxCrashes
  /\ crashes' = crashes + 1
  /\ Stop(p)
  /\ UNCHANGED <<items, log, old, clock, acknowledged, tears>>

-----------------------------------------------------------------------------
(***************************************************************************)
(* tg doctor --fix: the repairs that touch the events, in their order.     *)
(***************************************************************************)
DoctorReadTasks(p) ==
  /\ At(p, "idle")
  /\ job' = [job EXCEPT ![p] = [NoJob EXCEPT !.verb = "doctor", !.snap = active,
                                             !.stage = "scan_archive"]]
  /\ UNCHANGED <<items, log, old, clock, acknowledged, lock, faults>>

(* A task in both item files is not going to be saved again. *)
DoctorReadArchive(p) ==
  /\ At(p, "scan_archive")
  /\ job' = [job EXCEPT ![p].snap = @ \ archived, ![p].tasks = archived,
                        ![p].stage = "scan_log"]
  /\ UNCHANGED <<items, log, old, clock, acknowledged, lock, faults>>

(* events_in_active_for_archived_task *)
DoctorReadLog(p) ==
  /\ At(p, "scan_log")
  /\ job' = [job EXCEPT ![p].tasks = {i \in @ : EventsOf(log, i) # {}},
                        ![p].seen = Events(log),
                        ![p].stage = "scan_old"]
  /\ UNCHANGED <<items, log, old, clock, acknowledged, lock, faults>>

(* events_dup_across_active_and_archive *)
DoctorReadOld(p) ==
  /\ At(p, "scan_old")
  /\ job' = [job EXCEPT ![p].dup = job[p].seen \cap Events(old) # {},
                        ![p].stage = "save"]
  /\ UNCHANGED <<items, log, old, clock, acknowledged, lock, faults>>

(* The first repair rewrites tasks.jsonl, whatever the issues were; one    *)
(* that is refused ends the command.                                       *)
DoctorSave(p) ==
  /\ At(p, "save")
  /\ lock = None
  /\ IF job[p].snap \cap archived = {}
     THEN /\ active' = job[p].snap
          /\ Goto(p, IF job[p].tasks # {} THEN "move" ELSE
                     IF job[p].dup THEN "dedup" ELSE "repaired")
     ELSE UNCHANGED active /\ Stop(p)
  /\ UNCHANGED <<archived, log, old, clock, acknowledged, lock, faults>>

DoctorMove(p) ==
  /\ At(p, "move")
  /\ Acquire(p)
  /\ Goto(p, "read")
  /\ UNCHANGED <<items, log, old, clock, acknowledged, faults>>

(* Both logs are read again under the lock. *)
DoctorDedup(p) ==
  LET dups == Events(log) \cap Events(old)
  IN  /\ At(p, "dedup")
      /\ Acquire(p)
      /\ job' = [job EXCEPT ![p].kept = Without(log.lines, dups), ![p].dup = FALSE,
                            ![p].stage = IF dups = {} THEN "read" ELSE "rewrite"]
      /\ UNCHANGED <<items, log, old, clock, acknowledged, faults>>

-----------------------------------------------------------------------------
(***************************************************************************)
(* tg events: the active log is read before the archived one.              *)
(***************************************************************************)
(* Faulty: the archived log is read before the active one. *)
FileReadAt_OldFirst(stage) == IF stage = "first" THEN old ELSE log

FileReadAt(stage) == IF stage = "first" THEN log ELSE old

ReadEvents(p, i) ==
  /\ At(p, "idle")
  /\ job' = [job EXCEPT ![p] = [NoJob EXCEPT !.verb = "events", !.stage = "first",
               !.tasks = {i}, !.due = {e \in acknowledged : e.task = i}]]
  /\ UNCHANGED <<items, log, old, clock, acknowledged, lock, faults>>

ReadEventsFile(p) ==
  /\ job[p].stage \in {"first", "second"}
  /\ job' = [job EXCEPT
       ![p].seen = @ \cup UNION {EventsOf(FileReadAt(job[p].stage), i) : i \in job[p].tasks},
       ![p].stage = IF job[p].stage = "first" THEN "second" ELSE "shown"]
  /\ UNCHANGED <<items, log, old, clock, acknowledged, lock, faults>>

(* The output is there; the process exits. *)
Exit(p) ==
  /\ job[p].stage \in {"shown", "repaired"}
  /\ Stop(p)
  /\ UNCHANGED <<items, log, old, clock, acknowledged, faults>>

-----------------------------------------------------------------------------
Step(p) ==
  \/ \E i \in Ids :
       \/ Note(p, i)
       \/ \E verb \in {"status", "done"} : Transition(p, verb, i)
       \/ ReadLog(p, i)
       \/ ReadEvents(p, i)
  \/ AppendEvent(p) \/ TearLog(p)
  \/ AppendToArchive(p) \/ WriteTasks(p)
  \/ CopyEvent(p) \/ TearOld(p) \/ RewriteLog(p) \/ EndMove(p)
  \/ DoctorReadTasks(p) \/ DoctorReadArchive(p) \/ DoctorReadLog(p) \/ DoctorReadOld(p)
  \/ DoctorSave(p) \/ DoctorMove(p) \/ DoctorDedup(p)
  \/ ReadEventsFile(p)
  \/ Exit(p)
  \/ Crash(p)

Next == \E p \in Procs : Step(p)

Spec == Init /\ [][Next]_vars

-----------------------------------------------------------------------------
(***************************************************************************)
(* Properties.                                                             *)
(***************************************************************************)
IsJob(j) ==
  /\ j \in [ verb: Verb, stage: Stage, event: Event \cup {None}, tasks: SUBSET Ids,
              kept: Lines, copy: SUBSET Event, snap: SUBSET Ids, dup: BOOLEAN,
              due: SUBSET Event, seen: SUBSET Event ]
  /\ j.stage = "append" => j.event \in Event

(* Every variable holds a value of its type, and only the lock holder is   *)
(* in a stage that writes under the lock.                                  *)
TypeOK ==
  /\ active \subseteq Ids
  /\ archived \subseteq Ids
  /\ log \in EventFile
  /\ old \in EventFile
  /\ clock \in 0..MaxEvents
  /\ acknowledged \subseteq Event
  /\ lock \in Procs \cup {None}
  /\ DOMAIN job = Procs
  /\ \A p \in Procs :
       /\ IsJob(job[p])
       /\ job[p].stage \in {"archive", "tasks", "read", "copy", "rewrite"} => lock = p
       /\ At(p, "append") => (lock = p <=> job[p].verb # "note")
  /\ crashes \in 0..MaxCrashes
  /\ tears \in 0..MaxTears

(* The events that `tg events` shows of neither file. *)
Unreadable == acknowledged \ (Events(log) \cup Events(old))

UnreadableStatusEvents == {e \in Unreadable : e.kind = "status"}

(* A status event that was acknowledged stays readable, through every move *)
(* and repair, every crash and every note written meanwhile; an append cut *)
(* short costs at most one of them, the next event of the same file.       *)
StatusEventsSurvive == Cardinality(UnreadableStatusEvents) <= tears

(* Without a fault no event is archived twice: the moves of tg done and of *)
(* tg doctor exclude each other and each reads the log it rewrites.        *)
ArchivedOnce ==
  crashes + tears = 0 => \A e \in Event : old.lines[e] <= 1

(* Without a fault the log of active tasks holds, once nobody has the      *)
(* lock, no event of an archived task other than a note that came late     *)
(* (store/mod.rs:243-248).                                                 *)
EventsFollowTheirTask ==
  crashes + tears = 0 /\ lock = None =>
    \A e \in Events(log) : e.task \in archived => e.kind = "note"

(* What tg events shows is complete: no event acknowledged before the      *)
(* command began and still in a file escapes it, although events move      *)
(* while it reads one file after the other.                                *)
ReadersMissNothing ==
  \A p \in Procs : At(p, "shown") => job[p].due \ Unreadable \subseteq job[p].seen

-----------------------------------------------------------------------------
(***************************************************************************)
(* What the repository says of the log and the log does not keep.          *)
(***************************************************************************)
(* "Concurrent appends from multiple `tg` processes do not lose events"    *)
(* (TG-008 PRD:62), and append_note "relies on O_APPEND atomicity" alone.  *)
(* A note appended between the read and the rewrite of a move is gone.     *)
NotesSurvive == Unreadable = {}
-----------------------------------------------------------------------------
(***************************************************************************)
(* The inductive invariant behind these properties.                        *)
(***************************************************************************)
Moving(p) == job[p].stage \in {"copy", "rewrite"}

Kept(p) == {e \in Event : job[p].kept[e] > 0}

(* Who has the lock, and which fields a stage relies on. *)
JobsOK ==
  \A p \in Procs :
    /\ lock = p => job[p].stage \in {"append", "archive", "tasks", "read", "copy", "rewrite"}
    /\ job[p].stage \in {"append", "archive", "tasks"} => job[p].event \in Event
    /\ At(p, "append") => (job[p].verb = "note" <=> job[p].event.kind = "note")
    /\ ~At(p, "copy") => job[p].copy = {}

(* An event is appended once: timestamps are given out once. *)
StampsOK ==
  /\ Events(log) \cup Events(old) \subseteq acknowledged
  /\ \A e \in acknowledged : e.ts <= clock
  /\ \A p \in Procs : At(p, "append") =>
        /\ job[p].event.ts <= clock
        /\ job[p].event \notin acknowledged
        /\ \A q \in Procs : At(q, "append") /\ job[q].event = job[p].event => q = p

(* What a move has read is still in the log, although notes may have come. *)
MovesOK == \A p \in Procs : Moving(p) => job[p].copy \cup Kept(p) \subseteq Events(log)

(* The status events that a move is going to drop, because the append to   *)
(* the other log was swallowed by a fragment.                              *)
Doomed ==
  {e \in Events(log) \ Events(old) :
     /\ e.kind = "status"
     /\ \E p \in Procs : Moving(p) /\ e \notin job[p].copy \cup Kept(p)}

Lost == UnreadableStatusEvents \cup Doomed

Fragments(file) == IF file.torn THEN 1 ELSE 0

(* Each fragment costs one event at most, and only while it is one. *)
LossesOK ==
  /\ IsFiniteSet(Lost)
  /\ Cardinality(Lost) + Fragments(log) + Fragments(old) <= tears

(* What a reader has not seen yet and is still there is in the file it     *)
(* reads next.                                                             *)
ReadersOK ==
  \A p \in Procs :
    /\ job[p].stage \in {"first", "second"} =>
          job[p].due \subseteq {e \in acknowledged : e.task \in job[p].tasks}
    /\ At(p, "second") => job[p].due \ job[p].seen \subseteq Events(old) \cup Unreadable
    /\ At(p, "shown") => job[p].due \ job[p].seen \subseteq Unreadable

(* A process is about to move the event. *)
ToBeMoved(e) ==
  \E p \in Procs :
    /\ lock = p
    /\ \/ At(p, "tasks") /\ e.task = job[p].event.task
       \/ job[p].stage \in {"read", "copy", "rewrite"} /\ e.task \in job[p].tasks
       \/ Moving(p) /\ e \notin Kept(p)

(* Without a fault the two logs share nothing but what is being moved, and *)
(* a status event of an archived task is about to be moved.                *)
Disjoint ==
  /\ (\A p \in Procs : ~Moving(p)) => Events(log) \cap Events(old) = {}
  /\ \A p \in Procs : Moving(p) =>
        /\ (job[p].copy \cup Kept(p)) \cap Events(old) = {}
        /\ job[p].copy \cap Kept(p) = {}

Followed ==
  /\ \A p \in Procs : At(p, "append") /\ job[p].verb # "note" => job[p].event.task \notin archived
  /\ \A e \in Events(log) : e.kind = "status" /\ e.task \in archived => ToBeMoved(e)
  /\ \A p \in Procs : Moving(p) =>
        \A e \in Kept(p) : e.kind = "status" /\ e.task \in archived => e.task \in job[p].tasks

NoFaultOK ==
  crashes + tears = 0 =>
    /\ ~log.torn /\ ~old.torn
    /\ \A e \in Event : old.lines[e] <= 1
    /\ Disjoint
    /\ Followed

LogInv ==
  /\ TypeOK
  /\ JobsOK
  /\ StampsOK
  /\ MovesOK
  /\ LossesOK
  /\ ReadersOK
  /\ NoFaultOK
=============================================================================
