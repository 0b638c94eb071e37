--------------------------- MODULE EventLogProofs ---------------------------
(***************************************************************************)
(* The event log keeps its promises for any number of tasks, processes,    *)
(* events and faults: LogInv is an invariant, and with it the safety       *)
(* properties of EventLog.                                                 *)
(***************************************************************************)
EXTENDS EventLog, FiniteSetTheorems, TLAPS

-----------------------------------------------------------------------------
(***************************************************************************)
(* Files.                                                                  *)
(***************************************************************************)
LEMMA AppendsLine ==
  ASSUME NEW file \in EventFile, NEW e \in Event
  PROVE  /\ AppendLine(file, e) \in EventFile
         /\ AppendLine(file, e).torn = FALSE
         /\ Events(file) \subseteq Events(AppendLine(file, e))
         /\ Events(AppendLine(file, e)) \subseteq Events(file) \cup {e}
         /\ ~file.torn => e \in Events(AppendLine(file, e))
         /\ \A f \in Event \ {e} : AppendLine(file, e).lines[f] = file.lines[f]
         /\ AppendLine(file, e).lines[e] \in {file.lines[e], file.lines[e] + 1}
<1>1. file.lines \in Lines /\ file.torn \in BOOLEAN
  BY DEF EventFile
<1>2. CASE file.torn
  <2>1. AppendLine(file, e) = [lines |-> file.lines, torn |-> FALSE]
    BY <1>2 DEF AppendLine, Whole
  <2> QED
    BY <1>1, <1>2, <2>1 DEF Events, EventFile
<1>3. CASE ~file.torn
  <2>1. AppendLine(file, e) = [lines |-> [file.lines EXCEPT ![e] = @ + 1], torn |-> FALSE]
    BY <1>3 DEF AppendLine, Whole
  <2>2. [file.lines EXCEPT ![e] = @ + 1] \in Lines
    BY <1>1 DEF Lines
  <2> QED
    BY <1>1, <1>3, <2>1, <2>2 DEF Events, EventFile, Lines
<1> QED
  BY <1>2, <1>3

LEMMA AppendsFragment ==
  ASSUME NEW file \in EventFile
  PROVE  /\ AppendFragment(file) \in EventFile
         /\ AppendFragment(file).torn = TRUE
         /\ AppendFragment(file).lines = file.lines
         /\ Events(AppendFragment(file)) = Events(file)
  BY DEF AppendFragment, EventFile, Events

LEMMA KeepsTheRest ==
  ASSUME NEW lines \in Lines, NEW drop
  PROVE  /\ Without(lines, drop) \in Lines
         /\ {e \in Event : Without(lines, drop)[e] > 0} = {e \in Event : lines[e] > 0} \ drop
  BY DEF Without, Lines

LEMMA WholeFile ==
  ASSUME NEW lines \in Lines
  PROVE  /\ Whole(lines) \in EventFile
         /\ Whole(lines).torn = FALSE
         /\ Events(Whole(lines)) = {e \in Event : lines[e] > 0}
  BY DEF Whole, EventFile, Events

-----------------------------------------------------------------------------
(***************************************************************************)
(* Types and the lock.                                                     *)
(***************************************************************************)
(* A step of one process changes no other's job and takes no other's lock. *)
LEMMA StepIsOwn ==
  ASSUME TypeOK, JobsOK, NEW p \in Procs, Step(p)
  PROVE  /\ DOMAIN job' = Procs /\ \A q \in Procs \ {p} : job'[q] = job[q]
         /\ lock' = lock \/ (lock \in {None, p} /\ lock' \in {None, p})
<1>1. DOMAIN job = Procs
  BY DEF TypeOK
<1>2. ASSUME NEW i \in Ids, Note(p, i) \/ ReadLog(p, i) \/ ReadEvents(p, i)
      PROVE  DOMAIN job' = Procs /\ (\A q \in Procs \ {p} : job'[q] = job[q]) /\ lock' = lock
  BY <1>1, <1>2 DEF Note, Stamp, ReadLog, StartMove, ReadEvents
<1>3. ASSUME NEW i \in Ids, NEW verb \in {"status", "done"}, Transition(p, verb, i)
      PROVE  DOMAIN job' = Procs /\ (\A q \in Procs \ {p} : job'[q] = job[q])
             /\ lock = None /\ lock' = p
  BY <1>1, <1>3 DEF Transition, Stamp, Acquire
<1>4. ASSUME AppendEvent(p) \/ TearLog(p) \/ TearOld(p) \/ EndMove(p) \/ Exit(p) \/ Crash(p)
      PROVE  /\ DOMAIN job' = Procs /\ \A q \in Procs \ {p} : job'[q] = job[q]
             /\ lock' = lock \/ (lock \in {None, p} /\ lock' \in {None, p})
  BY <1>1, <1>4 DEF AppendEvent, TearLog, TearOld, EndMove, Exit, Crash, Stop, Goto, Holds
<1>5. ASSUME \/ AppendToArchive(p) \/ WriteTasks(p) \/ CopyEvent(p) \/ RewriteLog(p)
             \/ ReadEventsFile(p)
      PROVE  DOMAIN job' = Procs /\ (\A q \in Procs \ {p} : job'[q] = job[q]) /\ lock' = lock
  BY <1>1, <1>5 DEF AppendToArchive, WriteTasks, CopyEvent, RewriteLog, Goto, ReadEventsFile
<1>6. ASSUME \/ DoctorReadTasks(p) \/ DoctorReadArchive(p) \/ DoctorReadLog(p)
             \/ DoctorReadOld(p) \/ DoctorSave(p) \/ DoctorMove(p) \/ DoctorDedup(p)
      PROVE  /\ DOMAIN job' = Procs /\ \A q \in Procs \ {p} : job'[q] = job[q]
             /\ lock' = lock \/ (lock \in {None, p} /\ lock' \in {None, p})
  BY <1>1, <1>6
     DEF DoctorReadTasks, DoctorReadArchive, DoctorReadLog, DoctorReadOld, DoctorSave,
         DoctorMove, DoctorDedup, Acquire, Goto, Stop
<1> QED
  BY <1>2, <1>3, <1>4, <1>5, <1>6 DEF Step

(* What TypeOK and JobsOK say of one process. *)
Typed(p) ==
  /\ IsJob(job[p])
  /\ job[p].stage \in {"archive", "tasks", "read", "copy", "rewrite"} => lock = p
  /\ At(p, "append") => (lock = p <=> job[p].verb # "note")
  /\ lock = p => job[p].stage \in {"append", "archive", "tasks", "read", "copy", "rewrite"}
  /\ job[p].stage \in {"append", "archive", "tasks"} => job[p].event \in Event
  /\ At(p, "append") => (job[p].verb = "note" <=> job[p].event.kind = "note")
  /\ ~At(p, "copy") => job[p].copy = {}

LEMMA OthersStayTyped ==
  ASSUME TypeOK, JobsOK, NEW p \in Procs, Step(p), NEW q \in Procs \ {p}
  PROVE  Typed(q)'
<1>1. Typed(q)
  BY DEF TypeOK, JobsOK, Typed
<1>2. job'[q] = job[q] /\ (lock' = q <=> lock = q)
  BY StepIsOwn, NobodyIsNoProc
<1> QED
  BY <1>1, <1>2 DEF Typed, IsJob, At

LEMMA NoJobTyped ==
  /\ IsJob(NoJob) /\ NoJob.stage = "idle" /\ NoJob.copy = {} /\ NoJob.verb = "note"
  BY DEF IsJob, NoJob, Verb, Stage, NoLines, Lines

LEMMA OwnStaysTyped ==
  ASSUME TypeOK, JobsOK, NEW p \in Procs, Step(p)
  PROVE  Typed(p)'
<1>1. Typed(p) /\ DOMAIN job = Procs /\ IsJob(job[p])
  BY DEF TypeOK, JobsOK, Typed
<1>2. ASSUME job'[p] = NoJob, lock' # p PROVE Typed(p)'
  BY <1>2, NoJobTyped DEF Typed, At
<1>3. ASSUME Stop(p) PROVE Typed(p)'
  BY <1>1, <1>2, <1>3, NobodyIsNoProc DEF Stop
<1>4. ASSUME NEW i \in Ids, NEW kind \in {"note", "status"}, NEW verb \in Verb,
             Stamp(p, verb, i, kind), verb = "note" <=> kind = "note",
             lock' = p <=> verb # "note"
      PROVE  Typed(p)'
  <2>1. [task |-> i, kind |-> kind, ts |-> clock + 1] \in Event
    BY <1>4, EventLogBounds DEF Stamp, Event, TypeOK
  <2>2. job'[p] = [NoJob EXCEPT !.verb = verb, !.stage = "append",
                                !.event = [task |-> i, kind |-> kind, ts |-> clock + 1]]
    BY <1>1, <1>4 DEF Stamp
  <2>3. /\ IsJob(job'[p]) /\ job'[p].stage = "append" /\ job'[p].verb = verb
        /\ job'[p].event = [task |-> i, kind |-> kind, ts |-> clock + 1]
        /\ job'[p].copy = {}
    BY <2>1, <2>2, NoJobTyped DEF IsJob, Stage, NoJob
  <2> QED
    BY <1>4, <2>1, <2>3 DEF Typed, At
<1>5. ASSUME NEW i \in Ids, Note(p, i) PROVE Typed(p)'
  BY <1>1, <1>4, <1>5 DEF Note, Typed, Verb, At
<1>6. ASSUME NEW i \in Ids, NEW verb \in {"status", "done"}, Transition(p, verb, i)
      PROVE  Typed(p)'
  BY <1>4, <1>6 DEF Transition, Verb, Acquire
<1>7. ASSUME NEW i \in Ids, ReadLog(p, i) PROVE Typed(p)'
  <2>1. /\ EventsOf(log, i) \subseteq Event /\ Without(log.lines, EventsOf(log, i)) \in Lines
    BY KeepsTheRest DEF EventsOf, Events, TypeOK, EventFile
  <2>2. /\ IsJob(job'[p]) /\ lock = p /\ lock' = p
        /\ \/ job'[p].stage = "copy"
           \/ job'[p].stage = "read" /\ job'[p].copy = {}
    BY <1>1, <1>7, <2>1 DEF ReadLog, StartMove, IsJob, Stage, Holds
  <2> QED
    BY <2>2 DEF Typed, At
<1>8. ASSUME AppendEvent(p) PROVE Typed(p)'
  <2>1. CASE job[p].verb = "done"
    <3>1. /\ IsJob(job'[p]) /\ job'[p].stage = "archive" /\ job'[p].event = job[p].event
          /\ job'[p].copy = job[p].copy /\ lock' = lock /\ job[p].stage = "append"
      BY <1>1, <1>8, <2>1 DEF AppendEvent, Goto, IsJob, Stage, At
    <3> QED
      BY <1>1, <2>1, <3>1 DEF Typed, At
  <2>2. CASE job[p].verb # "done"
    BY <1>3, <1>8, <2>2 DEF AppendEvent
  <2> QED
    BY <2>1, <2>2
<1>9. ASSUME TearLog(p) \/ TearOld(p) \/ Exit(p) \/ Crash(p) PROVE Typed(p)'
  BY <1>3, <1>9 DEF TearLog, TearOld, Exit, Crash
<1>10. ASSUME AppendToArchive(p) PROVE Typed(p)'
  <2>1. /\ IsJob(job'[p]) /\ job'[p].stage = "tasks" /\ job'[p].event = job[p].event
        /\ job'[p].copy = job[p].copy /\ lock = p /\ lock' = p /\ job[p].stage = "archive"
    BY <1>1, <1>10 DEF AppendToArchive, Goto, IsJob, Stage, At, Holds
  <2> QED
    BY <1>1, <2>1 DEF Typed, At
<1>11. ASSUME WriteTasks(p) PROVE Typed(p)'
  <2>1. job[p].event.task \in Ids
    BY <1>1, <1>11 DEF WriteTasks, Holds, At, Typed, Event
  <2>2. /\ IsJob(job'[p]) /\ job'[p].stage = "read"
        /\ job'[p].copy = job[p].copy /\ lock = p /\ lock' = p /\ job[p].stage = "tasks"
    BY <1>1, <1>11, <2>1 DEF WriteTasks, IsJob, Stage, At, Holds
  <2> QED
    BY <1>1, <2>2 DEF Typed, At
<1>12. ASSUME CopyEvent(p) PROVE Typed(p)'
  <2>1. PICK e \in job[p].copy :
          /\ Holds(p, "copy") /\ lock' = lock
          /\ job' = [job EXCEPT ![p].copy = @ \ {e},
                                ![p].stage = IF job[p].copy = {e} THEN "rewrite" ELSE "copy"]
    BY <1>12 DEF CopyEvent
  <2>2. /\ IsJob(job'[p]) /\ lock = p /\ lock' = p
        /\ \/ job'[p].stage = "copy"
           \/ job'[p].stage = "rewrite" /\ job'[p].copy = {}
    BY <1>1, <2>1 DEF IsJob, Stage, Holds
  <2> QED
    BY <2>2 DEF Typed, At
<1>13. ASSUME RewriteLog(p) PROVE Typed(p)'
  <2>1. /\ IsJob(job'[p]) /\ lock = p /\ lock' = p /\ job'[p].stage = "read"
        /\ job'[p].copy = job[p].copy /\ job[p].stage = "rewrite"
    BY <1>1, <1>13 DEF RewriteLog, Goto, IsJob, Stage, Holds, At
  <2> QED
    BY <1>1, <2>1 DEF Typed, At
<1>14. ASSUME EndMove(p) PROVE Typed(p)'
  <2>1. CASE job[p].verb = "doctor"
    <3>1. /\ IsJob(job'[p]) /\ lock' = None /\ job'[p].stage \in {"dedup", "repaired"}
          /\ job'[p].copy = job[p].copy /\ job[p].stage = "read"
      BY <1>1, <1>14, <2>1 DEF EndMove, Goto, IsJob, Stage, Holds, At
    <3> QED
      BY <1>1, <3>1, NobodyIsNoProc DEF Typed, At
  <2>2. CASE job[p].verb # "doctor"
    BY <1>3, <1>14, <2>2 DEF EndMove
  <2> QED
    BY <2>1, <2>2
<1>15. ASSUME IsJob(job'[p]), lock' = lock, lock # p, job'[p].copy = {},
              job'[p].stage \notin {"append", "archive", "tasks", "read", "copy", "rewrite"}
       PROVE  Typed(p)'
  BY <1>15 DEF Typed, At
<1>16. ASSUME DoctorReadTasks(p) PROVE Typed(p)'
  <2>1. /\ IsJob(job'[p]) /\ job'[p].copy = {} /\ lock' = lock /\ job[p].stage = "idle"
        /\ job'[p].stage = "scan_archive"
    BY <1>1, <1>16, NoJobTyped DEF DoctorReadTasks, IsJob, Stage, Verb, TypeOK, At
  <2> QED
    BY <1>1, <1>15, <2>1 DEF Typed
<1>17. ASSUME DoctorReadArchive(p) PROVE Typed(p)'
  <2>1. /\ IsJob(job'[p]) /\ job'[p].copy = job[p].copy /\ lock' = lock
        /\ job[p].stage = "scan_archive" /\ job'[p].stage = "scan_log"
    BY <1>1, <1>17 DEF DoctorReadArchive, IsJob, Stage, TypeOK, At
  <2> QED
    BY <1>1, <1>15, <2>1 DEF Typed, At
<1>18. ASSUME DoctorReadLog(p) PROVE Typed(p)'
  <2>1. /\ IsJob(job'[p]) /\ job'[p].copy = job[p].copy /\ lock' = lock
        /\ job[p].stage = "scan_log" /\ job'[p].stage = "scan_old"
    BY <1>1, <1>18 DEF DoctorReadLog, IsJob, Stage, TypeOK, At, Events
  <2> QED
    BY <1>1, <1>15, <2>1 DEF Typed, At
<1>19. ASSUME DoctorReadOld(p) PROVE Typed(p)'
  <2>1. /\ IsJob(job'[p]) /\ job'[p].copy = job[p].copy /\ lock' = lock
        /\ job[p].stage = "scan_old" /\ job'[p].stage = "save"
    BY <1>1, <1>19 DEF DoctorReadOld, IsJob, Stage, TypeOK, At
  <2> QED
    BY <1>1, <1>15, <2>1 DEF Typed, At
<1>20. ASSUME DoctorSave(p) PROVE Typed(p)'
  <2>1. CASE job[p].snap \cap archived = {}
    <3>1. /\ IsJob(job'[p]) /\ job'[p].copy = job[p].copy /\ lock' = lock
          /\ job[p].stage = "save" /\ job'[p].stage \in {"move", "dedup", "repaired"}
      BY <1>1, <1>20, <2>1 DEF DoctorSave, Goto, IsJob, Stage, At
    <3> QED
      BY <1>1, <1>15, <3>1 DEF Typed, At
  <2>2. CASE job[p].snap \cap archived # {}
    BY <1>3, <1>20, <2>2 DEF DoctorSave
  <2> QED
    BY <2>1, <2>2
<1>21. ASSUME DoctorMove(p) PROVE Typed(p)'
  <2>1. /\ IsJob(job'[p]) /\ job'[p].copy = job[p].copy /\ lock' = p
        /\ job[p].stage = "move" /\ job'[p].stage = "read"
    BY <1>1, <1>21 DEF DoctorMove, Acquire, Goto, IsJob, Stage, At
  <2> QED
    BY <1>1, <2>1 DEF Typed, At
<1>22. ASSUME DoctorDedup(p) PROVE Typed(p)'
  <2>1. Without(log.lines, Events(log) \cap Events(old)) \in Lines
    BY KeepsTheRest DEF TypeOK, EventFile
  <2>2. /\ IsJob(job'[p]) /\ job'[p].copy = job[p].copy /\ lock' = p
        /\ job[p].stage = "dedup" /\ job'[p].stage \in {"read", "rewrite"}
    BY <1>1, <1>22, <2>1 DEF DoctorDedup, Acquire, IsJob, Stage, At
  <2> QED
    BY <1>1, <2>2 DEF Typed, At
<1>23. ASSUME NEW i \in Ids, ReadEvents(p, i) PROVE Typed(p)'
  <2>1. /\ IsJob(job'[p]) /\ job'[p].copy = {} /\ lock' = lock /\ job[p].stage = "idle"
        /\ job'[p].stage = "first"
    BY <1>1, <1>23, NoJobTyped DEF ReadEvents, IsJob, Stage, Verb, TypeOK, At
  <2> QED
    BY <1>1, <1>15, <2>1 DEF Typed
<1>24. ASSUME ReadEventsFile(p) PROVE Typed(p)'
  <2>1. UNION {EventsOf(FileReadAt(job[p].stage), i) : i \in job[p].tasks} \subseteq Event
    BY DEF EventsOf, Events
  <2>2. /\ IsJob(job'[p]) /\ job'[p].copy = job[p].copy /\ lock' = lock
        /\ job[p].stage \in {"first", "second"} /\ job'[p].stage \in {"second", "shown"}
    BY <1>1, <1>24, <2>1 DEF ReadEventsFile, IsJob, Stage
  <2> QED
    BY <1>1, <1>15, <2>2 DEF Typed, At
<1> QED
  BY <1>5, <1>6, <1>7, <1>8, <1>9, <1>10, <1>11, <1>12, <1>13, <1>14, <1>16, <1>17, <1>18,
     <1>19, <1>20, <1>21, <1>22, <1>23, <1>24 DEF Step

(* The steps that leave both logs and what was acknowledged alone. *)
Aside(p) ==
  \/ \E i \in Ids :
       \/ Note(p, i)
       \/ \E verb \in {"status", "done"} : Transition(p, verb, i)
       \/ ReadLog(p, i)
       \/ ReadEvents(p, i)
  \/ AppendToArchive(p) \/ WriteTasks(p) \/ EndMove(p)
  \/ DoctorReadTasks(p) \/ DoctorReadArchive(p) \/ DoctorReadLog(p) \/ DoctorReadOld(p)
  \/ DoctorSave(p) \/ DoctorMove(p) \/ DoctorDedup(p)
  \/ ReadEventsFile(p)
  \/ Exit(p)
  \/ Crash(p)

LEMMA AsideKeepsLogs ==
  ASSUME NEW p \in Procs, Aside(p)
  PROVE  log' = log /\ old' = old /\ acknowledged' = acknowledged /\ tears' = tears
  BY DEF Aside, Note, Transition, ReadLog, StartMove, ReadEvents, AppendToArchive, WriteTasks,
         EndMove, DoctorReadTasks, DoctorReadArchive, DoctorReadLog, DoctorReadOld, DoctorSave,
         DoctorMove, DoctorDedup, ReadEventsFile, Exit, Crash, faults

LEMMA VariablesStayTyped ==
  ASSUME TypeOK, JobsOK, NEW p \in Procs, Step(p)
  PROVE  TypeOK' /\ JobsOK'
<1>1. Typed(p)
  BY DEF TypeOK, JobsOK, Typed
<1>2. log' \in EventFile /\ old' \in EventFile /\ acknowledged' \subseteq Event
  <2>1. CASE Aside(p)
    BY <2>1, AsideKeepsLogs DEF TypeOK
  <2>2. CASE AppendEvent(p)
    BY <1>1, <2>2, AppendsLine DEF AppendEvent, TypeOK, Typed, At
  <2>3. CASE TearLog(p) \/ TearOld(p)
    BY <2>3, AppendsFragment DEF TearLog, TearOld, TypeOK
  <2>4. CASE CopyEvent(p)
    <3>1. PICK e \in job[p].copy :
            old' = AppendLine(old, e) /\ log' = log /\ acknowledged' = acknowledged
      BY <2>4 DEF CopyEvent
    <3>2. e \in Event
      BY <1>1, <3>1 DEF Typed, IsJob
    <3> QED
      BY <3>1, <3>2, AppendsLine DEF TypeOK
  <2>5. CASE RewriteLog(p)
    BY <1>1, <2>5, WholeFile DEF RewriteLog, TypeOK, Typed, IsJob
  <2> QED
    BY <2>1, <2>2, <2>3, <2>4, <2>5 DEF Step, Aside
<1>3. active' \subseteq Ids /\ archived' \subseteq Ids
  <2>1. CASE AppendToArchive(p)
    <3>1. job[p].event.task \in Ids
      BY <1>1, <2>1 DEF AppendToArchive, Holds, At, Typed, Event
    <3> QED
      BY <2>1, <3>1 DEF AppendToArchive, TypeOK
  <2>2. CASE WriteTasks(p)
    BY <2>2 DEF WriteTasks, TypeOK
  <2>3. CASE DoctorSave(p)
    BY <1>1, <2>3 DEF DoctorSave, TypeOK, Typed, IsJob
  <2>4. CASE ~(AppendToArchive(p) \/ WriteTasks(p) \/ DoctorSave(p))
    BY <2>4
       DEF Step, TypeOK, items, Note, Transition, ReadLog, StartMove, ReadEvents, AppendEvent,
           TearLog, CopyEvent, TearOld, RewriteLog, EndMove, DoctorReadTasks,
           DoctorReadArchive, DoctorReadLog, DoctorReadOld, DoctorMove, DoctorDedup,
           ReadEventsFile, Exit, Crash
  <2> QED
    BY <2>1, <2>2, <2>3, <2>4
<1>4. clock' \in 0..MaxEvents /\ crashes' \in 0..MaxCrashes /\ tears' \in 0..MaxTears
  <2>1. clock' = clock \/ (clock < MaxEvents /\ clock' = clock + 1)
    BY DEF Step, Stamp, items, Note, Transition, ReadLog, StartMove, ReadEvents, AppendEvent,
           TearLog, AppendToArchive, WriteTasks, CopyEvent, TearOld, RewriteLog, EndMove,
           DoctorReadTasks, DoctorReadArchive, DoctorReadLog, DoctorReadOld, DoctorSave,
           DoctorMove, DoctorDedup, ReadEventsFile, Exit, Crash
  <2>2. /\ crashes' = crashes \/ (crashes < MaxCrashes /\ crashes' = crashes + 1)
        /\ tears' = tears \/ (tears < MaxTears /\ tears' = tears + 1)
    BY DEF Step, faults, Note, Transition, ReadLog, StartMove, ReadEvents, AppendEvent,
           TearLog, AppendToArchive, WriteTasks, CopyEvent, TearOld, RewriteLog, EndMove,
           DoctorReadTasks, DoctorReadArchive, DoctorReadLog, DoctorReadOld, DoctorSave,
           DoctorMove, DoctorDedup, ReadEventsFile, Exit, Crash
  <2> QED
    BY <2>1, <2>2, EventLogBounds DEF TypeOK
<1>5. lock' \in Procs \cup {None} /\ DOMAIN job' = Procs
  BY StepIsOwn DEF TypeOK
<1>6. \A q \in Procs : Typed(q)'
  BY OthersStayTyped, OwnStaysTyped
<1> QED
  BY <1>2, <1>3, <1>4, <1>5, <1>6 DEF TypeOK, JobsOK, Typed

-----------------------------------------------------------------------------
(***************************************************************************)
(* Timestamps and moves.                                                   *)
(***************************************************************************)
(* No step but the append of an event that was not acknowledged before     *)
(* brings an event into a log that no log had, and old loses none.         *)
LEMMA WhatIsWritten ==
  ASSUME TypeOK, JobsOK, MovesOK, NEW p \in Procs, Step(p)
  PROVE  /\ Events(old) \subseteq Events(old')
         /\ acknowledged \subseteq acknowledged'
         /\ AppendEvent(p) \/ ( /\ acknowledged' = acknowledged
                                /\ Events(old') \subseteq Events(old) \cup Events(log)
                                /\ Events(log') \subseteq Events(log) )
         /\ RewriteLog(p) \/ Events(log) \subseteq Events(log')
<1>1. Typed(p)
  BY DEF TypeOK, JobsOK, Typed
<1>2. CASE Aside(p)
  BY <1>2, AsideKeepsLogs
<1>3. CASE AppendEvent(p)
  BY <1>1, <1>3, AppendsLine DEF AppendEvent, TypeOK, Typed, At
<1>4. CASE TearLog(p) \/ TearOld(p)
  BY <1>4, AppendsFragment DEF TearLog, TearOld, TypeOK
<1>5. CASE CopyEvent(p)
  <2>1. PICK e \in job[p].copy :
          /\ old' = AppendLine(old, e) /\ log' = log /\ acknowledged' = acknowledged
          /\ Holds(p, "copy")
    BY <1>5 DEF CopyEvent
  <2>2. e \in Events(log) /\ e \in Event
    BY <1>1, <2>1 DEF MovesOK, Moving, Holds, At, Typed, IsJob
  <2>3. Events(old) \subseteq Events(old') /\ Events(old') \subseteq Events(old) \cup {e}
    BY <2>1, <2>2, AppendsLine DEF TypeOK
  <2> QED
    BY <2>1, <2>2, <2>3
<1>6. CASE RewriteLog(p)
  <2>1. Kept(p) \subseteq Events(log)
    BY <1>6 DEF RewriteLog, MovesOK, Moving, Holds, At
  <2>2. Events(log') = Kept(p)
    BY <1>1, <1>6, WholeFile DEF RewriteLog, Kept, Typed, IsJob
  <2> QED
    BY <1>6, <2>1, <2>2 DEF RewriteLog
<1> QED
  BY <1>2, <1>3, <1>4, <1>5, <1>6 DEF Step, Aside

(* Which steps enter a stage that others rely on. *)
LEMMA Entering ==
  ASSUME TypeOK, NEW p \in Procs, Step(p)
  PROVE  /\ job'[p].stage = "append" =>
              \E i \in Ids : \/ Note(p, i)
                           \/ \E verb \in {"status", "done"} : Transition(p, verb, i)
         /\ job'[p].stage = "archive" => AppendEvent(p)
         /\ job'[p].stage = "tasks" => AppendToArchive(p)
         /\ job'[p].stage \in {"copy", "rewrite"} =>
              DoctorDedup(p) \/ CopyEvent(p) \/ \E i \in Ids : ReadLog(p, i)
         /\ job'[p].stage = "first" => \E i \in Ids : ReadEvents(p, i)
         /\ job'[p].stage \in {"second", "shown"} => ReadEventsFile(p)
<1>1. DOMAIN job = Procs /\ IsJob(job[p])
  BY DEF TypeOK
<1>2. ASSUME NEW i \in Ids, ReadLog(p, i) PROVE job'[p].stage \in {"read", "copy"}
  BY <1>1, <1>2 DEF ReadLog, StartMove, IsJob
<1>3. ASSUME NEW i \in Ids, ReadEvents(p, i) PROVE job'[p].stage = "first"
  BY <1>1, <1>3 DEF ReadEvents, NoJob
<1>4. ASSUME Stop(p) PROVE job'[p].stage = "idle"
  BY <1>1, <1>4 DEF Stop, NoJob
<1>5. ASSUME NEW stage, Goto(p, stage) PROVE job'[p].stage = stage
  BY <1>1, <1>5 DEF Goto, IsJob
<1>6. AppendEvent(p) => job'[p].stage \in {"archive", "idle"}
  BY <1>4, <1>5 DEF AppendEvent
<1>7. TearLog(p) \/ TearOld(p) \/ Exit(p) \/ Crash(p) => job'[p].stage = "idle"
  BY <1>4 DEF TearLog, TearOld, Exit, Crash
<1>8. /\ AppendToArchive(p) => job'[p].stage = "tasks"
      /\ RewriteLog(p) \/ DoctorMove(p) => job'[p].stage = "read"
      /\ EndMove(p) => job'[p].stage \in {"dedup", "repaired", "idle"}
      /\ DoctorSave(p) => job'[p].stage \in {"move", "dedup", "repaired", "idle"}
  BY <1>4, <1>5 DEF AppendToArchive, RewriteLog, DoctorMove, EndMove, DoctorSave
<1>9. WriteTasks(p) => job'[p].stage = "read"
  BY <1>1 DEF WriteTasks, IsJob
<1>10. DoctorReadTasks(p) => job'[p].stage = "scan_archive"
  BY <1>1 DEF DoctorReadTasks, NoJob
<1>11. /\ DoctorReadArchive(p) => job'[p].stage = "scan_log"
       /\ DoctorReadLog(p) => job'[p].stage = "scan_old"
       /\ DoctorReadOld(p) => job'[p].stage = "save"
  BY <1>1 DEF DoctorReadArchive, DoctorReadLog, DoctorReadOld, IsJob
<1>12. CopyEvent(p) => job'[p].stage \in {"copy", "rewrite"}
  BY <1>1 DEF CopyEvent, IsJob
<1>13. DoctorDedup(p) => job'[p].stage \in {"read", "rewrite"}
  BY <1>1 DEF DoctorDedup, IsJob
<1>14. ReadEventsFile(p) => job'[p].stage \in {"second", "shown"}
  BY <1>1 DEF ReadEventsFile, IsJob
<1>15. ASSUME NEW i \in Ids,
              Note(p, i) \/ \E verb \in {"status", "done"} : Transition(p, verb, i)
       PROVE  job'[p].stage = "append"
  BY <1>1, <1>15 DEF Note, Transition, Stamp, NoJob
<1> QED
  BY <1>2, <1>3, <1>6, <1>7, <1>8, <1>9, <1>10, <1>11, <1>12, <1>13, <1>14, <1>15 DEF Step

LEMMA MovesStayOK ==
  ASSUME TypeOK, JobsOK, MovesOK, NEW p \in Procs, Step(p)
  PROVE  MovesOK'
<1>1. \A q \in Procs : Typed(q)
  BY DEF TypeOK, JobsOK, Typed
<1>2. ASSUME NEW q \in Procs \ {p}, Moving(q)'
      PROVE  job'[q].copy \cup Kept(q)' \subseteq Events(log')
  <2>1. job'[q] = job[q] /\ Moving(q) /\ lock = q
    BY <1>1, <1>2, StepIsOwn DEF Moving, Typed
  <2>2. ~RewriteLog(p)
    BY <2>1 DEF RewriteLog, Holds
  <2> QED
    BY <2>1, <2>2, WhatIsWritten DEF MovesOK, Kept
<1>3. ASSUME Moving(p)' PROVE job'[p].copy \cup Kept(p)' \subseteq Events(log')
  <2>1. IsJob(job[p]) /\ DOMAIN job = Procs /\ log.lines \in Lines
    BY <1>1 DEF Typed, TypeOK, EventFile
  <2>2. ASSUME NEW i \in Ids, ReadLog(p, i)
        PROVE  job'[p].copy \cup Kept(p)' \subseteq Events(log')
    <3>1. /\ job'[p].copy = EventsOf(log, i) /\ log' = log
          /\ job'[p].kept = Without(log.lines, EventsOf(log, i))
      BY <2>1, <2>2 DEF ReadLog, StartMove, IsJob
    <3> QED
      BY <2>1, <3>1, KeepsTheRest DEF Kept, EventsOf, Events
  <2>3. ASSUME DoctorDedup(p)
        PROVE  job'[p].copy \cup Kept(p)' \subseteq Events(log')
    <3>1. /\ job'[p].copy = job[p].copy /\ log' = log /\ job[p].stage = "dedup"
          /\ job'[p].kept = Without(log.lines, Events(log) \cap Events(old))
      BY <2>1, <2>3 DEF DoctorDedup, IsJob, At
    <3>2. job[p].copy = {}
      BY <1>1, <3>1 DEF Typed, At
    <3> QED
      BY <2>1, <3>1, <3>2, KeepsTheRest DEF Kept, EventsOf, Events
  <2>4. ASSUME CopyEvent(p)
        PROVE  job'[p].copy \cup Kept(p)' \subseteq Events(log')
    <3>1. /\ job'[p].copy \subseteq job[p].copy /\ job'[p].kept = job[p].kept
          /\ log' = log /\ Moving(p)
      BY <2>1, <2>4 DEF CopyEvent, IsJob, Holds, At, Moving
    <3> QED
      BY <3>1 DEF MovesOK, Kept
  <2> QED
    BY <1>3, <2>2, <2>3, <2>4, Entering DEF Moving
<1> QED
  BY <1>2, <1>3 DEF MovesOK

(* Who gets to the append has just stamped its event. *)
LEMMA FreshStamp ==
  ASSUME TypeOK, NEW p \in Procs, Step(p), At(p, "append")'
  PROVE  /\ clock' = clock + 1
         /\ job'[p].event \in Event /\ job'[p].event.ts = clock + 1
<1>1. DOMAIN job = Procs /\ IsJob(job[p]) /\ clock \in Nat
  BY EventLogBounds DEF TypeOK
<1>2. ASSUME NEW i \in Ids, NEW verb, NEW kind \in {"note", "status"}, Stamp(p, verb, i, kind)
      PROVE  /\ clock' = clock + 1
             /\ job'[p].event \in Event /\ job'[p].event.ts = clock + 1
  <2>1. /\ job'[p].event = [task |-> i, kind |-> kind, ts |-> clock + 1]
        /\ clock < MaxEvents /\ clock' = clock + 1
    BY <1>1, <1>2 DEF Stamp, NoJob
  <2> QED
    BY <1>1, <2>1, EventLogBounds DEF Event
<1>3. ASSUME \/ \E i \in Ids : Note(p, i)
             \/ \E i \in Ids, verb \in {"status", "done"} : Transition(p, verb, i)
      PROVE  /\ clock' = clock + 1
             /\ job'[p].event \in Event /\ job'[p].event.ts = clock + 1
  BY <1>2, <1>3 DEF Note, Transition
<1> QED
  BY <1>3, Entering DEF At

LEMMA StampsStayOK ==
  ASSUME TypeOK, JobsOK, StampsOK, MovesOK, NEW p \in Procs, Step(p)
  PROVE  StampsOK'
<1>1. /\ clock \in Nat /\ clock' \in {clock, clock + 1}
      /\ \A q \in Procs : Typed(q)
  <2>1. clock' = clock \/ clock' = clock + 1
    BY DEF Step, Stamp, items, Note, Transition, ReadLog, StartMove, ReadEvents, AppendEvent,
           TearLog, AppendToArchive, WriteTasks, CopyEvent, TearOld, RewriteLog, EndMove,
           DoctorReadTasks, DoctorReadArchive, DoctorReadLog, DoctorReadOld, DoctorSave,
           DoctorMove, DoctorDedup, ReadEventsFile, Exit, Crash
  <2> QED
    BY <2>1, EventLogBounds DEF TypeOK, JobsOK, Typed
<1>2. CASE AppendEvent(p)
  <2>1. /\ job[p].event \in Event /\ job[p].event.ts <= clock /\ At(p, "append")
        /\ acknowledged' = acknowledged \cup {job[p].event} /\ clock' = clock
        /\ old' = old /\ ~At(p, "append")'
    BY <1>1, <1>2 DEF AppendEvent, Typed, StampsOK, At, Goto, Stop, NoJob, TypeOK, IsJob
  <2>2. Events(log') \cup Events(old') \subseteq acknowledged'
    BY <1>2, <2>1, AppendsLine DEF AppendEvent, StampsOK, TypeOK
  <2>3. \A e \in acknowledged' : e.ts <= clock'
    BY <2>1 DEF StampsOK
  <2>4. ASSUME NEW q \in Procs, At(q, "append")'
        PROVE  q # p /\ job'[q] = job[q] /\ At(q, "append")
    BY <2>1, <2>4, StepIsOwn DEF At
  <2>5. ASSUME NEW q \in Procs, At(q, "append")'
        PROVE  /\ job'[q].event.ts <= clock'
               /\ job'[q].event \notin acknowledged'
               /\ \A r \in Procs : At(r, "append")' /\ job'[r].event = job'[q].event => r = q
    BY <2>1, <2>4, <2>5 DEF StampsOK
  <2> QED
    BY <2>2, <2>3, <2>5 DEF StampsOK
<1>3. CASE ~AppendEvent(p)
  <2>1. /\ acknowledged' = acknowledged
        /\ Events(log') \cup Events(old') \subseteq acknowledged'
    BY <1>3, WhatIsWritten DEF StampsOK
  <2>2. \A e \in acknowledged' : e \in Event /\ e.ts <= clock /\ e.ts <= clock' /\ e.ts \in Nat
    BY <1>1, <2>1, EventLogBounds DEF StampsOK, TypeOK, Event
  <2>3. ASSUME NEW q \in Procs, At(q, "append")'
        PROVE  \/ /\ q = p /\ clock' = clock + 1 /\ job'[q].event.ts = clock + 1
               \/ /\ q # p /\ job'[q] = job[q] /\ At(q, "append")
                  /\ job[q].event.ts <= clock /\ job[q].event.ts \in Nat
    <3>1. CASE q = p
      BY <2>3, <3>1, FreshStamp
    <3>2. CASE q # p
      <4>1. job'[q] = job[q] /\ At(q, "append")
        BY <2>3, <3>2, StepIsOwn DEF At
      <4>2. job[q].event \in Event
        BY <1>1, <4>1 DEF Typed, At
      <4> QED
        BY <3>2, <4>1, <4>2, EventLogBounds DEF StampsOK, Event
    <3> QED
      BY <3>1, <3>2
  <2>4. ASSUME NEW q \in Procs, At(q, "append")'
        PROVE  job'[q].event.ts <= clock' /\ job'[q].event \notin acknowledged'
    BY <1>1, <2>1, <2>2, <2>3, <2>4 DEF StampsOK
  <2>5. ASSUME NEW q \in Procs, At(q, "append")', NEW r \in Procs, At(r, "append")',
               job'[r].event = job'[q].event
        PROVE  r = q
    BY <1>1, <2>3, <2>5 DEF StampsOK
  <2> QED
    BY <2>1, <2>2, <2>4, <2>5 DEF StampsOK
<1> QED
  BY <1>2, <1>3

-----------------------------------------------------------------------------
(***************************************************************************)
(* Losses.                                                                 *)
(***************************************************************************)
LEMMA NothingLost ==
  ASSUME TypeOK, TypeOK', LossesOK, Lost' \subseteq Lost,
         Fragments(log') + Fragments(old') + tears <= Fragments(log) + Fragments(old) + tears'
  PROVE  LossesOK'
<1>1. IsFiniteSet(Lost') /\ Cardinality(Lost') <= Cardinality(Lost)
  BY FS_Subset DEF LossesOK
<1>2. Cardinality(Lost) \in Nat /\ Cardinality(Lost') \in Nat
  BY <1>1, FS_CardinalityType DEF LossesOK
<1>3. /\ tears \in Nat /\ tears' \in Nat
      /\ Fragments(log) \in Nat /\ Fragments(old) \in Nat
      /\ Fragments(log') \in Nat /\ Fragments(old') \in Nat
  BY EventLogBounds DEF TypeOK, Fragments
<1>4. Cardinality(Lost') + Fragments(log') + Fragments(old') <= tears'
  BY <1>1, <1>2, <1>3 DEF LossesOK
<1> QED
  BY <1>1, <1>4 DEF LossesOK

LEMMA OneLost ==
  ASSUME TypeOK, TypeOK', LossesOK, NEW e, Lost' \subseteq Lost \cup {e}, tears' = tears,
         Fragments(log') + Fragments(old') + 1 = Fragments(log) + Fragments(old)
  PROVE  LossesOK'
<1>1. IsFiniteSet(Lost \cup {e}) /\ Cardinality(Lost \cup {e}) <= Cardinality(Lost) + 1
  <2>1. IsFiniteSet(Lost)
    BY DEF LossesOK
  <2>2. Cardinality(Lost) \in Nat
    BY <2>1, FS_CardinalityType
  <2>3. /\ IsFiniteSet(Lost \cup {e})
        /\ \/ Cardinality(Lost \cup {e}) = Cardinality(Lost)
           \/ Cardinality(Lost \cup {e}) = Cardinality(Lost) + 1
    BY <2>1, FS_AddElement
  <2> QED
    BY <2>2, <2>3
<1>2. IsFiniteSet(Lost') /\ Cardinality(Lost') <= Cardinality(Lost \cup {e})
  BY <1>1, FS_Subset
<1>3. /\ Cardinality(Lost) \in Nat /\ Cardinality(Lost') \in Nat
      /\ Cardinality(Lost \cup {e}) \in Nat
  BY <1>1, <1>2, FS_CardinalityType DEF LossesOK
<1>4. /\ tears \in Nat
      /\ Fragments(log) \in Nat /\ Fragments(old) \in Nat
      /\ Fragments(log') \in Nat /\ Fragments(old') \in Nat
  BY EventLogBounds DEF TypeOK, Fragments
<1>5. Cardinality(Lost') + Fragments(log') + Fragments(old') <= tears'
  BY <1>1, <1>2, <1>3, <1>4 DEF LossesOK
<1> QED
  BY <1>2, <1>5 DEF LossesOK

(* An event is lost when it is appended to a fragment, or when it leaves   *)
(* the log without having arrived in the other; the latter was doomed from *)
(* the moment a fragment swallowed its copy.                               *)
LEMMA AppendLoses ==
  ASSUME TypeOK, JobsOK, MovesOK, NEW p \in Procs, AppendEvent(p), Step(p)
  PROVE  Lost' \subseteq Lost \cup (IF log.torn THEN {job[p].event} ELSE {})
<1> DEFINE e == job[p].event
<1>1. /\ \A q \in Procs : Typed(q)
      /\ e \in Event /\ At(p, "append") /\ old' = old /\ log' = AppendLine(log, e)
      /\ acknowledged' = acknowledged \cup {e}
  BY DEF AppendEvent, TypeOK, JobsOK, Typed, At
<1>2. /\ Events(log) \subseteq Events(log') /\ Events(log') \subseteq Events(log) \cup {e}
      /\ ~log.torn => e \in Events(log')
  BY <1>1, AppendsLine DEF TypeOK
<1> HIDE DEF e
<1>3. ASSUME NEW x \in UnreadableStatusEvents'
      PROVE  x \in Lost \cup (IF log.torn THEN {e} ELSE {})
  BY <1>1, <1>2, <1>3 DEF UnreadableStatusEvents, Unreadable, Lost
<1>4. ASSUME NEW x \in Doomed' PROVE x \in Doomed
  <2>1. PICK q \in Procs : Moving(q)' /\ x \notin job'[q].copy \cup Kept(q)'
    BY <1>4 DEF Doomed
  <2>2. q # p
    BY <2>1, Entering DEF Moving, AppendEvent, DoctorDedup, CopyEvent, ReadLog, StartMove, Holds, At
  <2>3. Moving(q) /\ x \notin job[q].copy \cup Kept(q) /\ lock = q
    BY <1>1, <2>1, <2>2, StepIsOwn DEF Moving, Kept, Typed
  <2>4. e.kind = "note"
    BY <1>1, <2>2, <2>3 DEF Typed, e
  <2>5. x \in Events(log) \ Events(old) /\ x.kind = "status"
    BY <1>1, <1>2, <1>4, <2>4 DEF Doomed
  <2> QED
    BY <2>3, <2>5 DEF Doomed
<1> QED
  BY <1>3, <1>4 DEF Lost, e

LEMMA OthersLose ==
  ASSUME TypeOK, JobsOK, MovesOK, NEW p \in Procs, Step(p), ~AppendEvent(p)
  PROVE  \/ Lost' \subseteq Lost
         \/ /\ CopyEvent(p) /\ old.torn
            /\ \E e \in Event : old' = AppendLine(old, e) /\ Lost' \subseteq Lost \cup {e}
<1>1. \A q \in Procs : Typed(q)
  BY DEF TypeOK, JobsOK, Typed
<1>2. /\ Events(log') \subseteq Events(log) /\ Events(old) \subseteq Events(old')
      /\ acknowledged' = acknowledged
  BY WhatIsWritten
<1>3. UnreadableStatusEvents' \subseteq Lost
  <2>1. ASSUME NEW x \in UnreadableStatusEvents', x \in Events(log)
        PROVE  x \in Doomed
    <3>1. /\ RewriteLog(p) /\ x \notin Events(log') /\ x \notin Events(old)
          /\ x.kind = "status"
      BY <1>2, <2>1, WhatIsWritten DEF UnreadableStatusEvents, Unreadable
    <3>2. Moving(p) /\ job[p].copy = {} /\ Events(log') = Kept(p)
      BY <1>1, <3>1, WholeFile DEF RewriteLog, Moving, Holds, At, Typed, Kept, IsJob
    <3> QED
      BY <2>1, <3>1, <3>2 DEF Doomed
  <2>2. ASSUME NEW x \in UnreadableStatusEvents', x \notin Events(log)
        PROVE  x \in UnreadableStatusEvents
    BY <1>2, <2>2 DEF UnreadableStatusEvents, Unreadable
  <2> QED
    BY <2>1, <2>2 DEF Lost
<1>4. ASSUME NEW x \in Doomed', NEW q \in Procs \ {p},
             Moving(q)', x \notin job'[q].copy \cup Kept(q)'
      PROVE  x \in Doomed
  <2>1. Moving(q) /\ x \notin job[q].copy \cup Kept(q)
    BY <1>4, StepIsOwn DEF Moving, Kept
  <2> QED
    BY <1>2, <1>4, <2>1 DEF Doomed
<1>5. ASSUME NEW x \in Doomed', Moving(p)', x \notin job'[p].copy \cup Kept(p)', ~CopyEvent(p)
      PROVE  FALSE
  <2>1. IsJob(job[p]) /\ DOMAIN job = Procs /\ log.lines \in Lines
    BY <1>1 DEF Typed, TypeOK, EventFile
  <2>2. x \in Events(log) /\ x \notin Events(old)
    BY <1>2, <1>5 DEF Doomed
  <2>3. ASSUME NEW i \in Ids, ReadLog(p, i) PROVE FALSE
    <3>1. /\ job'[p].copy = EventsOf(log, i)
          /\ job'[p].kept = Without(log.lines, EventsOf(log, i))
      BY <2>1, <2>3 DEF ReadLog, StartMove, IsJob
    <3>2. Kept(p)' = Events(log) \ EventsOf(log, i)
      BY <2>1, <3>1, KeepsTheRest DEF Kept, Events
    <3> QED
      BY <1>5, <2>2, <3>1, <3>2
  <2>4. ASSUME DoctorDedup(p) PROVE FALSE
    <3>1. job'[p].kept = Without(log.lines, Events(log) \cap Events(old))
      BY <2>1, <2>4 DEF DoctorDedup, IsJob
    <3>2. Kept(p)' = Events(log) \ Events(old)
      BY <2>1, <3>1, KeepsTheRest DEF Kept, Events
    <3> QED
      BY <1>5, <2>2, <3>2
  <2> QED
    BY <1>5, <2>3, <2>4, Entering DEF Moving
<1>6. CASE ~CopyEvent(p)
  BY <1>3, <1>4, <1>5, <1>6 DEF Lost, Doomed
<1>7. CASE CopyEvent(p)
  <2>1. PICK e \in job[p].copy :
          /\ Holds(p, "copy") /\ old' = AppendLine(old, e)
          /\ job' = [job EXCEPT ![p].copy = @ \ {e},
                                ![p].stage = IF job[p].copy = {e} THEN "rewrite" ELSE "copy"]
    BY <1>7 DEF CopyEvent
  <2>2. /\ e \in Event /\ Moving(p) /\ job'[p].copy = job[p].copy \ {e}
        /\ Kept(p)' = Kept(p)
    BY <1>1, <2>1 DEF Typed, IsJob, TypeOK, Holds, At, Moving, Kept
  <2>3. ASSUME NEW x \in Doomed', x \notin job'[p].copy \cup Kept(p)', x # e
        PROVE  x \in Doomed
    BY <1>2, <2>2, <2>3 DEF Doomed
  <2>4. ~old.torn => e \in Events(old')
    BY <2>1, <2>2, AppendsLine DEF TypeOK
  <2>5. Doomed' \subseteq Doomed \cup {e}
    BY <1>4, <2>3 DEF Doomed
  <2>6. ~old.torn => Doomed' \subseteq Doomed
    BY <2>4, <2>5 DEF Doomed
  <2> QED
    BY <1>3, <1>7, <2>1, <2>2, <2>5, <2>6 DEF Lost
<1> QED
  BY <1>6, <1>7

LEMMA LossesStayOK ==
  ASSUME TypeOK, TypeOK', JobsOK, MovesOK, LossesOK, NEW p \in Procs, Step(p)
  PROVE  LossesOK'
<1>1. /\ Fragments(log) \in 0..1 /\ Fragments(old) \in 0..1 /\ tears \in Nat
      /\ log.torn \in BOOLEAN /\ old.torn \in BOOLEAN
  BY EventLogBounds DEF Fragments, TypeOK, EventFile
<1>2. CASE AppendEvent(p)
  <2>1. job[p].event \in Event /\ log' = AppendLine(log, job[p].event) /\ old' = old /\ tears' = tears
    BY <1>2 DEF AppendEvent, JobsOK, At, faults
  <2>2. Fragments(log') = 0 /\ Fragments(old') = Fragments(old)
    BY <2>1, AppendsLine DEF Fragments, TypeOK
  <2>3. CASE log.torn
    <3>1. Fragments(log) = 1 /\ Lost' \subseteq Lost \cup {job[p].event}
      BY <1>2, <2>3, AppendLoses DEF Fragments
    <3> QED
      BY <1>1, <2>1, <2>2, <3>1, OneLost
  <2>4. CASE ~log.torn
    <3>1. Lost' \subseteq Lost
      BY <1>2, <2>4, AppendLoses
    <3> QED
      BY <1>1, <2>1, <2>2, <3>1, NothingLost
  <2> QED
    BY <2>3, <2>4
<1>3. CASE CopyEvent(p) /\ old.torn /\ ~(Lost' \subseteq Lost)
  <2>1. PICK e \in Event : old' = AppendLine(old, e) /\ Lost' \subseteq Lost \cup {e}
    BY <1>3, OthersLose DEF AppendEvent, CopyEvent, Holds, At
  <2>2. log' = log /\ tears' = tears
    BY <1>3 DEF CopyEvent, faults
  <2>3. Fragments(old') = 0 /\ Fragments(old) = 1 /\ Fragments(log') = Fragments(log)
    BY <1>3, <2>1, <2>2, AppendsLine DEF Fragments, TypeOK
  <2> QED
    BY <1>1, <2>1, <2>2, <2>3, OneLost
<1>4. CASE ~AppendEvent(p) /\ Lost' \subseteq Lost
  <2>1. CASE Aside(p)
    <3>1. log' = log /\ old' = old /\ tears' = tears
      BY <2>1, AsideKeepsLogs
    <3> QED
      BY <1>1, <1>4, <3>1, NothingLost
  <2>2. CASE TearLog(p) \/ TearOld(p)
    <3>1. tears' = tears + 1 /\ (log' = log \/ old' = old)
      BY <2>2 DEF TearLog, TearOld
    <3>2. Fragments(log') \in 0..1 /\ Fragments(old') \in 0..1
      BY DEF Fragments
    <3> QED
      BY <1>1, <1>4, <3>1, <3>2, NothingLost
  <2>3. CASE CopyEvent(p)
    <3>1. PICK e \in Event : old' = AppendLine(old, e) /\ log' = log /\ tears' = tears
      BY <2>3 DEF CopyEvent, JobsOK, TypeOK, IsJob, faults
    <3>2. Fragments(old') = 0
      BY <3>1, AppendsLine DEF Fragments, TypeOK
    <3> QED
      BY <1>1, <1>4, <3>1, <3>2, NothingLost
  <2>4. CASE RewriteLog(p)
    <3>1. old' = old /\ tears' = tears /\ log' = Whole(job[p].kept)
      BY <2>4 DEF RewriteLog, faults
    <3>2. Fragments(log') = 0
      BY <3>1 DEF Fragments, Whole
    <3> QED
      BY <1>1, <1>4, <3>1, <3>2, NothingLost
  <2> QED
    BY <1>4, <2>1, <2>2, <2>3, <2>4 DEF Step, Aside
<1> QED
  BY <1>2, <1>3, <1>4, OthersLose

-----------------------------------------------------------------------------
(***************************************************************************)
(* Readers.                                                                *)
(***************************************************************************)
(* What neither file shows will not come back. *)
LEMMA UnreadableStays ==
  ASSUME TypeOK, JobsOK, StampsOK, MovesOK, NEW p \in Procs, Step(p)
  PROVE  Unreadable \subseteq Unreadable'
<1>1. CASE AppendEvent(p)
  <2>1. /\ job[p].event \in Event /\ job[p].event \notin acknowledged
        /\ log' = AppendLine(log, job[p].event) /\ old' = old
    BY <1>1 DEF AppendEvent, JobsOK, StampsOK, At
  <2>2. Events(log') \subseteq Events(log) \cup {job[p].event}
    BY <2>1, AppendsLine DEF TypeOK
  <2> QED
    BY <2>1, <2>2, WhatIsWritten DEF Unreadable
<1>2. CASE ~AppendEvent(p)
  BY <1>2, WhatIsWritten DEF Unreadable
<1> QED
  BY <1>1, <1>2

LEMMA ReadersStayOK ==
  ASSUME TypeOK, JobsOK, StampsOK, MovesOK, ReadersOK, NEW p \in Procs, Step(p)
  PROVE  ReadersOK'
<1> DEFINE Informed(q) ==
      /\ job[q].stage \in {"first", "second"} =>
            job[q].due \subseteq {e \in acknowledged : e.task \in job[q].tasks}
      /\ At(q, "second") => job[q].due \ job[q].seen \subseteq Events(old) \cup Unreadable
      /\ At(q, "shown") => job[q].due \ job[q].seen \subseteq Unreadable
<1>1. /\ IsJob(job[p]) /\ DOMAIN job = Procs
      /\ Unreadable \subseteq Unreadable' /\ Events(old) \subseteq Events(old')
      /\ acknowledged \subseteq acknowledged'
  BY UnreadableStays, WhatIsWritten DEF TypeOK
<1>2. ASSUME NEW q \in Procs \ {p} PROVE Informed(q)'
  <2>1. job'[q] = job[q]
    BY StepIsOwn
  <2>2. Informed(q)
    BY DEF ReadersOK
  <2> QED
    BY <1>1, <2>1, <2>2 DEF At
<1>3. ASSUME NEW i \in Ids, ReadEvents(p, i) PROVE Informed(p)'
  <2>1. /\ job'[p].stage = "first" /\ job'[p].tasks = {i} /\ acknowledged' = acknowledged
        /\ job'[p].due = {e \in acknowledged : e.task = i}
    BY <1>1, <1>3 DEF ReadEvents, NoJob
  <2> QED
    BY <2>1 DEF At
<1>4. ASSUME ReadEventsFile(p) PROVE Informed(p)'
  <2>1. /\ job'[p].due = job[p].due /\ job'[p].tasks = job[p].tasks
        /\ job[p].seen \cup
             UNION {EventsOf(FileReadAt(job[p].stage), i) : i \in job[p].tasks} = job'[p].seen
        /\ log' = log /\ old' = old /\ acknowledged' = acknowledged
    BY <1>1, <1>4 DEF ReadEventsFile, IsJob
  <2>2. /\ job[p].due \subseteq {e \in acknowledged : e.task \in job[p].tasks}
        /\ Unreadable' = Unreadable
    BY <1>4, <2>1 DEF ReadEventsFile, ReadersOK, Unreadable
  <2>3. ASSUME NEW x \in job[p].due, x \in Events(FileReadAt(job[p].stage))
        PROVE  x \in job'[p].seen
    <3>1. x.task \in job[p].tasks
      BY <2>2
    <3>2. x \in EventsOf(FileReadAt(job[p].stage), x.task)
      BY <2>3 DEF EventsOf
    <3> QED
      BY <2>1, <3>1, <3>2
  <2>4. CASE job[p].stage = "first"
    <3>1. job'[p].stage = "second" /\ FileReadAt(job[p].stage) = log
      BY <1>1, <1>4, <2>4 DEF ReadEventsFile, IsJob, FileReadAt
    <3>2. job'[p].due \ job'[p].seen \subseteq Events(old) \cup Unreadable
      BY <2>1, <2>2, <2>3, <3>1 DEF Unreadable
    <3> QED
      BY <2>1, <2>2, <3>1, <3>2 DEF At
  <2>5. CASE job[p].stage = "second"
    <3>1. job'[p].stage = "shown" /\ FileReadAt(job[p].stage) = old
      BY <1>1, <1>4, <2>5 DEF ReadEventsFile, IsJob, FileReadAt
    <3>2. job[p].due \ job[p].seen \subseteq Events(old) \cup Unreadable
      BY <2>5 DEF ReadersOK, At
    <3>3. job'[p].due \ job'[p].seen \subseteq Unreadable
      BY <2>1, <2>3, <3>1, <3>2
    <3> QED
      BY <2>2, <3>1, <3>3 DEF At
  <2> QED
    BY <1>4, <2>4, <2>5 DEF ReadEventsFile
<1>5. Informed(p)'
  BY <1>3, <1>4, Entering DEF At
<1> QED
  BY <1>2, <1>5 DEF ReadersOK

-----------------------------------------------------------------------------
(***************************************************************************)
(* Without a fault.                                                        *)
(***************************************************************************)
Unharmed ==
  /\ ~log.torn /\ ~old.torn
  /\ \A e \in Event : old.lines[e] <= 1
  /\ Disjoint
  /\ Followed

(* Who moves an event, or is about to, has the lock; nobody else does. *)
LEMMA MoverHasLock ==
  ASSUME TypeOK
  PROVE  /\ \A p \in Procs : Moving(p) => lock = p
         /\ lock = None => \A e \in Event : ~ToBeMoved(e)
  BY NobodyIsNoProc DEF TypeOK, Moving, ToBeMoved

(* A step that leaves the logs and the archived tasks alone, of a process  *)
(* that is not under the lock and does not begin to move events.           *)
LEMMA BystanderHarmsNone ==
  ASSUME TypeOK, TypeOK', JobsOK, Unharmed, NEW p \in Procs, Step(p),
         log' = log, old' = old, archived' = archived, lock # p, ~Moving(p)',
         (At(p, "append") /\ job[p].verb # "note" => job[p].event.task \notin archived)'
  PROVE  Unharmed'
<1>1. /\ \A q \in Procs \ {p} : job'[q] = job[q]
      /\ ~Moving(p)
      /\ lock' = lock \/ lock = None
  BY StepIsOwn, MoverHasLock
<1>2. \A q \in Procs : Moving(q)' =>
        q # p /\ Moving(q) /\ job'[q] = job[q] /\ Kept(q)' = Kept(q)
  BY <1>1 DEF Moving, Kept
<1>3. \A q \in Procs : Moving(q) => Moving(q)'
  BY <1>1 DEF Moving
<1>4. ASSUME NEW e \in Event, ToBeMoved(e) PROVE ToBeMoved(e)'
  <2>1. PICK q \in Procs :
          /\ lock = q
          /\ \/ At(q, "tasks") /\ e.task = job[q].event.task
             \/ job[q].stage \in {"read", "copy", "rewrite"} /\ e.task \in job[q].tasks
             \/ Moving(q) /\ e \notin Kept(q)
    BY <1>4 DEF ToBeMoved
  <2>2. q # p /\ job'[q] = job[q] /\ lock' = q
    BY <1>1, <2>1, NobodyIsNoProc
  <2> QED
    BY <2>1, <2>2 DEF ToBeMoved, At, Moving, Kept
<1>5. Disjoint'
  BY <1>2, <1>3 DEF Unharmed, Disjoint
<1>6. Followed'
  <2>1. ASSUME NEW q \in Procs, At(q, "append")', job'[q].verb # "note"
        PROVE  job'[q].event.task \notin archived'
    BY <1>1, <2>1 DEF Unharmed, Followed, At
  <2>2. \A e \in Events(log') : e.kind = "status" /\ e.task \in archived' => ToBeMoved(e)'
    BY <1>4 DEF Unharmed, Followed, Events
  <2>3. ASSUME NEW q \in Procs, Moving(q)', NEW e \in Kept(q)',
               e.kind = "status", e.task \in archived'
        PROVE  e.task \in job'[q].tasks
    BY <1>2, <2>3 DEF Unharmed, Followed
  <2> QED
    BY <2>1, <2>2, <2>3 DEF Followed
<1> QED
  BY <1>5, <1>6 DEF Unharmed

LEMMA AppendHarmsNone ==
  ASSUME TypeOK, TypeOK', JobsOK, JobsOK', StampsOK, MovesOK, Unharmed,
         NEW p \in Procs, Step(p), AppendEvent(p)
  PROVE  Unharmed'
<1> DEFINE e == job[p].event
<1>1. /\ At(p, "append") /\ e \in Event /\ e \notin acknowledged
      /\ log' = AppendLine(log, e) /\ old' = old /\ archived' = archived
      /\ job[p].verb = "note" <=> e.kind = "note"
      /\ lock = p <=> job[p].verb # "note"
      /\ job[p].verb # "note" => e.task \notin archived
  BY DEF AppendEvent, TypeOK, JobsOK, StampsOK, At, items, Unharmed, Followed
<1>2. /\ Events(log) \subseteq Events(log') /\ Events(log') \subseteq Events(log) \cup {e}
      /\ log'.torn = FALSE /\ Events(log) \cup Events(old) \subseteq acknowledged
  BY <1>1, AppendsLine DEF TypeOK, StampsOK
<1>3. /\ \A q \in Procs \ {p} : job'[q] = job[q]
      /\ ~Moving(p) /\ ~Moving(p)' /\ ~At(p, "append")'
  <2>1. job'[p].stage \notin {"append", "copy", "rewrite"}
    BY <1>1, Entering DEF AppendEvent, Note, Transition, DoctorDedup, CopyEvent, ReadLog,
                          StartMove, Holds, At
  <2> QED
    BY <1>1, <2>1, StepIsOwn DEF Moving, At
<1> HIDE DEF e
<1>4. \A q \in Procs : Moving(q)' =>
        q # p /\ Moving(q) /\ job'[q] = job[q] /\ Kept(q)' = Kept(q)
  BY <1>3 DEF Moving, Kept
<1>5. \A q \in Procs : Moving(q) => Moving(q)'
  BY <1>3 DEF Moving
<1>6. Disjoint'
  BY <1>1, <1>2, <1>4, <1>5 DEF Unharmed, Disjoint
<1>7. ASSUME NEW x \in Events(log'), x.kind = "status", x.task \in archived'
      PROVE  ToBeMoved(x)'
  <2>1. x # e
    BY <1>1, <1>7
  <2>2. x \in Events(log) /\ ToBeMoved(x)
    BY <1>1, <1>2, <1>7, <2>1 DEF Unharmed, Followed
  <2>3. PICK q \in Procs :
          /\ lock = q
          /\ \/ At(q, "tasks") /\ x.task = job[q].event.task
             \/ job[q].stage \in {"read", "copy", "rewrite"} /\ x.task \in job[q].tasks
             \/ Moving(q) /\ x \notin Kept(q)
    BY <2>2 DEF ToBeMoved
  <2>4. q # p
    BY <1>1, <1>3, <2>3 DEF At
  <2>5. job'[q] = job[q] /\ lock' = q
    BY <1>3, <2>3, <2>4, StepIsOwn, NobodyIsNoProc
  <2> QED
    BY <2>3, <2>5 DEF ToBeMoved, At, Moving, Kept
<1>8. Followed'
  <2>1. ASSUME NEW q \in Procs, At(q, "append")', job'[q].verb # "note"
        PROVE  job'[q].event.task \notin archived'
    BY <1>1, <1>3, <2>1 DEF Unharmed, Followed, At
  <2>2. ASSUME NEW q \in Procs, Moving(q)', NEW f \in Kept(q)',
               f.kind = "status", f.task \in archived'
        PROVE  f.task \in job'[q].tasks
    BY <1>1, <1>4, <2>2 DEF Unharmed, Followed
  <2> QED
    BY <1>7, <2>1, <2>2 DEF Followed
<1> QED
  BY <1>1, <1>2, <1>6, <1>8 DEF Unharmed

(* Under the lock only its holder moves events or changes a status.        *)
LEMMA HolderIsAlone ==
  ASSUME TypeOK, TypeOK', JobsOK, NEW p \in Procs, Step(p), lock = p
  PROVE  /\ \A q \in Procs \ {p} : ~Moving(q) /\ ~Moving(q)'
         /\ \A q \in Procs \ {p} : At(q, "append")' => job'[q].verb = "note"
         /\ \A e \in Event : ToBeMoved(e) =>
              \/ At(p, "tasks") /\ e.task = job[p].event.task
              \/ job[p].stage \in {"read", "copy", "rewrite"} /\ e.task \in job[p].tasks
              \/ Moving(p) /\ e \notin Kept(p)
<1>1. lock' \in {p, None}
  BY StepIsOwn
<1>2. \A q \in Procs \ {p} : lock # q /\ lock' # q
  BY <1>1, NobodyIsNoProc
<1>3. \A q \in Procs \ {p} : ~Moving(q) /\ ~Moving(q)'
  BY <1>2 DEF TypeOK, Moving
<1>4. \A q \in Procs \ {p} : At(q, "append")' => job'[q].verb = "note"
  BY <1>2 DEF TypeOK, At
<1> QED
  BY <1>3, <1>4 DEF ToBeMoved

(* tg done writes both item files before it moves. *)
LEMMA DoneHarmsNone ==
  ASSUME TypeOK, TypeOK', JobsOK, Unharmed, NEW p \in Procs, Step(p),
         AppendToArchive(p) \/ WriteTasks(p) \/ EndMove(p)
  PROVE  Unharmed'
<1>1. /\ lock = p /\ log' = log /\ old' = old /\ IsJob(job[p]) /\ DOMAIN job = Procs
      /\ job[p].stage \in {"archive", "tasks", "read"}
  BY DEF AppendToArchive, WriteTasks, EndMove, Holds, At, TypeOK
<1>2. ~Moving(p) /\ ~Moving(p)' /\ ~At(p, "append")'
  BY <1>1, Entering DEF Moving, At, AppendToArchive, WriteTasks, EndMove, Holds, Note, Transition,
                        DoctorDedup, CopyEvent, ReadLog, StartMove
<1>3. /\ \A q \in Procs : ~Moving(q) /\ ~Moving(q)'
      /\ \A q \in Procs : At(q, "append")' => job'[q].verb = "note"
  BY <1>1, <1>2, HolderIsAlone
<1>4. Disjoint'
  BY <1>1, <1>3 DEF Unharmed, Disjoint
<1>5. ASSUME NEW x \in Events(log), x.kind = "status", x.task \in archived'
      PROVE  ToBeMoved(x)'
  <2>1. x \in Event
    BY DEF Events
  <2>2. x.task \in archived =>
          \/ At(p, "tasks") /\ x.task = job[p].event.task
          \/ job[p].stage = "read" /\ x.task \in job[p].tasks
    BY <1>1, <1>2, <1>5, <2>1, HolderIsAlone DEF Unharmed, Followed
  <2>3. CASE AppendToArchive(p)
    <3>1. /\ job[p].stage = "archive" /\ archived' = archived \cup {job[p].event.task}
          /\ job'[p].stage = "tasks" /\ job'[p].event = job[p].event /\ lock' = p
      BY <1>1, <2>3 DEF AppendToArchive, Holds, At, Goto, IsJob
    <3> QED
      BY <1>5, <2>2, <3>1 DEF ToBeMoved, At
  <2>4. CASE WriteTasks(p)
    <3>1. /\ job[p].stage = "tasks" /\ archived' = archived
          /\ job'[p].stage = "read" /\ job'[p].tasks = {job[p].event.task} /\ lock' = p
      BY <1>1, <2>4 DEF WriteTasks, Holds, At, IsJob
    <3> QED
      BY <1>5, <2>2, <3>1 DEF ToBeMoved, At
  <2>5. CASE EndMove(p)
    BY <1>5, <2>2, <2>5 DEF EndMove, Holds, At, items
  <2> QED
    BY <2>3, <2>4, <2>5
<1>6. Followed'
  BY <1>1, <1>3, <1>5 DEF Followed
<1> QED
  BY <1>1, <1>4, <1>6 DEF Unharmed

(* The read finds no event that the other log has. *)
LEMMA ReadHarmsNone ==
  ASSUME TypeOK, TypeOK', JobsOK, Unharmed, NEW p \in Procs, Step(p),
         NEW i \in Ids, ReadLog(p, i)
  PROVE  Unharmed'
<1>1. /\ lock = p /\ lock' = p /\ log' = log /\ old' = old /\ archived' = archived
      /\ IsJob(job[p]) /\ DOMAIN job = Procs /\ log.lines \in Lines
      /\ At(p, "read") /\ ~Moving(p)
  BY DEF ReadLog, StartMove, Holds, At, TypeOK, EventFile, items, Moving
<1>2. /\ job'[p].tasks = job[p].tasks \ {i} /\ job'[p].copy = EventsOf(log, i)
      /\ job'[p].kept = Without(log.lines, EventsOf(log, i))
      /\ job'[p].stage = IF EventsOf(log, i) = {} THEN "read" ELSE "copy"
  BY <1>1 DEF ReadLog, StartMove, IsJob
<1>3. Kept(p)' = Events(log) \ EventsOf(log, i)
  BY <1>1, <1>2, KeepsTheRest DEF Kept, Events
<1>4. Events(log) \cap Events(old) = {}
  BY <1>1, HolderIsAlone DEF Unharmed, Disjoint
<1>5. /\ \A q \in Procs \ {p} : ~Moving(q)'
      /\ \A q \in Procs : At(q, "append")' => job'[q].verb = "note"
  BY <1>1, <1>2, HolderIsAlone DEF At
<1>6. Disjoint'
  <2>1. EventsOf(log, i) \subseteq Events(log)
    BY DEF EventsOf
  <2> QED
    BY <1>1, <1>2, <1>3, <1>4, <1>5, <2>1 DEF Disjoint
<1>7. ASSUME NEW x \in Events(log), x.kind = "status", x.task \in archived
      PROVE  x.task \in job[p].tasks
  <2>1. x \in Event
    BY DEF Events
  <2> QED
    BY <1>1, <1>7, <2>1, HolderIsAlone DEF Unharmed, Followed, At
<1>8. ASSUME NEW x \in Events(log), x.kind = "status", x.task \in archived
      PROVE  ToBeMoved(x)'
  <2>1. CASE x.task = i
    <3>1. x \in EventsOf(log, i)
      BY <2>1 DEF EventsOf
    <3>2. x \notin Kept(p)' /\ Moving(p)'
      BY <1>2, <1>3, <3>1 DEF Moving
    <3> QED
      BY <1>1, <3>2 DEF ToBeMoved
  <2>2. CASE x.task # i
    BY <1>1, <1>2, <1>7, <1>8, <2>2 DEF ToBeMoved
  <2> QED
    BY <2>1, <2>2
<1>9. ASSUME NEW x \in Kept(p)', x.kind = "status", x.task \in archived
      PROVE  x.task \in job'[p].tasks
  <2>1. x \in Events(log) /\ x.task # i
    BY <1>3, <1>9 DEF EventsOf
  <2> QED
    BY <1>2, <1>7, <1>9, <2>1
<1>10. Followed'
  BY <1>1, <1>5, <1>8, <1>9 DEF Followed
<1> QED
  BY <1>1, <1>6, <1>10 DEF Unharmed

LEMMA CopyHarmsNone ==
  ASSUME TypeOK, TypeOK', JobsOK, Unharmed, NEW p \in Procs, Step(p), CopyEvent(p)
  PROVE  Unharmed'
<1>1. PICK e \in job[p].copy :
        /\ Holds(p, "copy") /\ old' = AppendLine(old, e)
        /\ job' = [job EXCEPT ![p].copy = @ \ {e},
                              ![p].stage = IF job[p].copy = {e} THEN "rewrite" ELSE "copy"]
        /\ log' = log /\ archived' = archived /\ lock' = lock
  BY DEF CopyEvent, items
<1>2. /\ IsJob(job[p]) /\ DOMAIN job = Procs /\ lock = p /\ lock' = p /\ Moving(p) /\ e \in Event
  BY <1>1 DEF TypeOK, Holds, At, Moving, IsJob
<1>3. /\ job'[p].copy = job[p].copy \ {e} /\ Kept(p)' = Kept(p)
      /\ job'[p].tasks = job[p].tasks /\ job'[p].stage \in {"copy", "rewrite"}
  BY <1>1, <1>2 DEF IsJob, Kept
<1>4. /\ old'.torn = FALSE /\ Events(old') \subseteq Events(old) \cup {e}
      /\ \A f \in Event \ {e} : old'.lines[f] = old.lines[f]
      /\ old'.lines[e] \in {old.lines[e], old.lines[e] + 1}
  BY <1>1, <1>2, AppendsLine DEF TypeOK
<1>5. /\ (job[p].copy \cup Kept(p)) \cap Events(old) = {}
      /\ job[p].copy \cap Kept(p) = {}
  BY <1>2 DEF Unharmed, Disjoint
<1>6. \A f \in Event : old'.lines[f] <= 1
  <2>1. old.lines[e] = 0
    <3>1. e \notin Events(old)
      BY <1>5
    <3>2. old.lines[e] \in Nat
      BY <1>2 DEF TypeOK, EventFile, Lines
    <3> QED
      BY <1>2, <3>1, <3>2 DEF Events
  <2> QED
    BY <1>4, <2>1 DEF Unharmed
<1>7. /\ \A q \in Procs \ {p} : ~Moving(q)'
      /\ \A q \in Procs : At(q, "append")' => job'[q].verb = "note"
  BY <1>2, <1>3, HolderIsAlone DEF At
<1>8. Disjoint'
  <2>1. Moving(p)'
    BY <1>3 DEF Moving
  <2> QED
    BY <1>3, <1>4, <1>5, <1>7, <2>1 DEF Disjoint
<1>9. ASSUME NEW x \in Events(log), x.kind = "status", x.task \in archived
      PROVE  ToBeMoved(x)'
  <2>1. x \in Event
    BY DEF Events
  <2>2. x.task \in job[p].tasks \/ x \notin Kept(p)
    BY <1>1, <1>2, <1>9, <2>1, HolderIsAlone DEF Unharmed, Followed, Holds, At
  <2> QED
    BY <1>2, <1>3, <2>2 DEF ToBeMoved, Moving
<1>10. \A x \in Kept(p)' : x.kind = "status" /\ x.task \in archived' => x.task \in job'[p].tasks
  BY <1>1, <1>2, <1>3 DEF Unharmed, Followed
<1>11. Followed'
  BY <1>1, <1>7, <1>9, <1>10 DEF Followed
<1> QED
  BY <1>1, <1>4, <1>6, <1>8, <1>11 DEF Unharmed

LEMMA RewriteHarmsNone ==
  ASSUME TypeOK, TypeOK', JobsOK, Unharmed, NEW p \in Procs, Step(p), RewriteLog(p)
  PROVE  Unharmed'
<1>1. /\ IsJob(job[p]) /\ DOMAIN job = Procs /\ lock = p /\ lock' = p /\ Moving(p)
      /\ log' = Whole(job[p].kept) /\ old' = old /\ archived' = archived
      /\ job'[p].stage = "read" /\ job'[p].tasks = job[p].tasks
  BY DEF RewriteLog, Holds, At, Moving, Goto, TypeOK, IsJob, items
<1>2. Events(log') = Kept(p) /\ log'.torn = FALSE
  BY <1>1, WholeFile DEF IsJob, Kept
<1>3. /\ \A q \in Procs : ~Moving(q)'
      /\ \A q \in Procs : At(q, "append")' => job'[q].verb = "note"
  BY <1>1, HolderIsAlone DEF At, Moving
<1>4. Disjoint'
  BY <1>1, <1>2, <1>3 DEF Unharmed, Disjoint
<1>5. ASSUME NEW x \in Kept(p), x.kind = "status", x.task \in archived
      PROVE  ToBeMoved(x)'
  <2>1. x.task \in job'[p].tasks
    BY <1>1, <1>5 DEF Unharmed, Followed
  <2> QED
    BY <1>1, <2>1 DEF ToBeMoved
<1>6. Followed'
  BY <1>1, <1>2, <1>3, <1>5 DEF Followed
<1> QED
  BY <1>1, <1>2, <1>4, <1>6 DEF Unharmed

(* The steps of BystanderHarmsNone: what runs without the lock, and the    *)
(* steps that take it.  Without a fault the doctor has nothing to dedup.   *)
LEMMA OutsideHarmsNone ==
  ASSUME TypeOK, TypeOK', JobsOK, Unharmed, NEW p \in Procs, Step(p),
         \/ \E i \in Ids : \/ Note(p, i) \/ ReadEvents(p, i)
                         \/ \E verb \in {"status", "done"} : Transition(p, verb, i)
         \/ DoctorReadTasks(p) \/ DoctorReadArchive(p) \/ DoctorReadLog(p) \/ DoctorReadOld(p)
         \/ DoctorSave(p) \/ DoctorMove(p) \/ DoctorDedup(p)
         \/ ReadEventsFile(p)
         \/ Exit(p)
  PROVE  Unharmed'
<1>1. IsJob(job[p]) /\ DOMAIN job = Procs
  BY DEF TypeOK
<1>2. log' = log /\ old' = old /\ archived' = archived
  BY DEF Note, ReadEvents, Transition, DoctorReadTasks, DoctorReadArchive, DoctorReadLog,
         DoctorReadOld, DoctorSave, DoctorMove, DoctorDedup, ReadEventsFile, Exit, items
<1>3. lock # p
  BY DEF Note, ReadEvents, Transition, DoctorReadTasks, DoctorReadArchive, DoctorReadLog,
         DoctorReadOld, DoctorSave, DoctorMove, DoctorDedup, ReadEventsFile, Exit, JobsOK, At
<1>4. CASE \E i \in Ids : Note(p, i) \/ \E verb \in {"status", "done"} : Transition(p, verb, i)
  <2>1. ASSUME NEW i \in Ids, NEW kind, NEW verb, Stamp(p, verb, i, kind)
        PROVE  /\ job'[p].stage = "append" /\ job'[p].verb = verb /\ job'[p].event.task = i
    BY <1>1, <2>1 DEF Stamp, NoJob
  <2>2. job'[p].stage = "append" /\ (job'[p].verb # "note" => job'[p].event.task \notin archived)
    BY <1>4, <2>1 DEF Note, Transition
  <2> QED
    BY <1>2, <1>3, <2>2, BystanderHarmsNone DEF Moving
<1>5. CASE DoctorDedup(p)
  <2>1. lock = None
    BY <1>5 DEF DoctorDedup, Acquire
  <2>2. Events(log) \cap Events(old) = {}
    BY <2>1, MoverHasLock, NobodyIsNoProc DEF Unharmed, Disjoint
  <2>3. job'[p].stage = "read"
    BY <1>1, <1>5, <2>2 DEF DoctorDedup, IsJob
  <2> QED
    BY <1>2, <1>3, <2>3, BystanderHarmsNone DEF Moving, At
<1>6. CASE ~DoctorDedup(p) /\ ~\E i \in Ids :
             Note(p, i) \/ \E verb \in {"status", "done"} : Transition(p, verb, i)
  <2>1. ~CopyEvent(p) /\ ~\E i \in Ids : ReadLog(p, i)
    BY <1>3 DEF CopyEvent, ReadLog, StartMove, Holds
  <2>2. job'[p].stage \notin {"append", "copy", "rewrite"}
    BY <1>6, <2>1, Entering
  <2> QED
    BY <1>2, <1>3, <2>2, BystanderHarmsNone DEF Moving, At
<1> QED
  BY <1>4, <1>5, <1>6

LEMMA BothZero ==
  ASSUME NEW m \in Nat, NEW n \in Nat, m + n = 0
  PROVE  m = 0 /\ n = 0
  OBVIOUS

LEMMA NoFaultStaysOK ==
  ASSUME TypeOK, TypeOK', JobsOK, JobsOK', StampsOK, MovesOK, NoFaultOK,
         NEW p \in Procs, Step(p)
  PROVE  NoFaultOK'
<1>0. SUFFICES ASSUME crashes' + tears' = 0 PROVE Unharmed'
  BY DEF NoFaultOK, Unharmed
<1>1. /\ crashes \in Nat /\ crashes' \in Nat /\ tears \in Nat /\ tears' \in Nat
      /\ crashes' = 0 /\ tears' = 0
  <2>1. crashes \in Nat /\ tears \in Nat
    BY EventLogBounds DEF TypeOK
  <2>2. crashes' \in Nat /\ tears' \in Nat
    BY EventLogBounds DEF TypeOK
  <2> QED
    BY <1>0, <2>1, <2>2, BothZero
<1>2. ~Crash(p) /\ ~TearLog(p) /\ ~TearOld(p)
  BY <1>1 DEF Crash, TearLog, TearOld
<1>3. crashes' = crashes /\ tears' = tears
  BY <1>2
     DEF Step, faults, Note, Transition, ReadLog, StartMove, ReadEvents, AppendEvent,
         AppendToArchive, WriteTasks, CopyEvent, RewriteLog, EndMove, DoctorReadTasks,
         DoctorReadArchive, DoctorReadLog, DoctorReadOld, DoctorSave, DoctorMove, DoctorDedup,
         ReadEventsFile, Exit
<1>4. Unharmed
  BY <1>1, <1>3 DEF NoFaultOK, Unharmed
<1>5. AppendEvent(p) => Unharmed'
  BY <1>4, AppendHarmsNone
<1>6. AppendToArchive(p) \/ WriteTasks(p) \/ EndMove(p) => Unharmed'
  BY <1>4, DoneHarmsNone
<1>7. \A i \in Ids : ReadLog(p, i) => Unharmed'
  BY <1>4, ReadHarmsNone
<1>8. CopyEvent(p) => Unharmed'
  BY <1>4, CopyHarmsNone
<1>9. RewriteLog(p) => Unharmed'
  BY <1>4, RewriteHarmsNone
<1> QED
  BY <1>2, <1>4, <1>5, <1>6, <1>7, <1>8, <1>9, OutsideHarmsNone DEF Step

-----------------------------------------------------------------------------
(***************************************************************************)
(* The theorems.                                                           *)
(***************************************************************************)
LEMMA InitLog == Init => LogInv
<1> SUFFICES ASSUME Init PROVE LogInv
  OBVIOUS
<1>1. NoLines \in Lines /\ {e \in Event : NoLines[e] > 0} = {}
  BY DEF NoLines, Lines
<1>2. /\ log \in EventFile /\ old \in EventFile /\ Events(log) = {} /\ Events(old) = {}
      /\ ~log.torn /\ ~old.torn /\ \A e \in Event : old.lines[e] = 0
  <2>1. \A e \in Event : Whole(NoLines).lines[e] = 0
    BY DEF Whole, NoLines
  <2> QED
    BY <1>1, <2>1, WholeFile DEF Init
<1>3. \A p \in Procs : IsJob(job[p]) /\ job[p].stage = "idle" /\ job[p].copy = {}
  BY NoJobTyped DEF Init
<1>4. TypeOK
  BY <1>2, <1>3, EventLogBounds DEF Init, TypeOK, At
<1>5. JobsOK /\ StampsOK /\ MovesOK /\ ReadersOK
  BY <1>2, <1>3, NobodyIsNoProc DEF Init, JobsOK, StampsOK, MovesOK, ReadersOK, At, Moving
<1>6. LossesOK
  <2>1. Lost = {}
    BY <1>2 DEF Init, Lost, UnreadableStatusEvents, Unreadable, Doomed
  <2> QED
    BY <1>2, <2>1, FS_EmptySet DEF Init, LossesOK, Fragments
<1>7. NoFaultOK
  BY <1>2, <1>3 DEF NoFaultOK, Disjoint, Followed, At, Moving
<1> QED
  BY <1>4, <1>5, <1>6, <1>7 DEF LogInv

LEMMA NextLog == LogInv /\ [Next]_vars => LogInv'
<1>1. ASSUME LogInv, NEW p \in Procs, Step(p) PROVE LogInv'
  <2>1. TypeOK' /\ JobsOK'
    BY <1>1, VariablesStayTyped DEF LogInv
  <2>2. MovesOK' /\ StampsOK' /\ ReadersOK'
    BY <1>1, MovesStayOK, StampsStayOK, ReadersStayOK DEF LogInv
  <2>3. LossesOK' /\ NoFaultOK'
    BY <1>1, <2>1, LossesStayOK, NoFaultStaysOK DEF LogInv
  <2> QED
    BY <2>1, <2>2, <2>3 DEF LogInv
<1>2. ASSUME LogInv, UNCHANGED vars PROVE LogInv'
  <2>1. TypeOK' /\ JobsOK'
    BY <1>2 DEF LogInv, vars, TypeOK, JobsOK, At
  <2>2. StampsOK' /\ MovesOK' /\ ReadersOK'
    BY <1>2 DEF LogInv, vars, StampsOK, MovesOK, ReadersOK, At, Moving, Kept, Unreadable
  <2>3. LossesOK'
    BY <1>2 DEF LogInv, vars, LossesOK, Lost, UnreadableStatusEvents, Unreadable, Doomed,
                Moving, Kept
  <2>4. NoFaultOK'
    BY <1>2 DEF LogInv, vars, NoFaultOK, Disjoint, Followed, ToBeMoved, Moving, Kept, At
  <2> QED
    BY <2>1, <2>2, <2>3, <2>4 DEF LogInv
<1> QED
  BY <1>1, <1>2 DEF Next

(* The event log keeps its inductive invariant: who moves has read what is *)
(* in the log, each loss is paid for by an append that was cut short, and  *)
(* without a fault the two logs share only what is being moved.            *)
THEOREM LogInvariant == Spec => []LogInv
  BY InitLog, NextLog, PTL DEF Spec

(* Every variable of the event log has its type, and only the holder of    *)
(* the lock archives, moves or rewrites.                                   *)
THEOREM EventTypes == Spec => []TypeOK
<1>1. LogInv => TypeOK
  BY DEF LogInv
<1> QED
  BY <1>1, LogInvariant, PTL

(* A status event that was acknowledged stays readable, through every      *)
(* move, repair, crash and note; an append cut short costs at most one.    *)
THEOREM StatusEventsAreKept == Spec => []StatusEventsSurvive
<1>1. LogInv => StatusEventsSurvive
  <2> SUFFICES ASSUME LogInv PROVE StatusEventsSurvive
    OBVIOUS
  <2>1. IsFiniteSet(Lost) /\ Cardinality(Lost) + Fragments(log) + Fragments(old) <= tears
    BY DEF LogInv, LossesOK
  <2>2. /\ IsFiniteSet(UnreadableStatusEvents)
        /\ Cardinality(UnreadableStatusEvents) <= Cardinality(Lost)
    BY <2>1, FS_Subset DEF Lost
  <2>3. Cardinality(UnreadableStatusEvents) \in Nat /\ Cardinality(Lost) \in Nat
    BY <2>1, <2>2, FS_CardinalityType
  <2>4. Fragments(log) \in Nat /\ Fragments(old) \in Nat /\ tears \in Nat
    BY EventLogBounds DEF LogInv, TypeOK, Fragments
  <2>5. Cardinality(UnreadableStatusEvents) <= tears
    BY <2>1, <2>2, <2>3, <2>4
  <2> QED
    BY <2>5 DEF StatusEventsSurvive
<1> QED
  BY <1>1, LogInvariant, PTL

(* What tg events shows is complete although events move while it reads    *)
(* one file after the other.                                               *)
THEOREM ReadersSeeAll == Spec => []ReadersMissNothing
<1>1. LogInv => ReadersMissNothing
  BY DEF LogInv, ReadersOK, ReadersMissNothing
<1> QED
  BY <1>1, LogInvariant, PTL

(* Without a fault no event has two lines in the log of archived tasks.    *)
THEOREM NoneIsArchivedTwice == Spec => []ArchivedOnce
<1>1. LogInv => ArchivedOnce
  BY DEF LogInv, NoFaultOK, ArchivedOnce
<1> QED
  BY <1>1, LogInvariant, PTL

(* Without a fault, and while nobody has the lock, the log of active tasks *)
(* holds no event of an archived one but a late note.                      *)
THEOREM EventsFollow == Spec => []EventsFollowTheirTask
<1>1. LogInv => EventsFollowTheirTask
  <2> SUFFICES ASSUME LogInv, crashes + tears = 0, lock = None,
                      NEW e \in Events(log), e.task \in archived
               PROVE  e.kind = "note"
    BY DEF EventsFollowTheirTask
  <2>1. e \in Event /\ TypeOK
    BY DEF LogInv, Events
  <2>2. ~ToBeMoved(e)
    BY <2>1, MoverHasLock
  <2>3. e.kind # "status"
    BY <2>2 DEF LogInv, NoFaultOK, Followed
  <2> QED
    BY <2>1, <2>3 DEF Event
<1> QED
  BY <1>1, LogInvariant, PTL
=============================================================================
