---------------------------- MODULE ReaderProofs ----------------------------
(***************************************************************************)
(* What the commands that read (Readers) and the query cache (Cache) find, *)
(* proved for any number of tasks, agents, processes and crashes.          *)
(***************************************************************************)
EXTENDS TaskCommitProofs, Readers, Cache

(* CommitInv comes with the store: what a reader needs of it is that the   *)
(* archive only grows and that nobody writes while it holds the lock.      *)
ReaderInv == CommitInv /\ ViewsOK

(* A step of another process's commit leaves every reader what it had.     *)
LEMMA StoreStepKeepsViews ==
  ASSUME ReaderInv, CommitInv', NEW p \in Procs,
         \/ Viewing(p, "idle") /\ view' = view
         \/ view' = [view EXCEPT ![p] = NoView],
         Command(p) \/ Write(p) \/ Crash(p)
  PROVE  ViewsOK'
<1>1. /\ lock \in {None, p} /\ lock' \in {None, p}
      /\ \A q \in Procs \ {p} : job'[q] = job[q]
  BY StepIsOwn DEF ReaderInv, CommitInv, StoreInv
<1>2. DOMAIN archive \subseteq DOMAIN archive'
  BY FileSteps DEF ReaderInv, Next
<1>3. ASSUME NEW q \in Procs, Viewing(q, "evaluate"), q # p PROVE FALSE
  BY <1>1, <1>3, NoneIsNoProc DEF ReaderInv, ViewsOK
<1>4. DOMAIN view' = Procs /\ \A q \in Procs \ {p} : view'[q] = view[q]
  BY DEF ReaderInv, ViewsOK
<1>5. (view'[p] = view[p] /\ Viewing(p, "idle")) \/ view'[p] = NoView
  BY DEF ReaderInv, ViewsOK
<1>6. Viewing(p, "idle")' /\ IsView(view'[p])
  <2>1. IsView(NoView) /\ NoView.stage = "idle"
    BY DEF IsView, NoView, ViewStage
  <2>2. IsView(view[p])
    BY DEF ReaderInv, ViewsOK
  <2> QED
    BY <1>5, <2>1, <2>2 DEF Viewing
<1>7. ASSUME NEW q \in Procs \ {p}
      PROVE  /\ IsView(view'[q])
             /\ ~Viewing(q, "idle")' => ~InProgress(q)'
             /\ view'[q].stage \in {"resolve", "archive"} => Looking(view[q])'
             /\ Viewing(q, "answered")' => view'[q].due \subseteq view'[q].found
             /\ ~Viewing(q, "evaluate")'
             /\ Viewing(q, "evaluated")' =>
                   \A i \in view'[q].ready :
                      view'[q].items[i].dependencies \subseteq DOMAIN archive'
  <2>1. view'[q] = view[q] /\ job'[q] = job[q] /\ ~Viewing(q, "evaluate")
    BY <1>1, <1>3, <1>4
  <2>2. Looking(view[q]) => Looking(view[q])'
    BY <1>2, <2>1 DEF Looking
  <2>3. ViewsOK
    BY DEF ReaderInv
  <2>4. /\ IsView(view'[q])
        /\ ~Viewing(q, "idle")' => ~InProgress(q)'
        /\ ~Viewing(q, "evaluate")'
    BY <2>1, <2>3 DEF ViewsOK, Viewing, InProgress
  <2>5. view'[q].stage \in {"resolve", "archive"} => Looking(view[q])'
    BY <2>1, <2>2, <2>3 DEF ViewsOK, Viewing
  <2>6. /\ Viewing(q, "answered")' => view'[q].due \subseteq view'[q].found
        /\ Viewing(q, "evaluated")' =>
              \A i \in view'[q].ready :
                 view'[q].items[i].dependencies \subseteq DOMAIN archive'
    BY <1>2, <2>1, <2>3 DEF ViewsOK, Viewing
  <2> QED
    BY <2>4, <2>5, <2>6
<1> QED
  BY <1>4, <1>6, <1>7 DEF ViewsOK, Viewing

(* A step of a reader itself. *)
LEMMA ReaderStepKeepsInv ==
  ASSUME ReaderInv, NEW p \in Procs, ReaderStep(p)
  PROVE  ReaderInv'
<1>1. /\ ~InProgress(p) /\ DOMAIN view = Procs /\ IsView(view[p])
      /\ UNCHANGED <<files, issued, job, crashes>>
      /\ active' = active /\ archive' = archive /\ job' = job
  BY DEF ReaderInv, ViewsOK, ReaderStep, Show, Dump, LookFor, ResolveId, ReadArchive, LoadTasks,
         EvaluateDependencies, ReaderExits, vars, files
<1>2. /\ lock' = lock \/ (lock \in {None, p} /\ lock' \in {None, p})
      /\ \A q \in Procs \ {p} : view'[q] = view[q]
      /\ DOMAIN view' = Procs
  BY <1>1 DEF ReaderStep, Show, Dump, LookFor, ResolveId, ReadArchive, LoadTasks,
         EvaluateDependencies, ReaderExits, vars
<1>3. CommitInv'
  <2>1. lock' \in Procs \cup {None}
    BY <1>2 DEF ReaderInv, CommitInv, StoreInv, TypeOK
  <2>2. LockProtects'
    BY <1>1, <1>2, NoneIsNoProc DEF ReaderInv, CommitInv, StoreInv, LockProtects, InProgress
  <2>3. crashes' \in crashes..MaxCrashes
    BY <1>1, CrashBound DEF ReaderInv, CommitInv, StoreInv, TypeOK
  <2> QED
    BY <1>1, <2>1, <2>2, <2>3, LockKeepsCommit DEF ReaderInv
<1> DEFINE OK(q) ==
      /\ IsView(view[q])
      /\ ~Viewing(q, "idle") => ~InProgress(q)
      /\ view[q].stage \in {"resolve", "archive"} => Looking(view[q])
      /\ Viewing(q, "answered") => view[q].due \subseteq view[q].found
      /\ Viewing(q, "evaluate") => lock = q /\ view[q].items = active
      /\ Viewing(q, "evaluated") =>
            \A i \in view[q].ready : view[q].items[i].dependencies \subseteq DOMAIN archive
<1>4. ASSUME NEW q \in Procs \ {p} PROVE OK(q)'
  <2>1. OK(q)
    BY DEF ReaderInv, ViewsOK
  <2>2. Viewing(q, "evaluate") => lock' = lock
    BY <1>2, <2>1, NoneIsNoProc
  <2> QED
    BY <1>1, <1>2, <2>1, <2>2 DEF Viewing, InProgress, IsView, Looking
<1>5. OK(p) /\ ~InProgress(p)'
  BY <1>1 DEF ReaderInv, ViewsOK, InProgress
<1>6. ASSUME NEW wanted \in SUBSET Ids, NEW next \in {"resolve", "archive"},
             LookFor(p, wanted, next), next = "resolve" => \E i \in Ids : wanted = {i}
      PROVE  OK(p)'
  <2>1. /\ view'[p].stage = next /\ view'[p].wanted = wanted
        /\ view'[p].due = wanted \cap Known
        /\ view'[p].found = wanted \cap DOMAIN active
    BY <1>1, <1>6 DEF LookFor, NoView, ItemsAt
  <2>2. IsView(view'[p])
    BY <1>1, <1>6 DEF LookFor, NoView, IsView, ViewStage
  <2>3. Looking(view[p])'
    BY <1>1, <1>6, <2>1 DEF Looking, Known
  <2> QED
    BY <1>5, <1>6, <2>1, <2>2, <2>3 DEF Viewing
<1>7. ASSUME ResolveId(p) PROVE OK(p)'
  <2>1. PICK i \in Ids : view[p].wanted = {i}
    BY <1>5, <1>7 DEF ResolveId, Viewing, Looking
  <2>2. Looking(view[p])
    BY <1>5, <1>7 DEF ResolveId, Viewing
  <2>3. /\ view'[p].due = view[p].due /\ view'[p].found = view[p].found
        /\ view'[p].wanted = view[p].wanted /\ IsView(view'[p])
        /\ view'[p].stage \in {"archive", "answered"}
    BY <1>1, <1>7 DEF ResolveId, IsView, ViewStage
  <2>4. view'[p].stage = "answered" =>
          view[p].found # {} \/ view[p].wanted \cap DOMAIN archive = {}
    BY <1>1, <1>7 DEF ResolveId, IsView, ItemsAt
  <2>5. view'[p].stage = "answered" => view[p].due \subseteq view[p].found
    BY <2>1, <2>2, <2>4, <1>1 DEF Looking, IsView
  <2> QED
    BY <1>1, <1>5, <2>1, <2>2, <2>3, <2>5 DEF Viewing, Looking
<1>8. ASSUME ReadArchive(p) PROVE OK(p)'
  <2>1. /\ view'[p].stage = "answered" /\ view'[p].due = view[p].due
        /\ view'[p].found = view[p].found \cup (view[p].wanted \cap DOMAIN archive)
        /\ IsView(view'[p])
    BY <1>1, <1>8 DEF ReadArchive, IsView, ViewStage, ItemsAt
  <2>2. Looking(view[p])
    BY <1>5, <1>8 DEF ReadArchive, Viewing
  <2> QED
    BY <1>1, <1>5, <2>1, <2>2 DEF Viewing, Looking
<1>9. ASSUME LoadTasks(p) PROVE OK(p)'
  <2>1. /\ view'[p].stage = "evaluate" /\ view'[p].items = active /\ lock' = p
        /\ IsView(view'[p])
    BY <1>1, <1>9 DEF LoadTasks, NoView, IsView, ViewStage
  <2> QED
    BY <1>1, <1>5, <2>1 DEF Viewing
<1>10. ASSUME EvaluateDependencies(p) PROVE OK(p)'
  <2>1. /\ view'[p].stage = "evaluated" /\ view'[p].items = active
        /\ view'[p].ready = ReadyItems(active, archive)
        /\ IsView(view'[p])
    BY <1>1, <1>5, <1>10 DEF EvaluateDependencies, IsView, ViewStage, Viewing
  <2>2. ASSUME NEW i \in ReadyItems(active, archive), NEW d \in active[i].dependencies
        PROVE  d \in DOMAIN archive
    BY <2>2 DEF ReadyItems, DependencyMet, ReaderInv, CommitInv, RecordsOK, ClaimDiscipline
  <2> QED
    BY <1>1, <1>5, <2>1, <2>2 DEF Viewing
<1>11. ASSUME ReaderExits(p) PROVE OK(p)'
  <2>1. IsView(NoView) /\ NoView.stage = "idle" /\ view'[p] = NoView
    BY <1>1, <1>11 DEF ReaderExits, IsView, NoView, ViewStage
  <2> QED
    BY <2>1 DEF Viewing
<1>12. OK(p)'
  <2>1. ASSUME NEW i \in Ids, Show(p, i) PROVE OK(p)'
    BY <1>6, <2>1 DEF Show
  <2>2. ASSUME Dump(p) PROVE OK(p)'
    BY <1>6, <2>2 DEF Dump
  <2> QED
    BY <2>1, <2>2, <1>7, <1>8, <1>9, <1>10, <1>11 DEF ReaderStep
<1> QED
  BY <1>2, <1>3, <1>4, <1>12 DEF ReaderInv, ViewsOK

LEMMA InitReader == ReaderInit => ReaderInv
<1> SUFFICES ASSUME ReaderInit PROVE ReaderInv
  OBVIOUS
<1>1. CommitInv
  BY InitCommit DEF ReaderInit
<1>2. IsView(NoView) /\ NoView.stage = "idle"
  BY DEF IsView, NoView, ViewStage
<1> QED
  BY <1>1, <1>2 DEF ReaderInit, ReaderInv, ViewsOK, Viewing

LEMMA NextReader == ReaderInv /\ [ReaderNext]_readerVars => ReaderInv'
<1> SUFFICES ASSUME ReaderInv, [ReaderNext]_readerVars PROVE ReaderInv'
  OBVIOUS
<1>1. ASSUME NEW p \in Procs, Viewing(p, "idle"), Command(p) \/ Write(p), view' = view
      PROVE  ReaderInv'
  <2>1. CommitInv'
    BY <1>1, NextCommit DEF ReaderInv, Next
  <2> QED
    BY <1>1, <2>1, StoreStepKeepsViews DEF ReaderInv
<1>2. ASSUME NEW p \in Procs, ReaderCrash(p) PROVE ReaderInv'
  <2>1. CommitInv'
    BY <1>2, NextCommit DEF ReaderInv, Next, ReaderCrash
  <2> QED
    BY <1>2, <2>1, StoreStepKeepsViews DEF ReaderInv, ReaderCrash
<1>3. CASE UNCHANGED readerVars
  <2>1. CommitInv'
    BY <1>3, NextCommit DEF ReaderInv, readerVars
  <2> QED
    BY <1>3, <2>1
       DEF ReaderInv, ViewsOK, readerVars, vars, Viewing, InProgress, IsView, Looking
<1> QED
  BY <1>1, <1>2, <1>3, ReaderStepKeepsInv DEF ReaderNext

(* Every behavior of the store and its readers keeps ReaderInv. *)
THEOREM ReaderInvariant == ReaderSpec => []ReaderInv
  BY InitReader, NextReader, PTL DEF ReaderSpec

(* tg show and tg dump overlook no task, although tg done moves tasks from *)
(* the file they read first to the file they read later.                   *)
THEOREM ReadersFindMovedTasks == ReaderSpec => []MovedTaskIsFound
<1>1. ReaderInv => MovedTaskIsFound
  BY DEF ReaderInv, ViewsOK, MovedTaskIsFound
<1> QED
  BY <1>1, ReaderInvariant, PTL

(* What tg next and tg ready offer stays free of unmet dependencies until  *)
(* the answer is read: dependencies are archived as done, and for good.    *)
THEOREM OffersStand == ReaderSpec => []OfferedTaskIsUnblocked
<1>1. ReaderInv => OfferedTaskIsUnblocked
  BY DEF ReaderInv, ViewsOK, OfferedTaskIsUnblocked, CommitInv, RecordsOK, ArchivedIsDone
<1> QED
  BY <1>1, ReaderInvariant, PTL

(* The two loads of tg next and tg ready see one state of the store, since *)
(* nobody else can write while they hold the lock (store/mod.rs:124).      *)
THEOREM SnapshotIsOne == ReaderSpec => OneSnapshot
<1>1. ASSUME ReaderInv, [ReaderNext]_readerVars
      PROVE  [ \A p \in Procs : EvaluateDependencies(p) =>
                 view'[p].ready = ReadyItems(active, archive) ]_readerVars
  <2>1. ASSUME NEW p \in Procs, EvaluateDependencies(p)
        PROVE  view'[p].ready = ReadyItems(active, archive)
    <3>1. DOMAIN view = Procs /\ IsView(view[p]) /\ view[p].items = active
      BY <1>1, <2>1 DEF ReaderInv, ViewsOK, EvaluateDependencies
    <3> QED
      BY <2>1, <3>1 DEF EvaluateDependencies, IsView
  <2> QED
    BY <2>1
<1> QED
  BY <1>1, ReaderInvariant, PTL DEF ReaderSpec, OneSnapshot

-----------------------------------------------------------------------------
(***************************************************************************)
(* The query cache.                                                        *)
(***************************************************************************)
CacheInv == CommitInv /\ QueriesOK

(* What QueriesOK says of one query. *)
QueryOK(p) ==
  /\ IsQuery(query[p])
  /\ ~Querying(p, "idle") => ~InProgress(p)
  /\ Querying(p, "loading") => lock = p /\ query[p].rows = active
  /\ query[p].stage \in {"built", "compare", "repair", "building"} => MatchesStamp(query[p])
  /\ Querying(p, "built") => p \in tmps
  /\ query[p].quiet => KnowsStore(query[p])

LEMMA NoQueryOK ==
  /\ IsQuery(NoQuery) /\ NoQuery.stage = "idle"
  /\ KnowsStore(NoQuery)
  BY DEF IsQuery, NoQuery, QueryStage, KnowsStore

(* Whoever only makes a query less sure of what it knows disturbs nothing. *)
LEMMA Disturb ==
  ASSUME NEW r, IsQuery(r)
  PROVE  LET s == [r EXCEPT !.quiet = FALSE]
         IN  /\ IsQuery(s) /\ s.quiet = FALSE /\ s.stage = r.stage
             /\ s.rows = r.rows /\ s.stamp = r.stamp
  BY DEF IsQuery

(* A step of the store goes unnoticed by the queries under way: those that *)
(* counted on the files are no longer quiet.                               *)
LEMMA StoreStepKeepsQueries ==
  ASSUME CacheInv, NEW p \in Procs, Querying(p, "idle"),
         Command(p) \/ Write(p) \/ Crash(p), Unnoticed
  PROVE  QueriesOK'
<1>1. /\ lock \in {None, p}
      /\ \A q \in Procs \ {p} : job'[q] = job[q]
  BY StepIsOwn DEF CacheInv, CommitInv, StoreInv
<1>2. cache' = cache /\ tmps' = tmps /\ DOMAIN query' = Procs
  BY DEF Unnoticed
<1>3. ASSUME NEW q \in Procs PROVE QueryOK(q)'
  <2>1. QueryOK(q)
    BY DEF CacheInv, QueriesOK, QueryOK
  <2>2. ~Querying(q, "idle") => job'[q] = job[q] /\ ~Querying(q, "loading")
    BY <1>1, <2>1, NoneIsNoProc DEF QueryOK
  <2>3. CASE files' = files \/ Querying(q, "idle")
    <3>1. query'[q] = query[q]
      BY <2>3 DEF Unnoticed
    <3>2. query[q].quiet => KnowsStore(query[q])'
      BY <2>1, <2>3, <1>2, <3>1 DEF QueryOK, KnowsStore, SourceStamp, files, Querying
    <3> QED
      BY <1>2, <2>1, <2>2, <3>1, <3>2 DEF QueryOK, Querying, InProgress, IsQuery, MatchesStamp
  <2>4. CASE ~(files' = files \/ Querying(q, "idle"))
    <3>1. query'[q] = [query[q] EXCEPT !.quiet = FALSE]
      BY <2>4 DEF Unnoticed
    <3>2. /\ IsQuery(query'[q]) /\ query'[q].quiet = FALSE
          /\ query'[q].stage = query[q].stage
          /\ query'[q].rows = query[q].rows /\ query'[q].stamp = query[q].stamp
      BY <2>1, <3>1, Disturb DEF QueryOK
    <3> QED
      BY <1>2, <2>1, <2>2, <3>2 DEF QueryOK, Querying, InProgress, IsQuery, MatchesStamp
  <2> QED
    BY <2>3, <2>4
<1>4. CacheMatchesStamp'
  BY <1>2 DEF CacheInv, QueriesOK, CacheMatchesStamp
<1> QED
  BY <1>2, <1>3, <1>4 DEF CacheInv, QueriesOK, QueryOK

(* A step of a query leaves the commits alone, ... *)
LEMMA QueryStepKeepsCommit ==
  ASSUME CacheInv, NEW p \in Procs, QueryStep(p)
  PROVE  /\ CommitInv' /\ UNCHANGED <<files, job>>
         /\ \A q \in Procs \ {p} : lock = q => lock' = q
<1>1. /\ ~InProgress(p) /\ UNCHANGED <<files, issued, job>>
      /\ lock' = lock \/ (lock \in {None, p} /\ lock' \in {None, p})
      /\ crashes' = crashes \/ (crashes < MaxCrashes /\ crashes' = crashes + 1)
  BY DEF QueryStep, StampTasks, StampArchive, CheckCache, RebuildInMemory, CheckCacheDrift,
         LoadItems, LoadArchiveAndStamp, BuildTempDb, InstallTempDb, CompareCacheDbs,
         RepairCache, OpenCache, QueryExits, QueryDies, vars, files
<1>2. crashes' \in crashes..MaxCrashes
  BY <1>1, CrashBound DEF CacheInv, CommitInv, StoreInv, TypeOK
<1>3. lock' \in Procs \cup {None}
  BY <1>1 DEF CacheInv, CommitInv, StoreInv, TypeOK
<1>4. LockProtects'
  BY <1>1, NoneIsNoProc DEF CacheInv, CommitInv, StoreInv, LockProtects, InProgress
<1> QED
  BY <1>1, <1>2, <1>3, <1>4, LockKeepsCommit, NoneIsNoProc DEF CacheInv

(* ... and every other query: it may be overtaken by a rename between its  *)
(* check and its opening of cache.db, but it then knows no more than that. *)
LEMMA QueryStepKeepsOthers ==
  ASSUME CacheInv, NEW p \in Procs, QueryStep(p), NEW q \in Procs \ {p}
  PROVE  QueryOK(q)'
<1>1. /\ UNCHANGED <<files, job>> /\ (lock = q => lock' = q)
      /\ active' = active /\ archive' = archive /\ job' = job
  BY QueryStepKeepsCommit DEF files
<1>2. QueryOK(q) /\ DOMAIN query = Procs
  BY DEF CacheInv, QueriesOK, QueryOK
<1>3. Querying(q, "built") => (q \in tmps => q \in tmps')
  <2>1. ASSUME BuildTempDb(p) PROVE Querying(q, "built") => (q \in tmps => q \in tmps')
    BY <2>1 DEF BuildTempDb, SweepStaleTmps, Running, Querying
  <2>2. ASSUME InstallTempDb(p) PROVE q \in tmps => q \in tmps'
    BY <2>2 DEF InstallTempDb
  <2> QED
    BY <2>1, <2>2
       DEF QueryStep, StampTasks, StampArchive, CheckCache, RebuildInMemory, CheckCacheDrift,
           LoadItems, LoadArchiveAndStamp, CompareCacheDbs, RepairCache, OpenCache,
           QueryExits, QueryDies
<1>4. \/ query'[q] = query[q] /\ (cache' = cache \/ ~Querying(q, "open"))
      \/ query'[q] = [query[q] EXCEPT !.quiet = FALSE]
  <2>1. ASSUME InstallTempDb(p) \/ RepairCache(p)
        PROVE  \/ query'[q] = query[q] /\ (cache' = cache \/ ~Querying(q, "open"))
               \/ query'[q] = [query[q] EXCEPT !.quiet = FALSE]
    BY <1>2, <2>1 DEF InstallTempDb, RepairCache, Overtaken
  <2>2. ASSUME ~(InstallTempDb(p) \/ RepairCache(p))
        PROVE  query'[q] = query[q] /\ cache' = cache
    BY <1>2, <2>2
       DEF QueryStep, StampTasks, StampArchive, CheckCache, RebuildInMemory, CheckCacheDrift,
           LoadItems, LoadArchiveAndStamp, BuildTempDb, CompareCacheDbs, OpenCache,
           QueryExits, QueryDies
  <2> QED
    BY <2>1, <2>2
<1>5. CASE query'[q] = query[q] /\ (cache' = cache \/ ~Querying(q, "open"))
  <2>1. query[q].quiet => KnowsStore(query[q])'
    BY <1>1, <1>2, <1>5 DEF QueryOK, KnowsStore, SourceStamp, Querying
  <2> QED
    BY <1>1, <1>2, <1>3, <1>5, <2>1
       DEF QueryOK, Querying, InProgress, IsQuery, MatchesStamp
<1>6. CASE query'[q] = [query[q] EXCEPT !.quiet = FALSE]
  <2>1. /\ IsQuery(query'[q]) /\ query'[q].quiet = FALSE
        /\ query'[q].stage = query[q].stage
        /\ query'[q].rows = query[q].rows /\ query'[q].stamp = query[q].stamp
    BY <1>2, <1>6, Disturb DEF QueryOK
  <2> QED
    BY <1>1, <1>2, <1>3, <2>1 DEF QueryOK, Querying, InProgress, IsQuery, MatchesStamp
<1> QED
  BY <1>4, <1>5, <1>6

(* The step is what its query needs: it learns the stamp of the files as   *)
(* they are, loads under the lock, and keeps its temporary file.           *)
LEMMA QueryStepKeepsOwn ==
  ASSUME CacheInv, NEW p \in Procs, QueryStep(p)
  PROVE  QueryOK(p)'
<1>1. /\ active' = active /\ archive' = archive /\ ~InProgress(p)'
  BY QueryStepKeepsCommit DEF files, QueryStep, InProgress
<1>2. QueryOK(p) /\ DOMAIN query = Procs /\ IsQuery(query[p]) /\ CacheMatchesStamp
  BY DEF CacheInv, QueriesOK, QueryOK
<1>3. ASSUME query'[p] = NoQuery PROVE QueryOK(p)'
  BY <1>3, NoQueryOK DEF QueryOK, Querying, KnowsStore, NoQuery
<1>4. ASSUME StampTasks(p) PROVE QueryOK(p)'
  <2>1. query'[p] = [NoQuery EXCEPT !.stage = "stamping",
                                    !.stamp = [SourceStamp EXCEPT !.archived = EmptyFile]]
    BY <1>2, <1>4 DEF StampTasks
  <2>2. /\ IsQuery(query'[p]) /\ query'[p].stage = "stamping"
        /\ query'[p].stamp = [SourceStamp EXCEPT !.archived = EmptyFile]
    BY <2>1 DEF IsQuery, NoQuery, QueryStage
  <2>3. query'[p].stamp = [SourceStamp EXCEPT !.archived = EmptyFile]'
    BY <1>1, <2>2 DEF SourceStamp
  <2> QED
    BY <1>1, <2>2, <2>3 DEF QueryOK, Querying, KnowsStore
<1>5. ASSUME StampArchive(p) PROVE QueryOK(p)'
  <2>1. query'[p] = [query[p] EXCEPT !.stage = "checking", !.stamp.archived = archive]
    BY <1>2, <1>5 DEF StampArchive
  <2>2. /\ query'[p].stage = "checking" /\ query'[p].quiet = query[p].quiet
        /\ IsQuery(query'[p])
        /\ query'[p].stamp = [query[p].stamp EXCEPT !.archived = archive]
    BY <1>2, <2>1 DEF IsQuery, QueryStage
  <2>3. query[p].quiet => query'[p].stamp = SourceStamp
    BY <1>2, <1>5, <2>2 DEF QueryOK, KnowsStore, SourceStamp, StampArchive, Querying
  <2> QED
    BY <1>1, <2>2, <2>3 DEF QueryOK, Querying, KnowsStore, SourceStamp
<1>6. ASSUME NEW canWrite \in BOOLEAN, CheckCache(p, canWrite) PROVE QueryOK(p)'
  <2>1. /\ query'[p].stage \in {"open", "rebuild", "fallback"}
        /\ query'[p].quiet = query[p].quiet /\ query'[p].inMemory = query[p].inMemory
        /\ IsQuery(query'[p])
        /\ query'[p].stage = "open" => cache.stamp = query[p].stamp
        /\ query[p].stage = "checking" /\ cache' = cache
    BY <1>2, <1>6 DEF CheckCache, IsQuery, QueryStage, Querying
  <2> QED
    BY <1>1, <1>2, <2>1 DEF QueryOK, Querying, KnowsStore, SourceStamp
<1>7. ASSUME RebuildInMemory(p) \/ CheckCacheDrift(p) PROVE QueryOK(p)'
  <2>1. /\ IsQuery(query'[p])
        /\ \/ query'[p].stage = "open" /\ query'[p].inMemory = TRUE
           \/ query'[p].stage = "rebuild"
    BY <1>2, <1>7 DEF RebuildInMemory, CheckCacheDrift, IsQuery, QueryStage
  <2> QED
    BY <1>1, <2>1 DEF QueryOK, Querying, KnowsStore
<1>8. ASSUME LoadItems(p) PROVE QueryOK(p)'
  <2>1. /\ IsQuery(query'[p]) /\ query'[p].stage = "loading" /\ query'[p].rows = active
        /\ lock' = p
    BY <1>2, <1>8 DEF LoadItems, IsQuery, QueryStage
  <2> QED
    BY <1>1, <2>1 DEF QueryOK, Querying, KnowsStore
<1>9. ASSUME LoadArchiveAndStamp(p) PROVE QueryOK(p)'
  <2>1. query[p].rows = active
    BY <1>2, <1>9 DEF QueryOK, LoadArchiveAndStamp
  <2>2. /\ IsQuery(query'[p]) /\ query'[p].stage = "building"
        /\ query'[p].rows = TaskView(active, archive)
        /\ query'[p].stamp = SourceStamp
    BY <1>2, <1>9, <2>1 DEF LoadArchiveAndStamp, IsQuery, QueryStage
  <2> QED
    BY <1>1, <2>2 DEF QueryOK, Querying, KnowsStore, SourceStamp, MatchesStamp
<1>10. ASSUME BuildTempDb(p) PROVE QueryOK(p)'
  <2>1. /\ IsQuery(query'[p]) /\ query'[p].stage = "built" /\ p \in tmps'
        /\ query'[p].rows = query[p].rows /\ query'[p].stamp = query[p].stamp
        /\ query'[p].quiet = query[p].quiet /\ query[p].stage = "building"
    BY <1>2, <1>10 DEF BuildTempDb, IsQuery, QueryStage, Querying
  <2> QED
    BY <1>1, <1>2, <2>1 DEF QueryOK, Querying, KnowsStore, SourceStamp, MatchesStamp
<1>11. ASSUME InstallTempDb(p) PROVE QueryOK(p)'
  <2>1. CASE query[p].drift
    <3>1. /\ IsQuery(query'[p]) /\ query'[p].stage = "compare"
          /\ query'[p].rows = query[p].rows /\ query'[p].stamp = query[p].stamp
          /\ query[p].stage = "built"
      BY <1>2, <1>11, <2>1 DEF InstallTempDb, IsQuery, QueryStage, Querying
    <3> QED
      BY <1>1, <1>2, <3>1 DEF QueryOK, Querying, KnowsStore, MatchesStamp
  <2>2. CASE ~query[p].drift
    <3>1. /\ IsQuery(query'[p]) /\ query'[p].stage = "open"
          /\ query'[p].quiet = query[p].quiet /\ query[p].stage = "built"
          /\ cache' = Rebuilt(p)
      BY <1>2, <1>11, <2>2 DEF InstallTempDb, Overtaken, IsQuery, QueryStage, Querying
    <3> QED
      BY <1>1, <1>2, <3>1 DEF QueryOK, Querying, KnowsStore, SourceStamp, Rebuilt
  <2> QED
    BY <2>1, <2>2
<1>12. ASSUME NEW fix \in BOOLEAN, CompareCacheDbs(p, fix) PROVE QueryOK(p)'
  <2>1. CASE query'[p] = NoQuery
    BY <1>3, <2>1
  <2>2. CASE query'[p] # NoQuery
    <3>1. /\ IsQuery(query'[p]) /\ query'[p].stage = "repair"
          /\ query'[p].rows = query[p].rows /\ query'[p].stamp = query[p].stamp
          /\ query[p].stage = "compare"
      BY <1>2, <1>12, <2>2 DEF CompareCacheDbs, IsQuery, QueryStage, Querying
    <3> QED
      BY <1>1, <1>2, <3>1 DEF QueryOK, Querying, KnowsStore, MatchesStamp
  <2> QED
    BY <2>1, <2>2
<1>13. ASSUME OpenCache(p) PROVE QueryOK(p)'
  <2>1. CASE cache = NoCache
    <3>1. query'[p] = NoQuery
      BY <1>2, <1>13, <2>1 DEF OpenCache
    <3> QED
      BY <1>3, <3>1
  <2>2. CASE cache # NoCache
    <3>1. /\ IsQuery(query'[p]) /\ query'[p].stage = "answered"
          /\ query'[p].rows = cache.rows /\ query[p].stage = "open"
          /\ query'[p].quiet = query[p].quiet /\ query'[p].inMemory = query[p].inMemory
      BY <1>2, <1>13, <2>2 DEF OpenCache, IsQuery, QueryStage, Querying
    <3>2. cache.rows = TaskView(cache.stamp.tasks, cache.stamp.archived)
      BY <1>2, <2>2 DEF CacheMatchesStamp
    <3> QED
      BY <1>1, <1>2, <2>2, <3>1, <3>2 DEF QueryOK, Querying, KnowsStore, SourceStamp
  <2> QED
    BY <2>1, <2>2
<1>14. ASSUME RepairCache(p) \/ QueryExits(p) \/ QueryDies(p) PROVE QueryOK(p)'
  <2>1. query'[p] = NoQuery
    BY <1>2, <1>14 DEF RepairCache, QueryExits, QueryDies, Overtaken
  <2> QED
    BY <1>3, <2>1
<1> QED
  BY <1>4, <1>5, <1>6, <1>7, <1>8, <1>9, <1>10, <1>11, <1>12, <1>13, <1>14 DEF QueryStep

(* What is renamed over cache.db is what its stamp says. *)
LEMMA QueryStepKeepsCache ==
  ASSUME CacheInv, NEW p \in Procs, QueryStep(p)
  PROVE  CacheMatchesStamp' /\ tmps' \subseteq Procs /\ DOMAIN query' = Procs
<1>1. QueryOK(p) /\ DOMAIN query = Procs /\ CacheMatchesStamp /\ tmps \subseteq Procs
  BY DEF CacheInv, QueriesOK, QueryOK
<1>2. DOMAIN query' = Procs /\ tmps' \subseteq Procs
  BY <1>1
     DEF QueryStep, StampTasks, StampArchive, CheckCache, RebuildInMemory, CheckCacheDrift,
         LoadItems, LoadArchiveAndStamp, BuildTempDb, SweepStaleTmps, InstallTempDb,
         CompareCacheDbs, RepairCache, OpenCache, QueryExits, QueryDies, Overtaken
<1>3. cache' = cache \/ (cache' = Rebuilt(p) /\ query[p].stage \in {"built", "repair"})
  BY DEF QueryStep, StampTasks, StampArchive, CheckCache, RebuildInMemory, CheckCacheDrift,
         LoadItems, LoadArchiveAndStamp, BuildTempDb, InstallTempDb, CompareCacheDbs,
         RepairCache, OpenCache, QueryExits, QueryDies, Querying
<1>4. cache' = Rebuilt(p) /\ query[p].stage \in {"built", "repair"} => CacheMatchesStamp'
  BY <1>1 DEF QueryOK, MatchesStamp, Rebuilt, CacheMatchesStamp
<1>5. cache' = cache => CacheMatchesStamp'
  BY <1>1 DEF CacheMatchesStamp
<1> QED
  BY <1>2, <1>3, <1>4, <1>5

LEMMA InitCache == CacheInit => CacheInv
<1> SUFFICES ASSUME CacheInit PROVE CacheInv
  OBVIOUS
<1>1. CommitInv /\ cache = NoCache /\ tmps = {} /\ DOMAIN query = Procs
  BY InitCommit DEF CacheInit
<1>2. ASSUME NEW p \in Procs PROVE query[p] = NoQuery
  BY DEF CacheInit
<1> QED
  BY <1>1, <1>2, NoQueryOK
     DEF CacheInv, QueriesOK, Querying, CacheMatchesStamp, KnowsStore, NoQuery

LEMMA NextCache == CacheInv /\ [CacheNext]_cacheVars => CacheInv'
<1> SUFFICES ASSUME CacheInv, [CacheNext]_cacheVars PROVE CacheInv'
  OBVIOUS
<1>1. ASSUME NEW p \in Procs, Querying(p, "idle"), Command(p) \/ Write(p) \/ Crash(p), Unnoticed
      PROVE  CacheInv'
  <2>1. CommitInv'
    BY <1>1, NextCommit DEF CacheInv, Next
  <2> QED
    BY <1>1, <2>1, StoreStepKeepsQueries DEF CacheInv
<1>2. ASSUME NEW p \in Procs, QueryStep(p) PROVE CacheInv'
  <2>1. CommitInv'
    BY <1>2, QueryStepKeepsCommit
  <2>2. \A q \in Procs : QueryOK(q)'
    BY <1>2, QueryStepKeepsOwn, QueryStepKeepsOthers
  <2> QED
    BY <1>2, <2>1, <2>2, QueryStepKeepsCache DEF CacheInv, QueriesOK, QueryOK
<1>3. CASE UNCHANGED cacheVars
  <2>1. CommitInv'
    BY <1>3, NextCommit DEF CacheInv, cacheVars
  <2>2. ASSUME NEW p \in Procs PROVE QueryOK(p)'
    <3>1. QueryOK(p)
      BY DEF CacheInv, QueriesOK, QueryOK
    <3> QED
      BY <1>3, <3>1
         DEF cacheVars, vars, QueryOK, Querying, InProgress, IsQuery, MatchesStamp,
             KnowsStore, SourceStamp
  <2>3. CacheMatchesStamp' /\ tmps' \subseteq Procs /\ DOMAIN query' = Procs
    BY <1>3 DEF cacheVars, CacheInv, QueriesOK, CacheMatchesStamp
  <2> QED
    BY <2>1, <2>2, <2>3 DEF CacheInv, QueriesOK, QueryOK
<1> QED
  BY <1>1, <1>2, <1>3 DEF CacheNext

(* Every behavior of the store and its queries keeps CacheInv. *)
THEOREM CacheInvariant == CacheSpec => []CacheInv
  BY InitCache, NextCache, PTL DEF CacheSpec

(* cache.db always is what its stamp says, whichever rebuild was renamed   *)
(* over it and however late (CacheMatchesStamp).                           *)
THEOREM CacheIsItsStamp == CacheSpec => []CacheMatchesStamp
<1>1. CacheInv => CacheMatchesStamp
  BY DEF CacheInv, QueriesOK
<1> QED
  BY <1>1, CacheInvariant, PTL

(* A query that nobody has disturbed answers with the store as it is. *)
THEOREM QuietAnswersAreFresh == CacheSpec => []UndisturbedAnswerIsFresh
<1>1. CacheInv => UndisturbedAnswerIsFresh
  BY DEF CacheInv, QueriesOK, UndisturbedAnswerIsFresh, KnowsStore, Querying
<1> QED
  BY <1>1, CacheInvariant, PTL

(* No sweep takes the temporary file of a rebuild that is still running. *)
THEOREM SweepSparesRunning == CacheSpec => []TempFileIsKept
<1>1. CacheInv => TempFileIsKept
  BY DEF CacheInv, QueriesOK, TempFileIsKept
<1> QED
  BY <1>1, CacheInvariant, PTL
=============================================================================
