------------------------------- MODULE Cache --------------------------------
(***************************************************************************)
(* The SQLite cache behind tg query (src/cache/), beside the writers of    *)
(* TaskStore.  A query compares the stamp recorded in cache.db with the    *)
(* item files, without the lock; if they differ it loads the items under   *)
(* the lock, builds a new database outside it in cache.db.tmp-<pid>, and   *)
(* renames that over cache.db, which it then opens once more to answer.    *)
(*                                                                         *)
(* A stamp is a hash of each file with its size and time: here, what the   *)
(* files hold.  Hashes do not collide, and the archive only grows in this  *)
(* composition, so that an old pair of files never comes back unnoticed.   *)
(***************************************************************************)
EXTENDS TaskStore

VARIABLES
  cache,  (* cache.db: the stamp in its _cache_meta and its task_view        *)
  tmps,   (* the processes, dead or alive, whose cache.db.tmp-<pid> exists   *)
  query   (* per process, the tg query or the doctor's cache check it runs   *)

cacheVars == <<vars, cache, tmps, query>>

NoCache == [stamp |-> None, rows |-> EmptyFile]

NoQuery ==
  [ stage |-> "idle",
    drift |-> FALSE,      (* the doctor's check, whose rebuild is not cache.db *)
    stamp |-> None,       (* what it has read of the files, to be compared or
                             recorded                                        *)
    rows  |-> EmptyFile,  (* items loaded, task_view built, or the answer     *)
    inMemory |-> FALSE,   (* the cache could not be written                   *)
    quiet |-> TRUE ]      (* nobody has changed what the answer depends on    *)

CacheInit ==
  /\ Init
  /\ cache = NoCache
  /\ tmps = {}
  /\ query = [p \in Procs |-> NoQuery]

Querying(p, stage) == query[p].stage = stage

(* pid_is_running: a process ends with its command. *)
Running(p) == ~Querying(p, "idle") \/ InProgress(p)

-----------------------------------------------------------------------------
(* populate_task_view: what agents see of a task, computed on a rebuild.   *)
DepthFromRoot(items, i) ==
  LET ancestors == UNION {Reachable(ParentEdges(items), x) : x \in ParentEdges(items)[i]}
      depth == Cardinality(ancestors \cap DOMAIN items)
  IN  IF depth > 64 THEN 64 ELSE depth

TaskView(items, archived) ==
  [i \in DOMAIN items |->
     [ status |-> items[i].status,
       parent |-> items[i].parent,
       depth_from_root |-> DepthFromRoot(items, i),
       is_ready |-> i \in ReadyItems(items, archived),
       unmet_dep_count |->
         Cardinality({d \in items[i].dependencies :
                        ~DependencyMet(d, items, archived)}) ]]

(* compute_source_stamp, one file after the other. *)
SourceStamp == [tasks |-> active, archived |-> archive]

-----------------------------------------------------------------------------
(* tg query: the stamps are computed first, ... *)
StampTasks(p) ==
  /\ Querying(p, "idle")
  /\ query' = [query EXCEPT ![p] = [NoQuery EXCEPT
                 !.stage = "stamping",
                 !.stamp = [SourceStamp EXCEPT !.archived = EmptyFile]]]
  /\ UNCHANGED <<vars, cache, tmps>>

StampArchive(p) ==
  /\ Querying(p, "stamping")
  /\ query' = [query EXCEPT ![p].stage = "checking",
                            ![p].stamp.archived = archive]
  /\ UNCHANGED <<vars, cache, tmps>>

(* Faulty: a cache that exists is used as it is. *)
CheckCache_Exists(p, canWrite) ==
  /\ Querying(p, "checking")
  /\ query' = [query EXCEPT ![p].stage =
                 IF cache # NoCache THEN "open"
                 ELSE IF canWrite THEN "rebuild" ELSE "fallback",
                            ![p].stamp = None]
  /\ UNCHANGED <<vars, cache, tmps>>

(* ... and compared with those in cache.db.  A missing or stale cache is   *)
(* rebuilt, on disk if a file can be created there.                        *)
CheckCache(p, canWrite) ==
  /\ Querying(p, "checking")
  /\ query' = [query EXCEPT ![p].stage =
                 IF cache.stamp = query[p].stamp THEN "open"
                 ELSE IF canWrite THEN "rebuild" ELSE "fallback",
                            ![p].stamp = None]
  /\ UNCHANGED <<vars, cache, tmps>>

(* rebuild_in_memory, under the lock; execute drops the connection it gets *)
(* and goes on to open cache.db.                                           *)
RebuildInMemory(p) ==
  /\ Querying(p, "fallback")
  /\ lock = None
  /\ query' = [query EXCEPT ![p].stage = "open", ![p].inMemory = TRUE]
  /\ UNCHANGED <<vars, cache, tmps>>

(* check_cache_drift of tg doctor: a cache that exists is compared with a  *)
(* rebuild next to it.                                                     *)
CheckCacheDrift(p) ==
  /\ Querying(p, "idle")
  /\ cache # NoCache
  /\ query' = [query EXCEPT ![p].stage = "rebuild", ![p].drift = TRUE]
  /\ UNCHANGED <<vars, cache, tmps>>

(* Faulty: the items are loaded without the lock. *)
LoadItems_Unlocked(p) ==
  /\ Querying(p, "rebuild")
  /\ query' = [query EXCEPT ![p].stage = "loading", ![p].rows = active]
  /\ UNCHANGED <<vars, cache, tmps>>

(* rebuild_to: take the lock, load the active items, ... *)
LoadItems(p) ==
  /\ Querying(p, "rebuild")
  /\ lock = None
  /\ lock' = p
  /\ query' = [query EXCEPT ![p].stage = "loading", ![p].rows = active]
  /\ UNCHANGED <<files, issued, job, crashes, cache, tmps>>

(* ... the archive and the stamp, give it back, and compute the rows.  The *)
(* items pass validate_for_rebuild: the store has no cycles.               *)
LoadArchiveAndStamp(p) ==
  /\ Querying(p, "loading")
  /\ query' = [query EXCEPT ![p].stage = "building",
                            ![p].rows = TaskView(query[p].rows, archive),
                            ![p].stamp = SourceStamp]
  /\ lock' = IF lock = p THEN None ELSE lock
  /\ UNCHANGED <<files, issued, job, crashes, cache, tmps>>

(* Faulty: every leftover is swept. *)
SweepStaleTmps_All == {}

SweepStaleTmps == {q \in tmps : Running(q)}

BuildTempDb(p) ==
  /\ Querying(p, "building")
  /\ tmps' = SweepStaleTmps \cup {p}
  /\ query' = [query EXCEPT ![p].stage = "built"]
  /\ UNCHANGED <<vars, cache>>

(* The queries that have checked cache.db and not opened it yet notice     *)
(* nothing of another process's rename.                                    *)
Overtaken(p) ==
  [q \in Procs |-> IF q # p /\ Querying(q, "open")
                   THEN [query[q] EXCEPT !.quiet = FALSE]
                   ELSE query[q]]

Rebuilt(p) == [stamp |-> query[p].stamp, rows |-> query[p].rows]

(* The rename of rebuild_to: over cache.db, or to cache.db.drift-<pid>.    *)
InstallTempDb(p) ==
  /\ Querying(p, "built")
  /\ p \in tmps
  /\ tmps' = tmps \ {p}
  /\ IF query[p].drift
     THEN /\ query' = [query EXCEPT ![p].stage = "compare"]
          /\ UNCHANGED cache
     ELSE /\ cache' = Rebuilt(p)
          /\ query' = [Overtaken(p) EXCEPT ![p].stage = "open",
                                           ![p].stamp = None,
                                           ![p].rows = EmptyFile]
  /\ UNCHANGED vars

RowCounts(rows) == Cardinality(DOMAIN rows)

(* compare_cache_dbs, and the rename of doctor --fix if they differ.       *)
CompareCacheDbs(p, fix) ==
  /\ Querying(p, "compare")
  /\ IF fix /\ RowCounts(cache.rows) # RowCounts(query[p].rows)
     THEN query' = [query EXCEPT ![p].stage = "repair"]
     ELSE query' = [query EXCEPT ![p] = NoQuery]
  /\ UNCHANGED <<vars, cache, tmps>>

RepairCache(p) ==
  /\ Querying(p, "repair")
  /\ cache' = Rebuilt(p)
  /\ query' = [Overtaken(p) EXCEPT ![p] = NoQuery]
  /\ UNCHANGED <<vars, tmps>>

(* execute opens cache.db again, read-only, whatever it now is; without    *)
(* one there is no answer.                                                 *)
OpenCache(p) ==
  /\ Querying(p, "open")
  /\ query' = [query EXCEPT ![p] =
                 IF cache = NoCache THEN NoQuery
                 ELSE [@ EXCEPT !.stage = "answered", !.rows = cache.rows]]
  /\ UNCHANGED <<vars, cache, tmps>>

QueryExits(p) ==
  /\ Querying(p, "answered")
  /\ query' = [query EXCEPT ![p] = NoQuery]
  /\ UNCHANGED <<vars, cache, tmps>>

(* The process dies in its rebuild; what it has written stays behind. *)
QueryDies(p) ==
  /\ query[p].stage \in {"loading", "building", "built"}
  /\ crashes < MaxCrashes
  /\ crashes' = crashes + 1
  /\ lock' = IF lock = p THEN None ELSE lock
  /\ query' = [query EXCEPT ![p] = NoQuery]
  /\ UNCHANGED <<files, issued, job, cache, tmps>>

QueryStep(p) ==
  /\ ~InProgress(p)
  /\ \/ StampTasks(p)
     \/ StampArchive(p)
     \/ \E canWrite \in BOOLEAN : CheckCache(p, canWrite)
     \/ RebuildInMemory(p)
     \/ CheckCacheDrift(p)
     \/ LoadItems(p)
     \/ LoadArchiveAndStamp(p)
     \/ BuildTempDb(p)
     \/ InstallTempDb(p)
     \/ \E fix \in BOOLEAN : CompareCacheDbs(p, fix)
     \/ RepairCache(p)
     \/ OpenCache(p)
     \/ QueryExits(p)
     \/ QueryDies(p)

(* A step of the store, unnoticed by the queries under way. *)
Unnoticed ==
  /\ query' = [q \in Procs |->
                 IF files' = files \/ Querying(q, "idle")
                 THEN query[q]
                 ELSE [query[q] EXCEPT !.quiet = FALSE]]
  /\ UNCHANGED <<cache, tmps>>

CacheNext ==
  \E p \in Procs :
     \/ Querying(p, "idle") /\ (Command(p) \/ Write(p) \/ Crash(p)) /\ Unnoticed
     \/ QueryStep(p)

CacheSpec == CacheInit /\ [][CacheNext]_cacheVars
-----------------------------------------------------------------------------
(***************************************************************************)
(* Properties.                                                             *)
(***************************************************************************)
(* cache.db is what its stamp says: the rows computed from exactly the     *)
(* files it is stamped with.  If it were not, a stale cache would pass for *)
(* a fresh one until the next commit (cache/rebuild.rs:33-42).             *)
CacheMatchesStamp ==
  cache # NoCache =>
    cache.rows = TaskView(cache.stamp.tasks, cache.stamp.archived)

(* A query sees every commit that ended before it began: if nothing is     *)
(* written meanwhile and no other process renames its own rebuild between  *)
(* this one's check and its opening of cache.db, the answer is the view of *)
(* the store as it is, whatever rebuilds crashed or came late before       *)
(* (cache/mod.rs:264-308).                                                 *)
UndisturbedAnswerIsFresh ==
  \A p \in Procs :
    Querying(p, "answered") /\ query[p].quiet /\ ~query[p].inMemory =>
      query[p].rows = TaskView(active, archive)

(* A rebuild never loses its temporary file to the sweep of a peer         *)
(* (cache/rebuild.rs:126-150), so that its rename finds it.                *)
TempFileIsKept ==
  \A p \in Procs : Querying(p, "built") => p \in tmps

(* "If the cache directory is unwritable (e.g. read-only filesystem),      *)
(* falls back to an in-memory SQLite instance populated with a fresh       *)
(* rebuild ... but the query still runs" (cache/mod.rs:260-263).  A query  *)
(* that falls back would then answer with the store as it is.              *)
FallbackAnswerIsFresh ==
  \A p \in Procs :
    Querying(p, "answered") /\ query[p].quiet /\ query[p].inMemory =>
      query[p].rows = TaskView(active, archive)
-----------------------------------------------------------------------------
(***************************************************************************)
(* What a query or a rebuild under way may rely on: the induction behind   *)
(* the properties of the cache.  What is about to be installed is what its *)
(* stamp says, and a query that nobody has disturbed knows the store.      *)
(***************************************************************************)
QueryStage ==
  {"idle", "stamping", "checking", "rebuild", "fallback", "loading", "building", "built",
   "compare", "repair", "open", "answered"}

IsQuery(r) ==
  r \in [ stage: QueryStage, drift: BOOLEAN, stamp: {r.stamp}, rows: {r.rows},
          inMemory: BOOLEAN, quiet: BOOLEAN ]

MatchesStamp(r) == r.rows = TaskView(r.stamp.tasks, r.stamp.archived)

(* What an undisturbed query has learnt of the files so far. *)
KnowsStore(r) ==
  /\ r.stage = "stamping" => r.stamp = [SourceStamp EXCEPT !.archived = EmptyFile]
  /\ r.stage \in {"checking", "building", "built"} => r.stamp = SourceStamp
  /\ r.stage = "open" /\ ~r.inMemory /\ cache # NoCache => cache.stamp = SourceStamp
  /\ r.stage = "answered" /\ ~r.inMemory => r.rows = TaskView(active, archive)

QueriesOK ==
  /\ CacheMatchesStamp
  /\ tmps \subseteq Procs
  /\ DOMAIN query = Procs
  /\ \A p \in Procs :
        /\ IsQuery(query[p])
        /\ ~Querying(p, "idle") => ~InProgress(p)
        /\ Querying(p, "loading") => lock = p /\ query[p].rows = active
        /\ query[p].stage \in {"built", "compare", "repair", "building"} => MatchesStamp(query[p])
        /\ Querying(p, "built") => p \in tmps
        /\ query[p].quiet => KnowsStore(query[p])
=============================================================================
