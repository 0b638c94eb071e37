----------------------------- MODULE MCReaders -----------------------------
(***************************************************************************)
(* A small instance of Readers and Cache for TLC: beside the readers and   *)
(* the queries run the commands that change what their answers are about,  *)
(* which items there are, in which file, and what they depend on.  A       *)
(* process runs one command at a time.                                     *)
(***************************************************************************)
EXTENDS MCTaskStore, Readers, Cache

allVars == <<vars, view, cache, tmps, query>>

DependencyCommand(p) ==
  \E i \in Ids :
     \/ \E deps \in SUBSET Ids : Add(p, i, deps, None) \/ Edit(p, i, deps, None)
     \/ Rm(p, i)
     \/ Done(p, i)

MCReaderInit == ReaderInit /\ CacheInit

MCReaderNext ==
  \E p \in Procs :
     \/ /\ Viewing(p, "idle")
        /\ Querying(p, "idle")
        /\ DependencyCommand(p) \/ Write(p) \/ Crash(p)
        /\ Unnoticed
        /\ UNCHANGED view
     \/ /\ Querying(p, "idle")
        /\ ReaderStep(p) \/ ReaderCrash(p)
        /\ UNCHANGED <<cache, tmps, query>>
     \/ /\ Viewing(p, "idle")
        /\ QueryStep(p)
        /\ UNCHANGED view

MCReaderSpec == MCReaderInit /\ [][MCReaderNext]_allVars
=============================================================================
