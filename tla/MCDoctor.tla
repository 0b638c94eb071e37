------------------------------ MODULE MCDoctor ------------------------------
(***************************************************************************)
(* An instance of Doctor for TLC.  Item files are text that people and     *)
(* other tools edit too: it starts from every kind of damage that          *)
(* tests/doctor_test.rs and tests/transition_test.rs write by hand, and    *)
(* from every graph of dependencies or of parents between the tasks, which *)
(* a malformed line keeps all commands but the doctor from changing.       *)
(***************************************************************************)
EXTENDS Doctor, EdgeSearch, CycleDetection, TLC

Symmetry == Permutations(Ids) \cup Permutations(Procs)

Todo(i, deps) == Record(i, NewItem(deps, None))
Finished == ApplyDone(NewItem({}, None))

Files(t, a, l) == [tasks |-> t, archive |-> a, last |-> l]

(* k is a task, i what happened to be damaged. *)
DamagedBy(i, k) ==
  { Files({}, {}, None),
    Files({Todo(i, {}), Todo(k, {i})}, {}, None),
    Files({}, {}, Record(i, Finished)),
    Files({Todo(k, {})}, {Record(i, Finished)}, Fragment),
    Files({Todo(k, {})}, {Identity(i)}, None),
    Files({Todo(k, {i})}, {Foreign(i, Finished)}, None),
    Files({Todo(k, {}), Fragment}, {}, None),
    Files({Todo(k, {}), Identity(i)}, {}, None),
    Files({Todo(k, {}), Todo(i, {}), Todo(i, {k})}, {}, None),
    Files({Todo(k, {})}, {Record(i, Finished), Foreign(i, Finished)}, None),
    Files({Todo(i, {}), Todo(k, {})}, {Record(i, Finished)}, None),
    Files({Todo(i, {}), Todo(k, {})}, {Foreign(i, Finished)}, None),
    Files({Todo(k, {i})}, {}, None),
    Files({Todo(k, {}), BadHeader}, {}, None),
    Files({Todo(k, {})}, {Record(i, Finished), BadHeader}, None),
    Files({Todo(k, {}), Misnamed(NewItem({k}, None))}, {}, None),
    Files({Todo(k, {})}, {Misnamed(Finished)}, None),
    Files({Record(k, NewItem({}, i))}, {}, None),
    Files({}, {Record(k, [Finished EXCEPT !.parent = i])}, None) }

Graph(lines) == Files(lines \cup {Fragment}, {}, None)

Related ==
  {Graph({Todo(i, g[i]) : i \in Ids}) : g \in [Ids -> SUBSET Ids]}
    \cup {Graph({Record(i, NewItem({}, g[i])) : i \in Ids}) : g \in [Ids -> Ids \cup {None}]}

-----------------------------------------------------------------------------
(***************************************************************************)
(* The searches are made on items in memory and touch no file: they are    *)
(* instances of their own, on all graphs between the tasks of any set.     *)
(***************************************************************************)
EdgeSearchAtRest ==
  /\ items = EmptyFile /\ relation = "dependency" /\ source = None /\ target = None
  /\ to_visit = <<>> /\ visited = {} /\ answer = "no_cycle"

DetectionAtRest ==
  /\ kind = "dependencies" /\ edges = EmptyFile /\ phase = "done"
  /\ in_degree = EmptyFile /\ queue = {} /\ processed = {}
  /\ starts = {} /\ globally_visited = {}
  /\ stack = <<>> /\ path = <<>> /\ path_set = {} /\ current = None
  /\ found_cycles = {}

DependencyGraphs ==
  UNION {{[i \in D |-> NewItem(g[i], None)] : g \in [D -> SUBSET Ids]} : D \in SUBSET Ids}
ParentGraphs ==
  UNION {{[i \in D |-> NewItem({}, g[i])] : g \in [D -> Ids \cup {None}]} : D \in SUBSET Ids}

MCSearchInit ==
  /\ DoctorInit({}, {}, None)
  /\ \/ /\ DetectionAtRest
        /\ \E from, to \in Ids :
              \/ \E file \in DependencyGraphs : Search("dependency", file, from, to)
              \/ \E file \in ParentGraphs : Search("parent", file, from, to)
     \/ /\ EdgeSearchAtRest
        /\ \/ \E file \in DependencyGraphs : Detect("dependencies", DependencyEdges(file))
           \/ \E file \in ParentGraphs : Detect("parents", ParentEdges(file))

MCDoctorInit ==
  \/ /\ EdgeSearchAtRest /\ DetectionAtRest
     /\ \/ \E i, k \in Ids : \E f \in DamagedBy(i, k) :
              i # k /\ DoctorInit(f.tasks, f.archive, f.last)
        \/ \E f \in Related : DoctorInit(f.tasks, f.archive, f.last)
  \/ MCSearchInit

MCDoctorNext ==
  \/ /\ EdgeSearchAtRest /\ DetectionAtRest
     /\ DoctorNext /\ UNCHANGED <<searchVars, detectionVars>>
  \/ SearchNext /\ UNCHANGED <<doctorVars, detectionVars>>
  \/ DetectionNext /\ UNCHANGED <<doctorVars, searchVars>>

MCDoctorSpec == MCDoctorInit /\ [][MCDoctorNext]_<<doctorVars, searchVars, detectionVars>>
=============================================================================
