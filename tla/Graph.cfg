SPECIFICATION GraphSpec
CONSTANTS
  Ids = {t1, t2, t3}
  Agents = {a1}
  Procs = {p1}
  None = None
  MaxCrashes = 1
SYMMETRY Symmetry
CHECK_DEADLOCK FALSE
INVARIANTS
  DependenciesResolve NoDependencyCycle NoParentCycle NeverStuck EditsMendRefusal
PROPERTIES
  NoTaskLost GraphIsWhole
