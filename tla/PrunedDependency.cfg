SPECIFICATION MCArchiveSpec
CONSTANTS
  Ids = {t1, t2}
  Agents = {a1}
  Procs = {p1}
  None = None
  MaxCrashes = 0
SYMMETRY Symmetry
CHECK_DEADLOCK FALSE
INVARIANTS
  DependenciesResolve
