SPECIFICATION MCArchiveSpec
CONSTANTS
  Ids = {t1, t2, t3}
  Agents = {a1}
  Procs = {p1}
  None = None
  MaxCrashes = 1
SYMMETRY Symmetry
CHECK_DEADLOCK FALSE
PROPERTIES
  FinishedKept PruneSparesDependencies
