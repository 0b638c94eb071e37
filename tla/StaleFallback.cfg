SPECIFICATION MCReaderSpec
CONSTANTS
  Ids = {t1, t2}
  Agents = {a1}
  Procs = {p1, p2}
  None = None
  MaxCrashes = 1
SYMMETRY Symmetry
CHECK_DEADLOCK FALSE
INVARIANTS
  FallbackAnswerIsFresh
