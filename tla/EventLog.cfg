SPECIFICATION Spec
CONSTANTS
  Ids = {t1, t2}
  Procs = {p1, p2}
  None = None
  MaxEvents = 2
  MaxCrashes = 1
  MaxTears = 1
SYMMETRY Symmetry
CHECK_DEADLOCK FALSE
INVARIANTS
  StatusEventsSurvive ReadersMissNothing ArchivedOnce EventsFollowTheirTask
