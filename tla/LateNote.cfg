SPECIFICATION Spec
CONSTANTS
  Ids = {t1}
  Procs = {p1, p2}
  None = None
  MaxEvents = 2
  MaxCrashes = 0
  MaxTears = 0
SYMMETRY Symmetry
CHECK_DEADLOCK FALSE
INVARIANTS
  NotesSurvive
