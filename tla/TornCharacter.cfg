SPECIFICATION MCDoctorSpec
CONSTANTS
  Ids = {t1, t2, t3}
  Agents = {a1}
  Procs = {p1, p2}
  None = None
  BadId = BadId
  MaxCrashes = 1
  MaxTasks = 2
SYMMETRY Symmetry
CHECK_DEADLOCK FALSE
INVARIANTS
  TruncatedWriteIsRecovered
