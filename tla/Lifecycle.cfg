SPECIFICATION Spec
CONSTANTS
  Ids = {t1, t2}
  Agents = {a1, a2}
  Procs = {p1, p2}
  None = None
  MaxCrashes = 2
SYMMETRY Symmetry
CHECK_DEADLOCK FALSE
INVARIANTS
  CommitInv AtMostOneSplit ArchivedIsDone ClaimDiscipline DriftNeedsCrash
PROPERTIES
  EventPrecedesStatus ClaimNeverStolen HistoryKept ImplementsBoard
