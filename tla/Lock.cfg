SPECIFICATION LockSpec
CONSTANTS
  Ids = {t1}
  Agents = {a1}
  Procs = {p1, p2}
  None = None
  MaxCrashes = 1
  InitialBackoff = 1
  MaxBackoff = 3
  TotalTimeout = 9
  GitTimeout = 2
  MaxPassed = 2
PROPERTIES
  CommitsEnd DoneCompletes CallsEnd TimeoutNeedsQueue
