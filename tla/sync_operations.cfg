SPECIFICATION Spec
CONSTANTS
  Procs = {p1}
  Slots = {s1}
  RunIds = {r1}
  TaskIds = {t1}
  Tokens = {c1, c2}
  Wiped = Wiped
  NoRun = NoRun
  NoTask = NoTask
  MaxRetry = 0
  MaxCrashes = 1
  UserOps <- AllOps
  MaxFaults = 1
SYMMETRY Symmetry
INVARIANT ReapOnlyOrphans
INVARIANT NoCallWithoutToken
CHECK_DEADLOCK FALSE
