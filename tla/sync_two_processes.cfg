SPECIFICATION Spec
CONSTANTS
  Procs = {p1, p2}
  Slots = {s1}
  RunIds = {r1, r2}
  TaskIds = {t1, t2}
  Tokens = {c1}
  Wiped = Wiped
  NoRun = NoRun
  NoTask = NoTask
  MaxRetry = 0
  MaxCrashes = 1
  UserOps <- TriggerOnly
  MaxFaults = 1
SYMMETRY Symmetry
INVARIANT TypeOK
INVARIANT RowFollowsSync
PROPERTY KeepsRunLog
PROPERTY GuardSeesSyncs
CHECK_DEADLOCK FALSE
