SPECIFICATION FairSpec
CONSTANTS
  Procs = {p1}
  Slots = {s1}
  RunIds = {r1, r2}
  TaskIds = {t1, t2}
  Tokens = {c1}
  Wiped = Wiped
  NoRun = NoRun
  NoTask = NoTask
  MaxRetry = 1
  MaxCrashes = 1
  UserOps <- NoOps
  MaxFaults = 0
PROPERTY SyncingEnds
CHECK_DEADLOCK FALSE
