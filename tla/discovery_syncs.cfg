SPECIFICATION FairSpec
CONSTANTS
  Items = {p1, p2, d1}
  Databases = {d1}
  Handlers = {h1}
  PageSize = 1
  MaxPages = 2
  MaxTime = 2
  Connects = TRUE
  MaxFaults = 1
INVARIANT TypeOK
INVARIANT NothingSkipped
PROPERTY EachEditOnce
PROPERTY EditsArrive
CHECK_DEADLOCK FALSE
