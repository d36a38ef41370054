SPECIFICATION Spec
CONSTANTS
  Workers = {w1}
  Keys = {"k"}
  Clients = {}
  Limit = 2
  Burst = 0
  BufferSize = 1
  BroadcastSize = 1
  MaxRequests = 2
  MaxFaults = 0
CHECK_DEADLOCK FALSE
INVARIANTS
  ServerErrorsNotStored
