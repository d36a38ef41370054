SPECIFICATION Spec
CONSTANTS
  Kinds = {"deliver", "advance", "mail", "index", "enrich"}
  Workers = {w1, w2}
  MaxTasks = 2
  MaxDeliveries = 3
  MaxRequests = 2
  MaxFaults = 1
  MaxRetry = 1
  MaxAttempts = 2
  Threshold = 2
  Steps = 1
SYMMETRY Symmetry
CHECK_DEADLOCK FALSE
INVARIANTS
  TypeOK
  TasksAccounted
  FailuresCounted
  SequenceInOrder
  AgentsKeepRecords
