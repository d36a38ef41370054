SPECIFICATION PartsSpec
CONSTANTS
  Names = {"acme", "acme inc"}
  Domains = {"acme.com"}
  Norm <- NormDef
  Emails = {"ann"}
  Titles = {"ceo"}
  None = None
  Tags = {}
  Events = {"e1"}
  EventRecord <- ZapierDef
  Given <- GivenDef
  Inputs <- InputsDef
  Edits = {"contact", "company"}
  Workers = {w1, w2}
  MaxCompanies = 2
  MaxRows = 2
  MaxTasks = 1
  MaxRequests = 3
  MaxFaults = 1
SYMMETRY Symmetry
CHECK_DEADLOCK FALSE
INVARIANTS
  PartsTypeOK
  IngestedOnce
  MergeKeeps
  AccountKeepsChanges
  CredentialsEnd
  RoutesAreGuarded
  LimitsHold
  HearOrLeave
  ConnectedAsAsked
  KeysKeepFaith
  RolesAreFilled
  SyncOnlyReads
PROPERTIES
  MergeLeavesNone
  FieldsComeBack
