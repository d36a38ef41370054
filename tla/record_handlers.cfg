SPECIFICATION FairSpec
CONSTANTS
  Workers = {w1, w2}
  TaskIds <- TwoIds
  RowIds <- TwoIds
  PageIds <- TwoIds
  NoTask = NoTask
  NoRow = NoRow
  NoPage = NoPage
  MaxEdits = 2
  MaxRetry = 1
  MaxFaults = 1
  UserOps <- AllButClearing
  Faults <- AllFaults
INVARIANT TypeOK
INVARIANT SettledAgrees
INVARIANT OneRowOnePage
PROPERTY Drains
CHECK_DEADLOCK FALSE
