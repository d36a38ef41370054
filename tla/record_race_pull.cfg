SPECIFICATION Spec
CONSTANTS
  Workers = {w1}
  TaskIds <- TwoIds
  RowIds <- TwoIds
  PageIds <- TwoIds
  NoTask = NoTask
  NoRow = NoRow
  NoPage = NoPage
  MaxEdits = 3
  MaxRetry = 0
  MaxFaults = 0
  UserOps <- Editing
  Faults <- NoFaults
PROPERTY PullKeepsLocalEdits
CHECK_DEADLOCK FALSE
