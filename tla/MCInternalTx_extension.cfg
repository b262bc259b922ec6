SPECIFICATION FairSpec
CONSTANTS
  MaxHeight = 7
  TxHeights <- MCTxHeights
  Calls <- MCCalls
  BatchSize = 2
  QueueSize = 3
  CheckFails = TRUE
  MaxKills = 2
CHECK_DEADLOCK FALSE
INVARIANTS TypeOK PushHasRoom NumberedInOrder NothingSkipped
PROPERTIES AllIndexed
