SPECIFICATION Spec
CONSTANTS
  MaxHeight = 5
  TxHeights <- MCTxHeights
  Calls <- MCCalls
  BatchSize = 2
  QueueSize = 2
  CheckFails = FALSE
  MaxKills = 0
CHECK_DEADLOCK FALSE
INVARIANTS CapturesAll
