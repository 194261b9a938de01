CONSTANTS
  Tx <- MCTx
  Command <- MCCommand
  timestamp <- MCTimestamp
  Invalidates <- MCInvalidates
  Inbox <- InboxLow
  Foreign <- ForeignOne
  Threshold = 4
  BlockSize = 2
  DropShare = 2
  StopCap = 1
  Behaviors = {"Nothing"}
  NoItem = NoItem
  NoBlock = NoBlock
SPECIFICATION Spec
CHECK_DEADLOCK FALSE
INVARIANT TxExecutedOnce
