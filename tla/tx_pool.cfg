CONSTANTS
  Tx <- MCTx
  Command <- MCCommand
  timestamp <- MCTimestamp
  Invalidates <- MCInvalidates
  Inbox <- InboxApart
  Foreign <- ForeignOne
  Threshold = 2
  BlockSize = 1
  DropShare = 2
  StopCap = 1
  Behaviors = {"Nothing", "Ignore", "Drop"}
  NoItem = NoItem
  NoBlock = NoBlock
SPECIFICATION FairSpec
CHECK_DEADLOCK FALSE
INVARIANTS TypeOK PoolInv StopInv StuckNeedsRemovals
PROPERTIES PoolKeeps NobodyWaits
