CONSTANTS
  Node = {n1, n2}
  NodeZero = n1
  Failing = {n2}
  Client = Client
  Starts <- FourStarts
  NbMessChan = 1
  MaxAsk = 2
SPECIFICATION FairSpec
CHECK_DEADLOCK FALSE
INVARIANTS DealerInv PriorityHeld SocketsRight
PROPERTIES AllConnected ReachesAll
