CONSTANTS
  Conn = {s1, s2}
  Dialed = {s1}
  Leaving = {s2}
  ToProposer = s2
  ToActive = {s1}
  Unnumbered = {}
  PoANV = TRUE
  MaxError = 1
  MaxSend = 2
  MaxRead = 1
  NoConn = NoConn
SPECIFICATION FairSpec
CHECK_DEADLOCK FALSE
INVARIANTS TypeOK CloseOrder KilledWhole
PROPERTIES CloseEnds PeerGone
