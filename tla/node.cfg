CONSTANTS
  Starts <- AllStarts
  blocFragmentMax = 2
  CreateTest = 1
  ChanCap = 1
  Node = {0, 1, 2}
  MinValidators = 2
  BlockSize = 1
  matAdj <- MatAdj
SPECIFICATION FairSpec
CHECK_DEADLOCK FALSE
INVARIANTS TypeOK SaveCovers PartsCover WaitedFor Counted MetricsKept StaleAtMostOne PanicsBeyond ModelSound
PROPERTY NodeEnds
