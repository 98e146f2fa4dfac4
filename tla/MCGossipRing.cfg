\* A ring of five, three agents watched, nothing goes wrong.
CONSTANTS
  Node       <- Five
  AllPeers   <- RingPeers
  Links      <- RingOnly
  Watches    <- ThreeOfRing
  Interval   = 1
  Timeout    = 1
  StaleAfter = 3
  Slow       = {}
  FaultKinds = {}
  MaxFaults  = 0
SPECIFICATION FairSpec
PROPERTY OneTree
