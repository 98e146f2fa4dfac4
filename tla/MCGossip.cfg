\* Every graph over four nodes, one agent watched, one fault.
CONSTANTS
  Node       <- Four
  AllPeers   <- FullMesh
  Links      <- AnyGraph
  Watches    <- OneOfFour
  Interval   = 1
  Timeout    = 1
  StaleAfter = 7
  Slow       = {2}
  FaultKinds = {"cut", "join", "crash", "lost", "unreadable", "device"}
  MaxFaults  = 1
SPECIFICATION FairSpec
INVARIANTS TypeOK ForestOfEdges InformedIsRight
PROPERTIES AnswersCount Converges LossHarmless
