\* The agent and two command processes, one peer: all of their races.
CONSTANTS
  Peer    = {ip1}
  Proc    = {p1, p2}
  Agent   = Agent
  None    = None
  Empty   = Empty
  Garbled = Garbled
  Faults  = TRUE
SPECIFICATION FairSpec
INVARIANTS TypeOK FrrInStep OneText
PROPERTY FilterFollowsTree
