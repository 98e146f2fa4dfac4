\* A tick that loaded state.json before a command changed it.
CONSTANTS
  Peer    = {ip1, ip2}
  Proc    = {p1}
  Agent   = Agent
  None    = None
  Empty   = Empty
  Garbled = Garbled
  Faults  = FALSE
SPECIFICATION Spec
INVARIANT NeighborsInStep
