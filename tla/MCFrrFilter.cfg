\* A command resets the filter while the tree stays as it is.
CONSTANTS
  Peer    = {ip1, ip2}
  Proc    = {p1}
  Agent   = Agent
  None    = None
  Empty   = Empty
  Garbled = Garbled
  Faults  = FALSE
SPECIFICATION Spec
PROPERTY TickReconciles
