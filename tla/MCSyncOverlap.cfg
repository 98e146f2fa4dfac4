\* A change made while a sync runs.
CONSTANTS
  RootPeer     <- MCRootPeer
  LeafPeer     <- MCLeafPeer
  ValidKey     <- MCValidKey
  Configurable <- Peer
  OverlayIP  = {"self"}
  DefaultIP  = "self"
  Endpoint   = {"ep"}
  NoEndpoint = ""
  NoIP       = NoIP
  Proc       = {p1, p2}
  None       = None
SYMMETRY Symmetry
SPECIFICATION Spec
INVARIANT PeersInStep
