\* Two processes; a root and a leaf with the same address.
CONSTANTS
  RootPeer     <- MCRootPeer
  LeafPeer     <- MCLeafPeer
  ValidKey     <- MCValidKey
  Configurable <- Peer
  OverlayIP  = {"self"}
  DefaultIP  = "self"
  Endpoint   = {"ep"}
  NoEndpoint = ""
  NoIP       = NoIP
  Proc       = {p1, p2}
  None       = None
SYMMETRY Symmetry
SPECIFICATION Spec
INVARIANTS TypeOK KernelInStep
PROPERTY SyncReconciles
