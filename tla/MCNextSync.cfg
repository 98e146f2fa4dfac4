\* A peer that cannot be configured, one that can, and the next sync.
CONSTANTS
  RootPeer     <- MCNoRoot
  LeafPeer     <- MCMixedLeaf
  ValidKey     <- MCValidKey
  Configurable <- MCMixedGood
  OverlayIP  = {"self"}
  DefaultIP  = "self"
  Endpoint   = {"ep"}
  NoEndpoint = ""
  NoIP       = NoIP
  Proc       = {p1, p2}
  None       = None
SYMMETRY Symmetry
SPECIFICATION Spec
PROPERTY NextSyncReconciles
