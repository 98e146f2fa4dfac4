\* Two processes, any of which may run init or a locked command.
CONSTANTS
  RootPeer   <- MCRootPeer
  LeafPeer   <- MCLeafPeer
  ValidKey   <- MCValidKey
  OverlayIP  = {"self"}
  DefaultIP  = "self"
  Endpoint   = {}
  NoEndpoint = ""
  Proc       = {p1, p2}
  Inode      = {i1, i2, i3}
  None       = None
  Torn       = Torn
SYMMETRY Symmetry
SPECIFICATION SpecInit
INVARIANTS TypeOKInit UniqueIdentities HolderCanMove
