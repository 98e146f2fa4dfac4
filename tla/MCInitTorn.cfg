\* init against a locked command: is state.json always readable?
CONSTANTS
  RootPeer   <- MCRootPeer
  LeafPeer   <- MCLeafPeer
  ValidKey   <- MCValidKey
  OverlayIP  = {"self"}
  DefaultIP  = "self"
  Endpoint   = {}
  NoEndpoint = ""
  Proc       = {p1, p2}
  Inode      = {i1, i2, i3}
  None       = None
  Torn       = Torn
SPECIFICATION SpecInit
INVARIANT Readable
