\* Two command processes over peers that conflict in key, address and name.
CONSTANTS
  RootPeer   <- MCRootPeer
  LeafPeer   <- MCLeafPeer
  ValidKey   <- MCValidKey
  OverlayIP  = {"self"}
  DefaultIP  = "self"
  Endpoint   = {"ep"}
  NoEndpoint = ""
  Proc       = {p1, p2}
  Inode      = {i1, i2}
  None       = None
  Torn       = Torn
SPECIFICATION FairSpec
INVARIANTS TypeOK Readable Serialised UniqueIdentities
PROPERTIES AtomicUpdates LockReleased
