\* Three configurations, five disturbances.
CONSTANTS
  a1 = a1
  a2 = a2
  b1 = b1
  netA = netA
  netB = netB
  eth  = eth
  tap  = tap
  vni1 = vni1
  vni2 = vni2
  Addr      <- MCAddr
  Subnet    <- MCSubnet
  Configs   <- MCConfigs
  LinkLocal = ll
  Port      = {eth, tap}
  Missing   = Missing
  Disturbances = 5
SPECIFICATION FairSpecToKernel
INVARIANTS TypeOK PlaneInStep
PROPERTIES AddrsMatch RebuiltMatches Settles ImplementsKernel
