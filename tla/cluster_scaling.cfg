SPECIFICATION Spec
CONSTANTS
  a1 = a1
  a2 = a2
  b1 = b1
  b2 = b2
  None = None
  Clusters = {"a"}
  Nodes = {a1, a2}
  Resources = {"cpu"}
  Reservations <- MCReservations
  Size <- MCSize
  Strategies = {"LargestContainerUp", "LargestContainerDown"}
  Handlers = {h1, h2}
  Slots = {g1, g2}
  ClusterOf <- MCClusterOf
  Loads <- AllLoads
  MinSize = 1
  MaxSize = 3
  UpStrategies = {"immediately", "gracefully"}
  UpCooldown = 2
  DownCooldown = 2
  UpPeriod = 1
  DownPeriod = 2
  CacheAge = 1
  MaxEvents = 1
CHECK_DEADLOCK FALSE
SYMMETRY HandlerSymmetry
INVARIANTS
  TypeOK
  CapacityInBounds
  LockHeld
PROPERTIES
  DownsApart
  EveryDownDecided
  DownWhenSpare
