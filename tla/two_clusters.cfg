SPECIFICATION Spec
CONSTANTS
  a1 = a1
  a2 = a2
  b1 = b1
  b2 = b2
  None = None
  Clusters = {"a", "b"}
  Nodes = {a1, a2, b1, b2}
  Resources = {"cpu"}
  Reservations <- MCReservations
  Size <- MCSize
  Strategies = {"LargestContainerUp", "LargestContainerDown"}
  Handlers = {h1}
  Slots = {g1, g2, g3}
  ClusterOf <- MCClusterOf
  Loads <- BusyOrIdle
  MinSize = 1
  MaxSize = 3
  UpStrategies = {"gracefully"}
  UpCooldown = 1
  DownCooldown = 1
  UpPeriod = 1
  DownPeriod = 2
  CacheAge = 1
  MaxEvents = 0
CHECK_DEADLOCK FALSE
PROPERTIES
  DownWhenSpare
