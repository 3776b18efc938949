SPECIFICATION FairSpec
CONSTANTS
  r1 = r1
  r2 = r2
  r3 = r3
  r4 = r4
  r5 = r5
  a = a
  b = b
  c = c
  d = d
  Requests = {r1, r2}
  Services = {a}
  Servers = {s1, s2}
  None = None
  ServiceOf <- OneService
  ClusterOf <- TwoClusters
  LimitsOf <- SecondDiffers
  BalancerOf <- SecondDiffers
  Attempts = 4
  Deployed = {}
  Databases = {"absent", "old", "current"}
  Bare = {"c2"}
  MaxVersion = 8
  MaxCrashes = 1
  MaxFaults = 1
CHECK_DEADLOCK FALSE
PROPERTIES
  ServerComesUp
