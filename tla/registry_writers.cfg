SPECIFICATION Spec
CONSTANTS
  r1 = r1
  r2 = r2
  r3 = r3
  r4 = r4
  r5 = r5
  a = a
  b = b
  c = c
  d = d
  Requests = {r1, r2, r3, r4, r5}
  Services = {a, b, c, d}
  Servers = {s1}
  None = None
  ServiceOf <- OneAgain
  ClusterOf <- TwoClusters
  LimitsOf <- SecondDiffers
  BalancerOf <- SecondDiffers
  Attempts = 4
  Deployed = {r4, r5}
  Databases = {"old"}
  Bare = {}
  MaxVersion = 20
  MaxCrashes = 2
  MaxFaults = 0
CHECK_DEADLOCK FALSE
INVARIANTS
  TypeOK
  UpToDateCopies
  MigratedCompletely
  CreatedInDynamo
PROPERTIES
  EntriesSpec
