SPECIFICATION FairSpec
CONSTANTS
  d1 = d1
  d2 = d2
  d3 = d3
  Requests = {d1, d2}
  TaskRunners = {}
  Scalers = {}
  Servers = {s1, s2}
  None = None
  Healthy = {d1}
  Wanted <- MCWanted
  Count <- MCCount
  LoadBalancer <- SameBalancer
  ResumeLimit = 20
  MaxCrashes = 1
  MaxFaults = 0
CHECK_DEADLOCK FALSE
PROPERTIES
  DeploysSettle
