SPECIFICATION Spec
CONSTANTS
  d1 = d1
  d2 = d2
  d3 = d3
  Requests = {d1, d2, d3}
  TaskRunners = {}
  Scalers = {}
  Servers = {s1}
  None = None
  Healthy = {d1, d3}
  Wanted <- MCWanted
  Count <- MCCount
  LoadBalancer <- OtherBalancer
  ResumeLimit = 20
  MaxCrashes = 0
  MaxFaults = 0
CHECK_DEADLOCK FALSE
INVARIANTS
  TypeOK
  SuccessWasStable
  RollbackGoesToStable
