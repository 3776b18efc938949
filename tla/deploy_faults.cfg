SPECIFICATION Spec
CONSTANTS
  d1 = d1
  d2 = d2
  d3 = d3
  Requests = {d1, d2}
  TaskRunners = {t1}
  Scalers = {w1}
  Servers = {s1}
  None = None
  Healthy = {d1}
  Wanted <- MCWanted
  Count <- MCCount
  LoadBalancer <- SameBalancer
  ResumeLimit = 20
  MaxCrashes = 1
  MaxFaults = 1
CHECK_DEADLOCK FALSE
INVARIANTS
  CopiesCoherent
  ReportedTasksRecorded
PROPERTIES
  LifecycleSpec
