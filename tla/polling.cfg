SPECIFICATION FairSpec
CONSTANTS
  Servers = {s1, s2}
  None = None
  Lease = 2
  MaxWork = 1
  MaxEvents = 1
  MaxCrashes = 1
  MaxFaults = 1
CHECK_DEADLOCK FALSE
INVARIANTS
  TypeOK
  OneChecks
  EveryMinute
  ScaledOnce
PROPERTIES
  Polled
