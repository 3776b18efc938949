SPECIFICATION FairSpec
CONSTANTS
  Nodes = {n1}
  Servers = {s1, s2}
  Waiters = {w1, w2}
  None = None
  Polls = 2
  MaxTasks = 1
  MaxCrashes = 2
  MaxFaults = 1
  MaxDuplicates = 1
CHECK_DEADLOCK FALSE
INVARIANTS
  TypeOK
  NoneForgotten
PROPERTIES
  EmptyOrWaited
  Terminated
