SPECIFICATION Spec
CONSTANTS
  host = host
  path = path
  login = login
  staff = staff
  a = a
  b = b
  l1 = l1
  l2 = l2
  None = None
  Deploys = {d1, d2, d3}
  Services = {a, b}
  LoadBalancers = {l1, l2}
  Conditions <- MCConditions
  Length <- MCLength
  On <- MCOn
  Place <- MCPlace
  Auth = {login, staff}
  Requests <- MCRequests
  Existing <- MCExisting
  Rank <- MCRank
  MaxFaults = 1
  MaxRunning = 2
SYMMETRY DeploySymmetry
CHECK_DEADLOCK FALSE
INVARIANTS
  TypeOK
  RulesAsDeployed
  LongestFirst
  OwnPriorities
  RedirectsStay
