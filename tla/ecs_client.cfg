SPECIFICATION Spec
CONSTANTS
  json = json
  yaml = yaml
  worker = worker
  a = a
  b = b
  Files = {json, yaml, worker}
  ServicesIn <- MCServicesIn
  MaxServices = 4
  MaxRounds = 5
  MaxFaults = 2
CHECK_DEADLOCK FALSE
INVARIANTS
  TypeOK
  OkMeansDeployed
  Reported
  StopsWhenSettled
