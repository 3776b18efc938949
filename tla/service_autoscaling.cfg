SPECIFICATION Spec
CONSTANTS
  p = p
  q = q
  None = None
  Requests = {r1, r2, r3, r4}
  PolicyNames = {p, q}
  Limits = {"narrow", "wide"}
  Counts = {1, 2}
  Inputs <- MCInputs
  MaxRunning = 2
  MaxFaults = 1
SYMMETRY RequestSymmetry
CHECK_DEADLOCK FALSE
INVARIANTS
  TypeOK
  KeptPolicies
  DeletedIsGone
