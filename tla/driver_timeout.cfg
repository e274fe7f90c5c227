SPECIFICATION Spec
CONSTANTS
  Callers = {a, b}
  MaxRuns = 1
  KeyOf <- OneKey
  MaxTry = 2
  MaxCrash = 0
  Faults = {"slow"}
SYMMETRY Perms
INVARIANTS SuccessMeansResult
CHECK_DEADLOCK FALSE
