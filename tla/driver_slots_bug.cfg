SPECIFICATION Spec
CONSTANTS
  Callers = {a, b, c}
  MaxRuns = 1
  KeyOf <- OneKey
  MaxTry = 2
  MaxCrash = 0
  Faults = {}
SYMMETRY Perms
INVARIANTS SlotsNotShared
CHECK_DEADLOCK FALSE
