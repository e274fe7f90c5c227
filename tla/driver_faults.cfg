SPECIFICATION Spec
CONSTANTS
  Callers = {a, b}
  MaxRuns = 1
  KeyOf <- OneKey
  MaxTry = 1
  MaxCrash = 1
  Faults = {"dev", "mem", "reg", "slow"}
SYMMETRY Perms
INVARIANTS TypeOK FpgaExclusive
CHECK_DEADLOCK FALSE
