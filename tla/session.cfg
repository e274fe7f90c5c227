SPECIFICATION Spec
CONSTANTS
  N = 4
  BLK_NROWS = 4
  BLK_NCOLS = 8
  CtSizes <- MCCtSizes
  VecLen = 3
  Parties = {p1, p2}
  Clis = {c1, c2}
  Keys = {k1, k2}
  Faults = {"mem", "reg", "slow", "kill"}
  MaxFaults = 1
  Teams <- MCTeams
  Rows = {5}
  CliShapes <- MCCliShapes
SYMMETRY Symmetry
CHECK_DEADLOCK FALSE
INVARIANTS
  TypeOK
  SingleOwnerRight
  ProductsReadable
  EnabledHasKeys
  KeyFilesMatch
  CliRight
PROPERTY CardFollowsSetup
