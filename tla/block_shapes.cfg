SPECIFICATION Spec
CONSTANTS
  Workers = {w1, w2}
  N = 4
  BLK_NROWS = 4
  BLK_NCOLS = 2
  Shapes <- ManyShapes
  RowBlks = {3}
  MaxCalls = 2
  Faults = {"card"}
SYMMETRY Perms
INVARIANTS ProductRight
CHECK_DEADLOCK FALSE
