SPECIFICATION Spec
CONSTANTS
  N = 16
  Shapes <- AllShapes
  PoolSizes <- FewPoolSizes
INVARIANTS CardAccepts RegistersTrue RowsPlaced BlocksApart
