SPECIFICATION Spec
CONSTANTS
  N = 64
  Shapes <- WideShapes
  PoolSizes = {1}
INVARIANTS SlotsHoldJob
