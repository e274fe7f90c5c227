SPECIFICATION FairSpec
CONSTANTS
  Workers = {w1, w2}
  N = 4
  BLK_NROWS = 4
  BLK_NCOLS = 2
  Shapes <- FewShapes
  RowBlks = {3}
  MaxCalls = 2
  Faults = {"ecd", "card"}
INVARIANTS TypeOK ReturnLeavesNoTask
PROPERTIES EveryCallEnds DestructorJoins
CHECK_DEADLOCK FALSE
