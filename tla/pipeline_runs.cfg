SPECIFICATION FairSpec
CONSTANTS
  MaxN = 3
  Jobs <- AllJobs
  MaxStarts = 2
INVARIANTS OutputComplete
PROPERTIES EveryRunEnds ImplementsTree
