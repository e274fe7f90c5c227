SPECIFICATION Spec
CONSTANTS
  N = 16
  LogT = 6
  q <- MCq
  qk = 97
  Cases <- MCCases
  MaxFaults = 1
CHECK_DEADLOCK FALSE
INVARIANTS
  TypeOK
  SharesReconstruct
  NothingLostInTurn
  NothingUnflushedAtEnd
  SpinsOnlyAlone
PROPERTY BothEnd
