SPECIFICATION FairSpec
CONSTANTS
  Callers = {a, b}
  MaxRuns = 2
  KeyOf <- OneKey
  MaxTry = 2
  MaxCrash = 0
  Faults = {}
INVARIANTS SlotsNotShared AnswersRight
PROPERTIES EveryCallReturns ImplementsService
CHECK_DEADLOCK FALSE
