SPECIFICATION Spec
CONSTANTS
  MaxN = 5
  Jobs <- AllJobs
  MaxStarts = 1
INVARIANTS TypeOK NoStartIsLost OperandsMatch BlocksWhole RbStatusTrue TraceAfterTree DrainedAtDone
