SPECIFICATION Spec
CONSTANTS
  UniqTypes <- MCUniqTypes
  RepTypes <- MCRepTypes
  NodeMin = 2
  MaxIdx = 1
  MaxArgs = 1
  MaxRecords = 4
  MaxEvents = 2
INVARIANTS
  DataComplete
  NothingLost
  ErrorsJustified
  FirstErrorReported
\* The bound on the number of events ends a behaviour.
CHECK_DEADLOCK FALSE
