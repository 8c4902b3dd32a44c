SPECIFICATION Spec
CONSTANTS
  Nodes <- MCNodes
  Plans <- MCBranchFirst
  MaxSessions = 2
  MaxCalls = 2
  MaxCrashes = 1
  MaxFaults = 0
  MaxCancels = 0
INVARIANT
  RemovedWhenCompleted
CHECK_DEADLOCK FALSE
