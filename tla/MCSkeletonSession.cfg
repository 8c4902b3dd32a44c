SPECIFICATION Spec
CONSTANTS
  Nodes <- MCNodes
  Plans <- MCPlans
  MaxSessions = 2
  MaxCalls = 3
  MaxCrashes = 2
  MaxFaults = 1
  MaxCancels = 1
INVARIANTS
  TypeOK
  CheckpointNotAhead
  RunAgainOnlyAfterLoss
  WalkIsComplete
  ContextIsComplete
  SuccessIsComplete
PROPERTY
  CallEnds
CHECK_DEADLOCK FALSE
