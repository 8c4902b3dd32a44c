SPECIFICATION Spec
CONSTANTS
  Scenarios <- MCScenarios
  Rankings <- MCRankings
  MaxDepth = 2
  TopK = 2
  Unit = 238266
INVARIANTS
  TypeOK
  WalkIsExact
  FusionKeepsTheBest
CHECK_DEADLOCK FALSE
