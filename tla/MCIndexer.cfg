SPECIFICATION Spec
CONSTANTS
  Files <- MCFiles
  Items <- MCItems
  Contents <- MCContents
  MaxCalls = 3
  MaxEdits = 3
  MaxFaults = 1
  MaxRestarts = 1
INVARIANTS
  TypeOK
  GraphIsTracked
  HashDescribesGraph
  IndexedIsExact
CHECK_DEADLOCK FALSE
