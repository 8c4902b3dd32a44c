SPECIFICATION Spec
CONSTANTS
  Files <- MCFiles
  Items <- MCItems
  Contents <- MCContents
  MaxCalls = 3
  MaxEdits = 3
  MaxFaults = 0
  MaxRestarts = 0
INVARIANT
  DeletedFilesLeave
CHECK_DEADLOCK FALSE
