SPECIFICATION Spec
CONSTANTS
  Limit = 3
  Durations <- MCDurations
  MinPolls = 1
  MaxPolls = 2
  Machines <- MCMachines
  ProviderLists <- MCProviderLists
INVARIANTS
  TypeOK
  EveryServerHasAnOwner
  OverrunIsOneCommand
PROPERTY
  ProgramEnds
CHECK_DEADLOCK FALSE
