SPECIFICATION Spec
CONSTANTS
  MaxStepTurns = 3
  MaxToolCalls = 3
  Tools <- MCTools
  Registered <- MCRegistered
  AllowedTools <- MCAllowedTools
  CallLists <- MCCallLists
INVARIANTS
  EveryCallAnswered
  SecondStrayFails
  OutputIsLatest
PROPERTY
  ImplementsContract
