SPECIFICATION Spec
CONSTANTS
  Calls <- MCCalls
  MaxPieces = 2
  MaxBlocks = 3
  MaxParts = 3
  MaxFlaws = 1
  NoInput = NoInput
INVARIANTS
  TypeOK
  ReplyIsWhole
  RequestKeepsHistory
CHECK_DEADLOCK FALSE
