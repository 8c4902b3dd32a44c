SPECIFICATION Spec
CONSTANTS
  MaxTurns = 4
  HistoryTokens = 8
  PromptCost = 3
  SizeCost <- MCSizeCost
  Keys <- MCKeys
  CallLists <- MCCallLists
  SizesOf <- MCSizesOf
  MaxRuns = 2
  MaxPast = 4
INVARIANTS
  TypeOK
  HistoryIsSuffix
  SentHistoryFits
  AtMostOneLateReply
  AnswerIsOfThisRun
  LoopsAreBroken
PROPERTY
  RunEnds
