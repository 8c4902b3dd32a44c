SPECIFICATION Spec
CONSTANTS
  MaxTurns = 3
  HistoryTokens = 8
  PromptCost = 3
  SizeCost <- MCSizeCost
  Keys <- MCKeys
  CallLists <- MCCallLists
  SizesOf <- MCSizesOf
  MaxRuns = 2
  MaxPast = 4
INVARIANT
  LatestUserMessageSent
