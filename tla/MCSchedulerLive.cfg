SPECIFICATION FairSpec
CONSTANTS
  r1 = r1
  r2 = r2
  r3 = r3
  b1 = b1
  b2 = b2
  b3 = b3
  b4 = b4
  b5 = b5
  Requests = {r1, r2}
  Prompt <- TwoPrompts
  MaxTokens <- TwoMaxTokens
  Rank <- TwoRanks
  Priority = FALSE
  Blocks = {b1, b2, b3}
  BlockSize = 2
  Depth = 3
  MaxNumSeqs = 2
  TokenBudget = 4
  InputBudget = 6
  DraftSlots = 1
  Threshold = 0
  MaxModelLen = 8
  NumSpec = 1
  PrefillLookahead = 0
  CacheHits = {}
  ReserveFullISL = FALSE
  DeferFree = TRUE
  DropOnPreempt = FALSE
  PauseStates = {}
  MaxResets = 1
INVARIANT OutputInOrder
PROPERTY EveryRequestFinishes
PROPERTY FenceSpec
PROPERTY ResetFailsOnlyInFlight
CHECK_DEADLOCK FALSE
