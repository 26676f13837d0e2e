SPECIFICATION Spec
CONSTANTS
  r1 = r1
  r2 = r2
  r3 = r3
  b1 = b1
  b2 = b2
  b3 = b3
  b4 = b4
  b5 = b5
  Requests = {r1, r2, r3}
  Prompt <- ThreePrompts
  MaxTokens <- ThreeMaxTokens
  Rank <- ThreeRanks
  Priority = TRUE
  Blocks = {b1, b2, b3, b4}
  BlockSize = 2
  Depth = 2
  MaxNumSeqs = 2
  TokenBudget = 4
  InputBudget = 9
  DraftSlots = 1
  Threshold = 0
  MaxModelLen = 8
  NumSpec = 1
  PrefillLookahead = 2
  CacheHits = {2}
  ReserveFullISL = FALSE
  DeferFree = FALSE
  DropOnPreempt = FALSE
  PauseStates = {"UNPAUSED", "PAUSED_NEW", "PAUSED_ALL"}
  MaxResets = 0
SYMMETRY AnyBlock
INVARIANT TypeOK
INVARIANT OutputInOrder
INVARIANT InFlightAccounting
INVARIANT QueuesMatchStatus
INVARIANT CaughtUp
INVARIANT BlocksCoverTokens
CHECK_DEADLOCK FALSE
