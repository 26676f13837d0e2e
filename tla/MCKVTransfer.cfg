CONSTANTS
  r1 = r1
  r2 = r2
  Req = {r1, r2}
  NumBlocks = 4
  BlockSize = 2
  Len0 <- MCLen
  Offers <- MCOffers
  Policies = {"fail", "recompute"}
  TokenBudget = 4
  ReserveFull = TRUE
  ChunkLimit = 1
  MaxLoads = 2
  Cases = {}
SPECIFICATION FairSpec
INVARIANT OutputGood
INVARIANT CacheGood
INVARIANT LoadTargetsHeld
PROPERTY EveryRequestEnds
