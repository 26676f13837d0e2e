CONSTANTS
  r1 = r1
  r2 = r2
  Req = {r1, r2}
  NumBlocks = 4
  BlockSize = 2
  Len0 <- MCLenShared
  Offers <- MCOffersShared
  Policies = {"fail"}
  TokenBudget = 4
  ReserveFull = TRUE
  ChunkLimit = 2
  MaxLoads = 1
  Cases = {}
SPECIFICATION Spec
INVARIANT CacheGood
