CONSTANTS
  Requests = {r1, r2}
  Blocks = {b1, b2}
  Depth = 2
  MaxSteps = 3
  MaxDeferred = 2
SPECIFICATION FairSpec
INVARIANT TypeOK
INVARIANT NoFreeWrite
INVARIANT NothingStranded
PROPERTY DeferredDrain
CHECK_DEADLOCK FALSE
