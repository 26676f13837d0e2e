SPECIFICATION FairSpec
CONSTANTS
  Sessions = {s1, s2}
  Depth = 1
  MaxNumSeqs = 1
  MaxChunks = 3
  MaxPreempt = 2
INVARIANT SessionQueued
INVARIANT EngineSeesWork
INVARIANT ContextKept
PROPERTY SessionEnds
CHECK_DEADLOCK FALSE
