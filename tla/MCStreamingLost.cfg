SPECIFICATION Spec
CONSTANTS
  Sessions = {s1, s2}
  Depth = 2
  MaxNumSeqs = 1
  MaxChunks = 2
  MaxPreempt = 1
SYMMETRY AnySession
INVARIANT SessionQueued
CHECK_DEADLOCK FALSE
