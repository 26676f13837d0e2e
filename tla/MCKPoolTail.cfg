SPECIFICATION Spec
CONSTANTS
  Pool = 4
  Kernels <- MCKernels
  MaxLen = 12
  MaxPasses = 2
INVARIANT TypeOK
INVARIANT PoolsFaithful
INVARIANT CommittedKeysKept
CHECK_DEADLOCK FALSE
