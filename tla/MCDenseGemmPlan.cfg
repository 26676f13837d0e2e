CONSTANTS
  Weights <- MCWeights
  Warmed = {1, 2, 6, 7, 8, 9, 16}
  Served = {1, 2, 6, 7, 8, 9, 15, 16, 17, 48, 64, 96, 128, 129, 512, 1535, 1536, 2048, 2049, 4096}
SPECIFICATION Spec
INVARIANT OutputComplete
INVARIANT NeverRecompiles
INVARIANT PlansBuild
