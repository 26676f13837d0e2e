CONSTANTS
  Warps = 2
  Configs <- MCConfigs
SPECIFICATION FairSpec
INVARIANT FullMeansLoaded
INVARIANT OutputRight
PROPERTY EveryTileStored
CHECK_DEADLOCK FALSE
