SPECIFICATION FairSpec
CONSTANTS
  Api <- MCApi
  MemoryRunsOut = FALSE
  IsolateMayExit = TRUE
  MaxProducts = 2
INVARIANTS FutureTellsTheTruth RefusalIsTrue EveryBufferFreedOnce
PROPERTY EveryCallAnswered
CHECK_DEADLOCK FALSE
