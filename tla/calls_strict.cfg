SPECIFICATION FairSpec
CONSTANTS
  Api <- MCApi
  MemoryRunsOut = FALSE
  IsolateMayExit = TRUE
  MaxProducts = 1
INVARIANTS TypeOK ErrorKeepsItsCode RefusalNamesItsCause NothingLeaks
PROPERTY EveryAppAnswers
CHECK_DEADLOCK FALSE
