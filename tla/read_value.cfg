SPECIFICATION RvFairSpec
CONSTANTS
  Settle = 3
  Timeout = 7
  MaxLatency = 2
  MaxVersion = 4
INVARIANTS SettledIsCurrent SettledIsQuiet
PROPERTY EveryReadEnds
