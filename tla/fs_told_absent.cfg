SPECIFICATION FairSpec
CONSTANTS
  Streams = {"document"}
  Kind <- MCKind
  MaxEvents = 2
  Iterations = 0
INVARIANT NothingIsToldAbsent
CHECK_DEADLOCK FALSE
