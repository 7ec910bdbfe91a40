SPECIFICATION FairSpec
CONSTANTS
  Streams = {"document", "query"}
  Kind <- MCKind
  MaxEvents = 2
  Iterations = 2
INVARIANTS SdkHoldsListenedStreams StreamTellsTheTruth MeasuresDelivery
PROPERTY EveryEventIsHeard
CHECK_DEADLOCK FALSE
