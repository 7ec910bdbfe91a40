SPECIFICATION FairSpec
CONSTANTS
  Isolate = isolate
  SdkThreads = {s1}
  MaxRequests = 2
  MaxInstalls = 2
  Streams = {t1, t2}
  Isolates = {isolate, other}
  NoStream = none
INVARIANTS SomeoneWillAnswer NoSelfDeadlock StreamIsFedUntilRobbed SdkHoldsLiveListeners
PROPERTY EveryRequestAnswered
