SPECIFICATION Spec
CONSTANTS
  Streams = {s1, s2, s3, s4}
  FirstChild = 1000
INVARIANTS SdkHoldsLiveListeners ListenedIsFed NothingRunsUnseen
