SPECIFICATION Spec
CONSTANTS
  Isolate = isolate
  SdkThreads = {s1}
  MaxRequests = 2
  MaxInstalls = 2
  Streams = {}
  Isolates = {isolate}
  NoStream = none
INVARIANT NoRequestLeftParked
