SPECIFICATION Spec
CONSTANTS
  Isolate = isolate
  SdkThreads = {}
  MaxRequests = 1
  MaxInstalls = 1
  Streams = {t1, t2}
  Isolates = {isolate}
  NoStream = none
INVARIANT StreamIsFed
PROPERTY RefusedForAnother
