SPECIFICATION Spec
CONSTANTS
  Ops = {o1, o2, o3}
  Kinds = {"put", "get", "simple", "call"}
INVARIANT RefOutlivesRequest
PROPERTY OthersAreReleased
