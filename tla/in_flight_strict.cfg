SPECIFICATION Spec
CONSTANTS
  Ops = {o1, o2}
  Kinds = {"put", "get", "simple", "call"}
INVARIANTS IInv RefOutlivesUnwinding
PROPERTY FinishedIsReleased
