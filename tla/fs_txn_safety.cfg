SPECIFICATION Spec
CONSTANTS
  Paths = {p1, p2}
  MaxAttempts = 2
  MaxReads = 2
  MaxVersion = 1
  AbortIsFinal = TRUE
  AllEncodable = FALSE
INVARIANTS OneRunTakesEffect FailureWritesNothing CompletedIsCommitted
PROPERTY AtomicSpec
SYMMETRY PathSymmetry
