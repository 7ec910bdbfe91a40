SPECIFICATION FairSpec
CONSTANTS
  Paths = {p1, p2}
  MaxAttempts = 2
  MaxReads = 1
  MaxVersion = 0
  AbortIsFinal = TRUE
  AllEncodable = TRUE
PROPERTIES EveryReadAnswered EveryTransactionEnds
