SPECIFICATION FairSpec
CONSTANTS
  Txns = {t1}
  NoTxn = NoTxn
  MaxAttempts = 1
  MaxVersion = 1
INVARIANTS TypeOK FacadeReportsCommits
PROPERTY ThrowsAreAnswered
