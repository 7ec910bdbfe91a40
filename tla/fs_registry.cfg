SPECIFICATION FairSpec
CONSTANTS
  Isolates = {i1}
  Txns = {t1, t2, t3, t4}
  NoTxn = NoTxn
INVARIANTS IdFindsItsTransaction ReleasedByItsOwn
PROPERTY EveryThreadReleased
