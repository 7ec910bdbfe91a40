SPECIFICATION FairSpec
CONSTANTS
  Txns = {t1, t2}
  NoTxn = NoTxn
  MaxAttempts = 3
  MaxVersion = 2
INVARIANTS DecidedFromThisAttempt NoLostUpdate OutcomeIsTrue
PROPERTIES SchedulerReleased EveryTransactionAnswers UpdatesSpec
