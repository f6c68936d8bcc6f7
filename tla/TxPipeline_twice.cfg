SPECIFICATION FairSpec
CONSTANTS
  PENDING_TX_COUNT = 2
  QueueCapacity = 4
  MaxTx = 4
  ParamsAnswers = {"SUCCESS"}
  PostAnswers = {"ok"}
  CallParams = {"kv"}
  HandlerMayFail = TRUE
INVARIANTS ReportedIsInLedger
CHECK_DEADLOCK FALSE
