SPECIFICATION FairSpec
CONSTANTS
  PENDING_TX_COUNT = 2
  QueueCapacity = 6
  MaxTx = 5
  ParamsAnswers = {"SUCCESS", "ERROR"}
  PostAnswers = {"ok", "stale", "lost", "refused"}
  CallParams = {"kv", "toobig", "null"}
  HandlerMayFail = TRUE
INVARIANTS SentOnlySigned
PROPERTIES PendingNotOverwritten
CHECK_DEADLOCK FALSE
