SPECIFICATION FairSpec
CONSTANTS
  PENDING_TX_COUNT = 3
  QueueCapacity = 4
  MaxTx = 6
  ParamsAnswers = {"SUCCESS", "OFFLINE"}
  PostAnswers = {"ok", "noid", "lost", "refused"}
  CallParams = {"kv"}
  HandlerMayFail = FALSE
INVARIANTS OneEventPerPendingCell NoMemOnlyWhenAllPending LedgerInOrder ReportedInOrder
PROPERTIES KeepsToPayments ConfirmedUnlessLost
