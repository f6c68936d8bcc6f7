SPECIFICATION FairSpec
CONSTANTS
  APPS_MAX_COUNT = 2
  APPS_KV_MAX_COUNT = 2
  INT32_RANGE = 16
  MAX_DEPTH = 6
  ACCOUNTS_MAXIMUM_COUNT = 1
  Secret = {alice}
  Text <- MCText
  AppId = {1, 2}
  MaxCalls = 3
  AccountAnswer <- MCAccountAnswer
  OtherAnswer <- MCOtherAnswer
  Uninitialised <- MCUninitialised
  GlobalsAnswer <- MCGlobalsAnswer
INVARIANTS IndexesInBounds WritesStayInside AppsAreThoseTold BalanceAsTold OptInsAreNeeded
PROPERTIES ParsingEnds GlobalsAsTold
CHECK_DEADLOCK FALSE
