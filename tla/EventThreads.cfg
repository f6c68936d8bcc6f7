SPECIFICATION ThreadsSpec
CONSTANTS
  VTC_EVENTS_COUNT = 4
  MaxEvents = 3
INVARIANTS AcceptedIsKept
CHECK_DEADLOCK FALSE
