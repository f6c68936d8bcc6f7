SPECIFICATION FairSpec
CONSTANTS
  VTC_EVENTS_COUNT = 4
  Event = {e0, e1, e2}
  ZeroEvent = e0
  NoEvent = NoEvent
INVARIANTS HandledIsHead
PROPERTIES ImplementsFifo ScheduledIsAppended
