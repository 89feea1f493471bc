CONSTANTS
  Events = {e1, e2}
  None = None
SPECIFICATION FairSpec
INVARIANTS RescissionOwed EventsKept DeliveredOnce
PROPERTIES InterruptsTaken RescissionSettled
