SPECIFICATION FairSpec
CONSTANTS
  PROC_COUNT = 3
  Units = 2
  ITERATIONS = 2
  QUEUE_MAX_ITEMS = 3
INVARIANTS TypeOK AtMostUnits QueueHasRoom FrontWaits
PROPERTIES ImplementsSemaphore Ends
CHECK_DEADLOCK FALSE
