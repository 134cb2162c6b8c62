CONSTANTS
  EvtQueueLen = 2
  MaxEdges = 4
  MaxCalls = 4
SPECIFICATION FairSpec
INVARIANTS TypeOK QueueOutlivesUsers DeletedOnce ReportsChanges
PROPERTY ToldInTheEnd
CHECK_DEADLOCK FALSE
