CONSTANTS
  EvtQueueLen = 3
  MaxEdges = 7
SPECIFICATION FairSpec
INVARIANTS TypeOK NoLostEdge OneReportPerPress
