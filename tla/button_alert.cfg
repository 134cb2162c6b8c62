CONSTANTS
  EvtQueueLen = 2
  MaxEdges = 2
SPECIFICATION FairSpec
PROPERTY PressRaisesAlert
