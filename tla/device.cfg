CONSTANTS
  Producers = {"gui", "button"}
  QueueLen = 1
  SockBuf = 1
  FrameLen = 1
  ChunkSizes = {1}
  MaxAccepted = 4
  MaxSessions = 2
  MaxServerMsgs = 0
  EvtQueueLen = 1
  MaxEdges = 3
  MaxOther = 1
SPECIFICATION DeviceFairSpec
INVARIANTS DeviceTypeOK OneAlertPerPress ServerKnows
PROPERTY AlertArrives
CHECK_DEADLOCK FALSE
