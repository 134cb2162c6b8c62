CONSTANTS
  Producers = {gui, button}
  QueueLen = 2
  SockBuf = 1
  FrameLen = 2
  ChunkSizes = {1, 3}
  MaxAccepted = 2
  MaxSessions = 2
  MaxServerMsgs = 2
SPECIFICATION FairSpec
INVARIANTS TypeOK OrderInv InboundOrder ItemShape
PROPERTIES LossNeedsDeadLink ImplementsChannel Reconnects QueueMoves
