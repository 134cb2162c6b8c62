CONSTANTS
  Producers = {gui}
  QueueLen = 2
  SockBuf = 1
  FrameLen = 1
  ChunkSizes = {1}
  MaxAccepted = 2
  MaxSessions = 2
  MaxServerMsgs = 0
SPECIFICATION FairSpec
PROPERTY AllMessagesArrive
