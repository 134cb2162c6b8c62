CONSTANTS
  Chunk = 2
  Header = 1
  Dma = 4
  Mailbox = 2
  Flight = 1
  MaxStarts = 2
  MaxPackets = 9
SPECIFICATION FairSpec
INVARIANTS StopMeansStreaming SurplusFillsFirst
PROPERTY Silenced
CHECK_DEADLOCK FALSE
