CONSTANTS
  Conns = {a, b}
  RcvBuf = 1
  MaxMsgs = 2
  MaxBroadcasts = 1
SPECIFICATION FairSpec
INVARIANTS NoEcho NobodySkipped ShownInOrder LockedWhenQuiet
PROPERTIES BroadcastEnds Forgotten
CHECK_DEADLOCK FALSE
