CONSTANTS
  Conns = {a, b}
  RcvBuf = 2
  MaxMsgs = 1
  MaxBroadcasts = 0
SPECIFICATION Spec
INVARIANT AllStored
CHECK_DEADLOCK FALSE
