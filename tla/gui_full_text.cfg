CONSTANTS
  Slots = 3
  QueueLen = 2
  Sizes = {"fits", "full"}
  MaxMsgs = 5
SPECIFICATION Spec
INVARIANT ShowsOneMessage
