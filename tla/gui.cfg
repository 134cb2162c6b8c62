CONSTANTS
  Slots = 3
  QueueLen = 2
  Sizes = {"blank", "fits", "full"}
  MaxMsgs = 5
SPECIFICATION Spec
INVARIANTS TypeOK SideMatchesOrigin NewestFirst TypedAccounted
