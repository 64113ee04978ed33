\* RLC AM, retransmissions whole: everything gets through, over a wrap of the numbers.
SPECIFICATION AmFairSpec
CONSTANTS
  SduLen <- MCLongSdus
  MaxLi = 2
  Rooms <- MCOneRoom
  Harq = 2
  Depth = 1
  Window = 2
  MaxTxBuffer = 3
  RetxOptions <- MCAlways
  NackRooms <- MCOneNack
  StatusDepth = 0
  MaxLost = 2
INVARIANTS AmGapTimed
PROPERTIES AmDelivers
CHECK_DEADLOCK FALSE
