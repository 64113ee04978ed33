\* RLC AM: losses, reordering, retransmissions whole and in segments.
SPECIFICATION AmSpec
CONSTANTS
  SduLen <- MCTwoSdus
  MaxLi = 2
  Rooms <- MCSmallRooms
  Harq = 2
  Depth = 1
  Window = 2
  MaxTxBuffer = 3
  RetxOptions <- MCEither
  NackRooms <- MCNacks
  StatusDepth = 0
  MaxLost = 1
INVARIANTS AmTypeOK AmWhole NothingForgotten WindowsInStep NackedIsKept
PROPERTIES AmKeepsItsPromise
CONSTRAINT FewInFlight
CHECK_DEADLOCK FALSE
