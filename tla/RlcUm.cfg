\* RLC UM: segmentation, losses and reordering, over a wrap of the numbers.
SPECIFICATION UmFairSpec
CONSTANTS
  SduLen <- MCMixedSdus
  MaxLi = 2
  Rooms <- MCSmallRooms
  Harq = 2
  Depth = 1
  Window = 4
  Variants <- MCBothVariants
  MaxTxBuffer = 3
  MaxLost = 2
  LossySns = 3
INVARIANTS UmTypeOK UmWhole UmGapTimed
PROPERTIES UmKeepsItsPromise UmDelivers
CHECK_DEADLOCK FALSE
