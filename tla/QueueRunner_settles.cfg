SPECIFICATION FairSpec
CONSTANTS
  i1 = i1
  i2 = i2
  i3 = i3
  i4 = i4
  i5 = i5
  Items <- FourItems
  InRetry <- Diverted
  BatchSize = 2
  LowWatermark = 1
  HighWatermark = 2
  ItemsInFlightMaxCount = 2
  Faults <- ReadFaults
  MayStop = FALSE
PROPERTY QueuedItemSettles
PROPERTY EveryItemSettles
CHECK_DEADLOCK FALSE
