SPECIFICATION Spec
CONSTANTS
  i1 = i1
  i2 = i2
  i3 = i3
  i4 = i4
  i5 = i5
  Items <- FiveItems
  InRetry <- Diverted
  BatchSize = 2
  LowWatermark = 1
  HighWatermark = 1
  ItemsInFlightMaxCount = 1
  Faults <- LateFaults
  MayStop = TRUE
INVARIANT TypeOK
INVARIANT NothingVanishes
INVARIANT NothingTwice
INVARIANT InFlightBounded
INVARIANT StopLosesAtMost
PROPERTY KeepsCustody
PROPERTY StopReturns
CHECK_DEADLOCK FALSE
