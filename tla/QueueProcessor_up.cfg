SPECIFICATION Spec
CONSTANTS
  Ids <- ThreeIds
  Discriminator <- TwoD
  Home <- ThreeHome
  Enabled <- AllQueues
  MaxRetries = 2
  Faults <- ReleaseFaults
  MaxExits = 0
INVARIANT HeldIsRetried
PROPERTY EveryItemEnds
CHECK_DEADLOCK FALSE
