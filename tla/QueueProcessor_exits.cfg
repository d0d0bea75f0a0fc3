SPECIFICATION Spec
CONSTANTS
  Ids <- TwoIds
  Discriminator <- OneD
  Home <- OneHome
  Enabled <- ThreeQueues
  MaxRetries = 1
  Faults <- AllFaults
  MaxExits = 1
INVARIANT TypeOK
INVARIANT AttemptsBounded
INVARIANT HandledOnce
INVARIANT OnePlace
PROPERTY QueuedSurvivesStop
CHECK_DEADLOCK FALSE
