SPECIFICATION Spec
CONSTANTS
  Ids <- TwoIds
  Discriminator <- OneD
  Home <- TwoHome
  Enabled <- AllQueues
  MaxRetries = 1
  Faults <- NoFaults
  MaxExits = 1
PROPERTY RetrySuccessReleases
CHECK_DEADLOCK FALSE
