SPECIFICATION Spec
CONSTANTS
  Sequences <- TwoSequences
  Plans <- AllPlans
  FaultSets <- AllFaultSets
INVARIANT TypeOK
INVARIANT OneCleanup
PROPERTY JobEnds
CHECK_DEADLOCK FALSE
