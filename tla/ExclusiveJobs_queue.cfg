SPECIFICATION Spec
CONSTANTS
  e1 = e1
  e2 = e2
  e3 = e3
  n1 = n1
  Jobs <- TwoAndOne
  Exclusive <- Two
  FaultSets <- Scenarios
  MaxFires = 2
  MaxResets = 1
INVARIANT TypeOK
INVARIANT Exclusion
INVARIANT NoneIsPassed
PROPERTY ExclusiveRuns
PROPERTY ShutdownEnds
CHECK_DEADLOCK FALSE
