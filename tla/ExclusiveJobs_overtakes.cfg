SPECIFICATION Spec
CONSTANTS
  e1 = e1
  e2 = e2
  e3 = e3
  n1 = n1
  Jobs <- Three
  Exclusive <- Three
  FaultSets <- WaitFaults
  MaxFires = 1
  MaxResets = 0
INVARIANT OtherExclusivesFinished
CHECK_DEADLOCK FALSE
