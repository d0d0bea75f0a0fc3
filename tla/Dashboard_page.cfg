SPECIFICATION DashboardSpec
CONSTANTS
  r1 = r1
  r2 = r2
  Absent = Absent
  None = None
  Rows <- TwoRows
  Present <- OnePresent
  Bound <- RowOrNone
  MaxWrites = 1
  MaxLoads = 2
  MaxAsked = 2
  MaxTimers = 2
  Faults <- AllFaults
INVARIANT DashboardTypeOK
INVARIANT IntervalsOwned
INVARIANT LoadingEnds
INVARIANT ListAgrees
CHECK_DEADLOCK FALSE
