SPECIFICATION ReportSpec
CONSTANTS
  v1 = v1
  r1 = r1
  k1 = k1
  k2 = k2
  bad = bad
  Null = Null
  Views <- OneView
  Reports <- OneReport
  Callers <- CallersOne
  Keys <- TwoKeys
  Invalid <- OneInvalid
  Automatic <- OneReport
  Home <- HomeOne
  MaxRuns = 2
  MaxRebinds = 1
  MaxInFlight = 2
  MaxSubmits = 1
  Faults <- AllFaults
INVARIANT ReportTypeOK
INVARIANT ResultShown
INVARIANT OneAutomatic
PROPERTY MountExecutes
CHECK_DEADLOCK FALSE
