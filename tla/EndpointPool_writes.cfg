SPECIFICATION Spec
CONSTANTS
  Endpoints <- TwoEndpoints
  Pools <- OneOrTwo
  Writers <- TwoWriters
  Audits <- TwoAudits
  Kinds <- BothKinds
  MaxWrites = 1
  MaxOutages = 1
INVARIANT TypeOK
INVARIANT SetAsideIsAudited
INVARIANT GivenUpAfterAudits
PROPERTY WriteEnds
PROPERTY Recovers
CHECK_DEADLOCK FALSE
