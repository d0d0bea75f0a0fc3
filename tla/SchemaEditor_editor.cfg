SPECIFICATION Spec
CONSTANTS
  A = A
  B = B
  x = x
  m = m
  None = None
  Nameless = Nameless
  Hole = Hole
  Containers <- TwoContainers
  Limited <- OneLimited
  Menu <- OneNew
  MenuIndex <- FirstEntry
  Initial <- TwoRoots
CHECK_DEADLOCK FALSE
INVARIANT TypeOK
PROPERTY DropMovesOne
PROPERTY SavesInPlace
