CONSTANTS
  Queries = {q1, q2}
  Editors = {e1, e2}
  First = first
  Good = {first, second, empty}
  Broken = {broken}
  Empty = empty
  Torn = {broken}
  Nothing = Nothing
  Limit = 1
  LastSecond = 1
SPECIFICATION ServiceSpec
INVARIANTS MixNeedsCrossing CalmQueriesAgree GrantsBounded
PROPERTY LoneOperationsAreWhole
SYMMETRY Symmetry
CHECK_DEADLOCK FALSE
