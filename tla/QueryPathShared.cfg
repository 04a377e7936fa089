CONSTANTS
  k1 = k1
  k2 = k2
  Keys = {k1, k2}
  Asked = {k1}
  NoKey = NoKey
  Sibling <- SiblingPair
  Tasks = {t1, t2}
  Free = Free
  Dropped = Dropped
  NoEntry = NoEntry
  Requests <- PlainAndCd
  ChainCached = {k1}
  CanCancel = TRUE
  CanFreeze = FALSE
SPECIFICATION Spec
SYMMETRY TaskSymmetry
INVARIANTS InflightOwned OnlyValidatedServed
PROPERTIES CdLeavesNoTrace LeaseSpec
