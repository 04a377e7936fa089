CONSTANTS
  k1 = k1
  k2 = k2
  Keys = {k1}
  Asked = {k1}
  NoKey = NoKey
  Sibling <- NoSiblings
  Tasks = {t1, t2}
  Free = Free
  Dropped = Dropped
  NoEntry = NoEntry
  Requests <- PlainAndDenied
  ChainCached = {k1}
  CanCancel = FALSE
  CanFreeze = TRUE
SPECIFICATION FairSpec
PROPERTIES InflightDrains AnsweredUnlessParked
