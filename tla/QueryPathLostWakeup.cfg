CONSTANTS
  k1 = k1
  k2 = k2
  Keys = {k1}
  Asked = {k1}
  NoKey = NoKey
  Sibling <- NoSiblings
  Tasks = {t1, t2}
  Free = Free
  Dropped = Dropped
  NoEntry = NoEntry
  Requests <- PlainOnly
  ChainCached = {}
  CanCancel = FALSE
  CanFreeze = FALSE
SPECIFICATION FairSpec
PROPERTY EveryQueryAnswered
