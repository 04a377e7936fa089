CONSTANTS
  a = a
  b = b
  c = c
  Tasks = {t1}
  Upstreams = {u1, u2}
  Names <- MCNames
  Asked <- MCAsked
  None = None
  Zones <- MCZones
  Retries = 1
  MaxDepth = 2
SPECIFICATION FairSpec
INVARIANTS WholeChains NoFalseChainError ExhaustedAfterAll LastResort
PROPERTY EveryQueryEnds
CHECK_DEADLOCK FALSE
