CONSTANTS
  Queries = {q1, q2, q3}
  None = None
  Conns = {c1, c2}
  MaxConns = 2
  ChannelCap = 1
SPECIFICATION FairSpec
INVARIANT NoCrossTalk
PROPERTY TransportSpec
CHECK_DEADLOCK FALSE
