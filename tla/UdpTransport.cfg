CONSTANTS
  Queries = {q1, q2, q3}
  None = None
  IdSpace = 2
  ChannelCap = 1
SPECIFICATION FairSpec
INVARIANTS NobodyForgotten CrossTalkNeedsReuse
PROPERTY TransportSpec
CHECK_DEADLOCK FALSE
