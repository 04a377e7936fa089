CONSTANTS
  Commands = {c1, c2, c3}
  Workers = {w1, w2, w3, w4}
  Main = Main
  None = None
SPECIFICATION FairSpec
INVARIANTS ChildHeldOnce OrphanNeedsOverlap
PROPERTIES CommandsAnswered ShutdownEndsAgent
CHECK_DEADLOCK FALSE
