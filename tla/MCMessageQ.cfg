SPECIFICATION FairSpec
CONSTANTS
  Thread = {t1, t2, t3}
  Node = {n1, n2, n3, n4}
  NULL = NULL
  Batch = 2
INVARIANTS
  OneOwner
  NoUseAfterFree
  LinksFollowOrder
PROPERTIES
  Refinement
  EveryMessageHandled
CHECK_DEADLOCK FALSE
