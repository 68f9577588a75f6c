SPECIFICATION FairSpec
CONSTANTS
  Thread = {t1, t2}
  Node = {n1, n2, n3}
  Item = {a1, a2}
  NULL = NULL
  MaxPush = 4
INVARIANTS
  TypeOK
  CasInstallsSuccessor
  AccessesAllocated
PROPERTIES
  Refinement
  EveryItemPopped
CHECK_DEADLOCK FALSE
