SPECIFICATION FairSpec
CONSTANTS
  t1 = t1 t2 = t2 t3 = t3
  Thread = {t1, t2, t3}
  NULL = NULL
  Head0 = Head0
  Align = 2
  Mmap = 4
  Count <- MCCount
  MaxMap = 16
  Start <- MCStart
CHECK_DEADLOCK FALSE
INVARIANTS
  MemoryAccounted
  NotReadWhileChanged
  LocalListOrdered
PROPERTIES
  EveryCallReturns
