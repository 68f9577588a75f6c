SPECIFICATION FairSpec
CONSTANTS
  Main = m
  a1 = a1
  b1 = b1
  Actor = {m, a1, b1}
  Detector = cd
  None = None
  SizeMod = 16
  IncMore = 2
  Start <- MCStartLive
PROPERTY
  GarbageCollected
CHECK_DEADLOCK FALSE
