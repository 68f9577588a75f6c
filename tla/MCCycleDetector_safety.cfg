SPECIFICATION Spec
CONSTANTS
  Main = m
  a1 = a1
  b1 = b1
  Actor = {m, a1, b1}
  Detector = cd
  None = None
  SizeMod = 16
  IncMore = 2
  Start <- MCStart
INVARIANTS
  TypeOK
  NoDangling
  ViewExact
  ReportsAlternate
  PerceivedSound
  ScanExact
  HandedOverIsLeftAlone
PROPERTY
  CollectsGarbageOnly
CHECK_DEADLOCK FALSE
