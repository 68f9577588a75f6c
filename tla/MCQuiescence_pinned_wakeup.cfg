SPECIFICATION FairSpec
CONSTANTS
  N = 1
  MinSched = 0
  Actor = {a, b}
  MayPin = {b}
  MayListen = {a}
  None = None
  MaxWork = 4
PROPERTIES
  HandedOverIsTaken
CHECK_DEADLOCK FALSE
