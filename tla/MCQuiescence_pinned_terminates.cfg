SPECIFICATION TimelyFairSpec
CONSTANTS
  N = 1
  MinSched = 0
  Actor = {b}
  MayPin = {b}
  MayListen = {}
  None = None
  MaxWork = 3
PROPERTIES
  Terminates
CHECK_DEADLOCK FALSE
