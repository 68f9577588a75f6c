SPECIFICATION Spec
CONSTANTS
  N = 1
  MinSched = 0
  Actor = {b}
  MayPin = {}
  MayListen = {}
  None = None
  MaxWork = 1
INVARIANTS
  DrainedAtExit
