SPECIFICATION Spec
CONSTANTS
  N = 2
  MinSched = 0
  Actor = {a, b}
  MayPin = {b}
  MayListen = {b}
  None = None
  MaxWork = 2
INVARIANTS
  TypeOK
  ScheduledOnce
  BlockCountExact
  AcksBounded
CHECK_DEADLOCK FALSE
