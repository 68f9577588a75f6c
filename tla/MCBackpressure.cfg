SPECIFICATION Spec
CONSTANTS
  Actor = {a1, a2, a3}
  Sched = {s1, p}
  Pinned = p
  PinnedActor = {a3}
  None = None
  MaxMsgs = 2
SYMMETRY Symmetry
INVARIANTS
  TypeOK
  NoLostUnmute
  MuteCountExact
  MutedIsHeld
  NoMuteCycle
CHECK_DEADLOCK FALSE
