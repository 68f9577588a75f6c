SPECIFICATION Spec
CONSTANTS
  Main = m
  Actor = {m, a, b}
  Object = {o, p}
  None = None
  IncMore = 2
  MaxWork = 3
SYMMETRY Symmetry
INVARIANTS
  TypeOK
  CountsBalance
  NoDangling
  ZeroIsAlone
  NothingLeaks
CHECK_DEADLOCK FALSE
