SPECIFICATION TimelyFairSpec
CONSTANTS
  N = 2
  MinSched = 0
  Actor = {a, b}
  MayPin = {}
  MayListen = {b}
  None = None
  MaxWork = 2
INVARIANT
  TerminatesIdle
PROPERTIES
  Terminates
  ScheduledRuns
