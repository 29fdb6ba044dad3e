SPECIFICATION Spec
CONSTANTS
  Workers = {w1}
  Standalone = {s1}
  Main = main
  Cancellers = {}
  UINT_MAX = 2
  MaxTasks = 2
  MaxPushErrors = 1
INVARIANTS RunningIsOffQueue
CHECK_DEADLOCK FALSE
