SPECIFICATION Spec
CONSTANTS
  Workers = {w1}
  Standalone = {s1}
  Main = main
  Cancellers = {}
  UINT_MAX = 2
  MaxTasks = 1
  MaxPushErrors = 0
INVARIANTS ThreadsAreCleanedUp
CHECK_DEADLOCK FALSE
