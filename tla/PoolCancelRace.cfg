SPECIFICATION Spec
CONSTANTS
  Workers = {}
  Standalone = {s1}
  Main = main
  Cancellers = {s1}
  UINT_MAX = 2
  MaxTasks = 2
  MaxPushErrors = 0
PROPERTIES CancelledIsNotRun
CHECK_DEADLOCK FALSE
