SPECIFICATION Spec
CONSTANTS
  Workers = {w1}
  Standalone = {s1}
  Main = main
  Cancellers = {main}
  UINT_MAX = 2
  MaxTasks = 2
  MaxPushErrors = 0
PROPERTIES WorkIsNotNull
CHECK_DEADLOCK FALSE
