SPECIFICATION Spec
CONSTANTS
  Workers = {w1, w2}
  Standalone = {s1}
  Main = main
  Cancellers = {main, w1, w2}
  UINT_MAX = 2
  MaxTasks = 4
  MaxPushErrors = 0
SYMMETRY WorkerSymmetry
INVARIANTS TasksInv
PROPERTIES RunOrCancelled
CHECK_DEADLOCK FALSE
