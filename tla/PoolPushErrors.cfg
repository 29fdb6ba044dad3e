SPECIFICATION FairSpec
CONSTANTS
  Workers = {w1}
  Standalone = {s1}
  Main = main
  Cancellers = {main, w1, s1}
  UINT_MAX = 2
  MaxTasks = 3
  MaxPushErrors = 1
INVARIANTS EveryTaskHasToken ShutdownInv
PROPERTIES TasksEnd ShutdownEnds
CHECK_DEADLOCK FALSE
