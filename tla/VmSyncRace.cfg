SPECIFICATION Spec
CONSTANTS
  Files = {f1, f2}
  d1 = d1
  d2 = d2
  Devices = {d1, d2}
  NoDevice = NoDevice
  Shared = {d1}
  Threads = {t1, t2}
  Keventd = keventd
  PathLists <- MCPathLists
  MaxFreezes = 2
CHECK_DEADLOCK FALSE
INVARIANT StateOutlivesAnyWork
