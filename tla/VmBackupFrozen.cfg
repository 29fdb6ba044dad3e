CONSTANTS
  NULL = NULL
  Addrs = {a1}
  MaxBackups = 1
SPECIFICATION Spec
INVARIANT NothingLeftFrozen
CHECK_DEADLOCK FALSE
