CONSTANTS
  NULL = NULL
  Addrs = {a1}
  MaxBackups = 1
SPECIFICATION Spec
PROPERTY NoOpReplaced
CHECK_DEADLOCK FALSE
