CONSTANTS
  NULL = NULL
  Addrs = {a1}
  MaxBackups = 1
SPECIFICATION Spec
PROPERTY ReleasedOpWasQueried
CHECK_DEADLOCK FALSE
