CONSTANTS
  NULL = NULL
  Addrs = {a1}
  MaxBackups = 1
SPECIFICATION Spec
INVARIANT ErrorHandledInScriptError
CHECK_DEADLOCK FALSE
