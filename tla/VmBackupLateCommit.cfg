CONSTANTS
  NULL = NULL
  Addrs = {a1}
  MaxBackups = 1
SPECIFICATION Spec
PROPERTY NoCommitAfterAbort
CHECK_DEADLOCK FALSE
