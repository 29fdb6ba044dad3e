CONSTANTS
  NULL = NULL
  Addrs = {a1}
  MaxBackups = 1
SPECIFICATION Spec
PROPERTY SyncErrorWaitsForProvider
CHECK_DEADLOCK FALSE
