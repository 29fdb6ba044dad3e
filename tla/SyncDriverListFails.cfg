SPECIFICATION Spec
CONSTANTS
  Filesystems = {f1}
  Denied = {}
  Unsupported = {}
  MaxMounts = 1
  MaxFreezes = 1
INVARIANTS FreezeReportsFailure
CHECK_DEADLOCK FALSE
