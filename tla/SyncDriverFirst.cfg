SPECIFICATION Spec
CONSTANTS
  Filesystems = {f1}
  Denied = {}
  Unsupported = {}
  MaxMounts = 1
  MaxFreezes = 1
PROPERTIES FirstFailureFallsBack
CHECK_DEADLOCK FALSE
