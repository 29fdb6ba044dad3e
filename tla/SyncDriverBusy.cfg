SPECIFICATION Spec
CONSTANTS
  Filesystems = {f1}
  Denied = {}
  Unsupported = {}
  MaxMounts = 1
  MaxFreezes = 1
INVARIANTS FrozenUntilThawed
CHECK_DEADLOCK FALSE
