SPECIFICATION Spec
CONSTANTS
  Filesystems = {f1, f2, f3, f4}
  Denied = {f3}
  Unsupported = {f4}
  MaxMounts = 4
  MaxFreezes = 2
SYMMETRY FilesystemSymmetry
INVARIANTS NothingOrphaned DescriptorsBalance FallbackIsClean ThawReportsFailure
CHECK_DEADLOCK FALSE
