SPECIFICATION Spec
CONSTANTS
  Large = 2
  ChunkEntries = 4
  BatchEntries = 3
  ErrorPages = 1
  Targets = {0, 3, 6}
  Memory <- MCMemory
INVARIANT NullStartIsHeeded
CHECK_DEADLOCK FALSE
