SPECIFICATION FairSpec
CONSTANTS
  Large = 2
  ChunkEntries = 4
  BatchEntries = 3
  ErrorPages = 1
  Targets = {0, 3, 6}
  Memory <- MCMemory
INVARIANTS BalloonInv MonitorAgrees
PROPERTIES TargetIsHeld
CHECK_DEADLOCK FALSE
