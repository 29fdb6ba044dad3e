SPECIFICATION FairSpec
CONSTANTS
  Names = {n1, n2}
  Files = {f1, f2}
  Unmounter = umount
  Threads = {t1, t2}
  Blocks = {k1, k2}
  Nobody = nobody
INVARIANTS BlockListInv ReferencesBalance UseCountFollowsBlocks
PROPERTIES WaitersWake RootIsReleased
CHECK_DEADLOCK FALSE
