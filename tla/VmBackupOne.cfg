CONSTANTS
  NULL = NULL
  Addrs = {a1}
  MaxBackups = 1
SPECIFICATION FairSpec
INVARIANTS
  SourcesFollowBackup
  IoFollowsState
  CommitPrecedesThaw
  ThawedOnSuccess
  QuietAfterStop
PROPERTY BackupEnds
CHECK_DEADLOCK FALSE
