CONSTANTS
  NULL = NULL
  Addrs = {a1}
  MaxBackups = 1
SPECIFICATION HungScriptSpec
PROPERTY BackupEnds
CHECK_DEADLOCK FALSE
