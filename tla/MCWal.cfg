\* One appender, and the flush task.
SPECIFICATION WalFairSpec
CHECK_DEADLOCK FALSE
CONSTANTS
  WalAppenders = {w1}
  WalFlushers = {w2}
  WalFirstLsn = 9
  WalMaxPending = 4
  WalMaxFile = 2
  WalMaxEntries = 3
  WalMaxFaults = 0
PROPERTY WalCallsReturn
