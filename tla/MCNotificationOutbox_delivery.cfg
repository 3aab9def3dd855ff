SPECIFICATION FairSpec
CONSTANTS
  Notice <- MCNotice
  Worker = {w1, w2}
  NoWorker = none
  Limit = 2
  Lease = 2
  SendTime = 1
  Retry = {0, 1, 2}
  MaxAttempts = 3
  MaxCrashes = 2
  MaxCount = 4
CHECK_DEADLOCK FALSE
INVARIANTS
  NothingLost
  BatchBackedByLease
  ResentOnlyAfterLapse
PROPERTIES
  TerminalStays
  EventuallySettled
