SPECIFICATION Spec
CONSTANTS
  Notice <- MCNotice
  Worker = {w1, w2}
  NoWorker = none
  Limit = 2
  Lease = 2
  SendTime = 1
  Retry = {0, 1}
  MaxAttempts = 2
  MaxCrashes = 0
  MaxCount = 3
CHECK_DEADLOCK FALSE
INVARIANT
  NoDoubleSend
