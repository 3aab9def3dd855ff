SPECIFICATION Spec
CONSTANTS
  Recorder = {r1}
  Nobody = nobody
  Shared = FALSE
  MaxEvents = 1
  MaxSegments = 1
  MaxKills = 1
  MaxOutages = 1
  MaxFaults = 0
INVARIANT LedgerHasSource
