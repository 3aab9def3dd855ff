SPECIFICATION FairSpec
CONSTANTS
  Recorder = {r1, r2}
  Nobody = nobody
  Shared = TRUE
  MaxEvents = 3
  MaxSegments = 3
  MaxKills = 2
  MaxOutages = 1
  MaxFaults = 1
INVARIANTS
  LedgerHasSource
  VerifierBeforeData
  LiveJournalKept
  VersionsAgree
PROPERTIES
  EventuallyArchived
