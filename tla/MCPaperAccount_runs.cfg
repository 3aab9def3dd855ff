SPECIFICATION FairSpec
CONSTANTS
  Proc = {p1, p2}
  NoProc = none
  Mode = {"probability", "expected_return"}
  Caller = {"cli", "direct"}
  Price <- MCPrice
  Age <- MCAge
  InitialCash = 200
  Cost = 4
  Interval = 2
  MaxSignalDelay = 1
  MaxTickerAge = 1
  ClockSkew = 0
  StopPct = 10
  TrailingPct = 15
  DrawdownPct = 15
  CooldownBars = 1
  HorizonBars = 2
  MaxTime = 8
  MaxRaceTime = 4
  MaxRewinds = 1
  LastRewind = 4
INVARIANTS
  AuditMatchesAccount
  EntriesAreFresh
  CooldownServed
  ActiveMeansContiguous
  NoConflictUnderLock
PROPERTIES
  HaltIsFinal
  HaltedPositionIsSold
