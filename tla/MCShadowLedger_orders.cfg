SPECIFICATION Spec
CONSTANTS
  Fingerprint = {"v1", "v2"}
  HaltReason = {"external_halt:max_drawdown"}
  InitialCash = 3
  Fee <- MCFee
  WarmupBooks = 2
  Latency = 2
  MaxBookGap = 1
  MaxOrderQuote = 3
  IntentQuote = {2, 3, 4}
  IntentBase = {1, 2, 3}
  Lots = {2}
  Proceeds = {2}
  Connection = {1, 2}
  Step = {0, 1, 2, 4}
  Wall = {1, 2}
  ClockMayStepBack = FALSE
  MaxRuns = 2
  MaxAt = 8
CHECK_DEADLOCK FALSE
INVARIANTS
  PendingOnlyWhileTrading
  OrdersCovered
  WarmEntry
PROPERTY
  FillCausal
