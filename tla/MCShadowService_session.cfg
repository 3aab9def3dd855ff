SPECIFICATION ServiceSpec
CONSTANTS
  Fingerprint = {"v1"}
  HaltReason = {"external_halt:max_drawdown", "external_halt:daily_loss", "external_halt:disk_low"}
  InitialCash = 1
  Fee <- MCFee
  WarmupBooks = 1
  Latency = 1
  MaxBookGap = 1
  MaxOrderQuote = 1
  IntentQuote = {1}
  IntentBase = {1}
  Lots = {1}
  Proceeds = {1}
  Connection = {1, 2}
  Step = {1, 2, 3, 4, 5, 6}
  Wall = {1, 2}
  ClockMayStepBack = FALSE
  MaxRuns = 2
  MaxAt = 6
  GapThreshold = 1
  MaxDrawdown = "external_halt:max_drawdown"
  DailyLoss = "external_halt:daily_loss"
  DiskLow = "external_halt:disk_low"
  MaxConnections = 2
  MaxSilence = 2
INVARIANTS
  NoBuyAfterBreach
  RiskHalts
PROPERTIES
  LossEndsOrders
  StopIsServed
CHECK_DEADLOCK FALSE
