SPECIFICATION OfflineSpec
CONSTANTS
  Horizon = 2
  HoldBars = 2
  Warmup = 1
  RetrainEvery = 2
  TrainWindow = 3
  MinTrain = 1
  CalibrationWindow = 1
  MinCalibration = 1
  InitialCash = 1000
  Fee = 1
  Slip = 2
  MinLots = 1
  RiskPct = 5
  AllocationPct = 90
  MinStop = 5
  MaxStop = 20
  TrailingPct = 15
  DrawdownPct = 4
  CooldownBars = 1
  Mode = {"probability", "expected_return"}
  GapHalts = {FALSE, TRUE}
  Bar <- MCBar
  Stop <- MCStop
  Interval = 2
  Grace = 1
  SkewReserve = 1
  Skew <- MCSkew
  PageSize = 4
  MaxRetries = 1
  Wanted = 9
  FirstSlot = 0
  MaxGaps = 2
  Split = {5}
  MaxDelay = 2
  SyncCounts = {3, 10}
  Starts = {3, 23}
  MaxCommands = 2
  Depth <- MCDepth
  Order <- MCOrder
  Rounding = 1
  LongestLapse = 2
  MaxRecords = 4
INVARIANTS
  FrameIsFinal
  PredictionsAreCausal
  TradesFollowLabels
  CooldownServed
  DrawdownEndsTrading
  LossWithinBudget
  SettledAtFirstBook
  SweepWithinDepth
CHECK_DEADLOCK FALSE
