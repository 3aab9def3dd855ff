SPECIFICATION FairSpec
CONSTANTS
  Writer = {w1, w2, w3}
  NoWriter = none
  Stranger = stranger
  Members <- MCMembers
  Protocol = {"workflow", "backtest", "record"}
  MaxKills = 1
  MaxFailures = 1
  MaxReads = 1
INVARIANTS
  MarkerIsTrue
  VerifiedWasWhole
  NoPartialBundle
PROPERTIES
  EveryRunEnds
CHECK_DEADLOCK FALSE
