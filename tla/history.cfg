SPECIFICATION Spec
CONSTANTS
  Window <- MCWindow
  Horizon <- MCHorizon
  FullRes = 1
  Bucket = 3
  Interval = 2
  Gains = {0, 1}
  MaxRestarts = 2
  MaxTrouble = 2
INVARIANTS
  SumsInv
  EdgeWithinBucket
  NeverOverstates
  HistoryBounded
CHECK_DEADLOCK FALSE
