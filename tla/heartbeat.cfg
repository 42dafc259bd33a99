SPECIFICATION Spec
CONSTANTS
  PollInterval = 2
  Slack = 3
  BeatEvery = 2
  MaxPromotions = 2
  ReconcileTime = 5
  WorkTime = 2
  ChunkTime = 1
  SettleTime = 1
  CheckEvery = 2
  Retries = 2
  StartPeriod = 3
  StopTimeout = 2
  NoBeat = NoBeat
  NotAsked = NotAsked
  Faults = {"hang", "error", "beat", "crash", "stop"}
  MaxEvents = 5
INVARIANTS
  IndInv
  NoFalseAlarm
  StopInTime
PROPERTIES
  UnhealthyMeansStuck
  HungIsEnded
