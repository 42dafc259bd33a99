SPECIFICATION Spec
CONSTANTS
  Size <- MCSize
  RatesOf <- MCRatesOf
  PromoteMin = 1
  DemoteMax = 0
  Factor = 2
  MaxSize = 3
  MaxPromotions = 2
  MaxEvictions = 2
  Quota = 3
  MinFree = 1
  Capacity = 5
  MaxOther = 2
  MinHot = 1
  MinCold = 1
  SuspendOnAnomaly = FALSE
  Faults = {"poll", "error", "interrupt", "lost", "score", "other"}
  MaxEvents = 3
INVARIANTS
  QuotaInv
  EvictionsPay
PROPERTIES
  QuotaHonest
  ReserveKept
  Settles
