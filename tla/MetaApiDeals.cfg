SPECIFICATION LiveSpec
CONSTANTS
  p1 = p1
  p2 = p2
  k1 = k1
  k2 = k2
  backfill = backfill
  Position <- OnePosition
  Call <- OneCall
  Backfill = backfill
  Waits = TRUE
  Lookback = 1
  Buffer = 0
  Clamp = 1
  MaxDay = 2
  MaxDeals = 3
  MaxBacklog = 2
  MaxOpens = 2
  MaxTroubles = 1
INVARIANTS
  TypeOK
  ClosedIsTrue
PROPERTIES
  TotalsGrow
  ClosesCaptured
CHECK_DEADLOCK FALSE
