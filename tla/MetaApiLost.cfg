SPECIFICATION LiveSpec
CONSTANTS
  p1 = p1
  p2 = p2
  k1 = k1
  k2 = k2
  backfill = backfill
  Position <- OnePosition
  Call <- OneCall
  Backfill = backfill
  Waits = TRUE
  Lookback = 3
  Buffer = 1
  Clamp = 0
  MaxDay = 3
  MaxDeals = 2
  MaxBacklog = 2
  MaxOpens = 2
  MaxTroubles = 0
PROPERTIES
  DowntimeRecovered
CHECK_DEADLOCK FALSE
