SPECIFICATION Spec
CONSTANTS
  p1 = p1
  p2 = p2
  Position <- OnePosition
  Increased <- None
  MaxDeals = 3
  MaxVolume = 2
  MaxNow = 3
  Lookback = 2
  Buffer = 1
  MaxDrops = 2
  MaxFaults = 2
INVARIANTS
  TypeOK
  CountedOnce
  ClosedIsOver
PROPERTIES
  BackfillCatchesUp
CHECK_DEADLOCK FALSE
