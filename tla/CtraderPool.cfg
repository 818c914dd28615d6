SPECIFICATION LiveSpec
CONSTANTS
  t1 = t1
  t2 = t2
  c1 = c1
  c2 = c2
  a1 = a1
  a2 = a2
  None = none
  Token <- TwoTokens
  Ctid <- SameCtid
  Attempt <- TwoAttempts
  MaxClock = 2
  MaxFaults = 1
  MaxLoads = 1
  MaxStops = 1
INVARIANTS
  TypeOK
  EventsReachOwner
  NeverStranded
  RefreshSurvives
PROPERTIES
  ConnectedServed
CHECK_DEADLOCK FALSE
