SPECIFICATION LiveSpec
CONSTANTS
  x1 = x1
  x2 = x2
  Account <- TwoAccounts
  MaxPassword = 1
  MaxEdits = 1
  MaxFaults = 1
  MaxRefusals = 1
  MaxStops = 1
INVARIANTS
  TypeOK
  OneStream
  NeverStranded
PROPERTIES
  SessionsFollowRows
  DeadLoginsEnd
CHECK_DEADLOCK FALSE
