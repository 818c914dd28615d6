SPECIFICATION LiveSpec
CONSTANTS
  c1 = c1
  c2 = c2
  c3 = c3
  t1 = t1
  t2 = t2
  noId = noId
  CloudId <- OneId
  NoId = noId
  Teardown <- OneTeardown
  MaxAttempts = 2
  MaxIntents = 1
  MaxRestarts = 0
  MaxTimers = 1
PROPERTIES
  ConnectEnds
  TeardownEnds
  HealthyReopened
