SPECIFICATION Spec
CONSTANTS
  c1 = c1
  c2 = c2
  c3 = c3
  t1 = t1
  t2 = t2
  noId = noId
  CloudId <- TwoIds
  NoId = noId
  Teardown <- OneTeardown
  MaxAttempts = 2
  MaxIntents = 1
  MaxRestarts = 1
  MaxTimers = 1
SYMMETRY InterchangeableIds
INVARIANTS
  TypeOK
  OneTerminal
  DestroyConfirmed
