SPECIFICATION LiveSpec
CONSTANTS
  f1 = f1
  f2 = f2
  p1 = p1
  p2 = p2
  nobody = nobody
  nopos = nopos
  Position <- TwoPositions
  Flow <- OneFlow
  Caller <- OneFlowCallers
  Nobody = nobody
  NoPosition = nopos
  MaxSession = 1
  MaxChain = 1
  MaxRetries = 2
  Downtime <- TwoPositions
  Modified <- None
  Priced <- None
  PageSize = 1
  DeepPages = 2
PROPERTIES
  ClosesCaptured
