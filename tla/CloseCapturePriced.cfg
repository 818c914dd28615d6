SPECIFICATION Spec
CONSTANTS
  f1 = f1
  f2 = f2
  p1 = p1
  p2 = p2
  nobody = nobody
  nopos = nopos
  Position <- OnePosition
  Flow <- OneFlow
  Caller <- OneFlowCallers
  Nobody = nobody
  NoPosition = nopos
  MaxSession = 2
  MaxChain = 2
  MaxRetries = 2
  Downtime <- None
  Modified <- OnePosition
  Priced <- OnePosition
  PageSize = 1
  DeepPages = 1
PROPERTIES
  ClosedForever
