SPECIFICATION LiveSpec
CONSTANTS
  p1 = p1
  p2 = p2
  nobody = nobody
  Nobody = nobody
  Position <- TwoPositions
  Editable <- OnePosition
  MaxWrites = 3
INVARIANTS
  TypeOK
PROPERTIES
  EveryWriteSettles
  ImplementsRows
CHECK_DEADLOCK FALSE
