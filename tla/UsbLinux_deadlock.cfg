CONSTANTS
  n1 = n1
  n2 = n2
  NoNode = NoNode
  Node = {n1, n2}
  ReadOnly = {n2}
  MaxHandles = 2
  MaxTransfers = 0
SPECIFICATION FairSpec
PROPERTIES GoneKicked
CHECK_DEADLOCK FALSE
