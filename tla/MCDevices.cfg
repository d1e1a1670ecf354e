CONSTANTS
  n1 = n1
  NoNode = NoNode
  Node = {n1}
  ReadOnly = {}
  MaxHandles = 1
  MaxTransfers = 1
  sA = sA
  sB = sB
  fA = fA
  fB = fB
  Sessions = {sA, sB}
  Paths = {fA, fB}
  Plans <- SyncPlans
  Size = 2
  Capacity = 2
  Sticky = {}
  Old = Old
  NoFile = NoFile
  Interfaces = {i1, i2}
  Foreign = {i2}
  NoInterface = NoInterface
  WinHandle = {h1, h2}
  OsxHandle = {h1}
  Followed = {h1}
  Dirs = {"root", "sub"}
  root = "root"
  Names = {"x", "y"}
  Trees <- ListTrees
  MaxDepth = 3
SPECIFICATION DevicesSpec
INVARIANTS TypesOK NothingFreed NoFalseSuccess FilesWhole
PROPERTIES DevicesGo CommandEnds
CHECK_DEADLOCK FALSE
