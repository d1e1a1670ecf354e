CONSTANTS
  MaxPlug = 2
  MaxPackets = 2
  Overlap = FALSE
  Client = {c1}
SPECIFICATION FairSpec
INVARIANTS TypeOK FreedOnce NoClientLeft SyncKept
PROPERTIES IoEnds
CHECK_DEADLOCK FALSE
