CONSTANTS
  MaxPlug = 2
  MaxPackets = 1
  Overlap = TRUE
  Client = {}
SPECIFICATION Spec
INVARIANTS OfflinePosted
CHECK_DEADLOCK FALSE
