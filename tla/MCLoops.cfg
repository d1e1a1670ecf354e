CONSTANTS
  Fd = {1, 2}
  MaxOps = 2
  Sockets = {s1}
  Pairs = {p1}
  BIP_BUFFER_SIZE = 3
  MaxLen = 3
  MaxBytes = 5
SPECIFICATION LoopsSpec
INVARIANTS TypeOK EventsAgree WindowsAgree
PROPERTIES Served Heard
CHECK_DEADLOCK FALSE
