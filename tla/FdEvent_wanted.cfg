CONSTANTS
  Fd = {1, 2}
  MaxOps = 2
SPECIFICATION Spec
PROPERTIES WantedOnly
CHECK_DEADLOCK FALSE
