CONSTANTS
  MaxId = 2
  MaxUnits = 1
  MaxPayload = 1
  MaxLinks = 2
  TotalUnits = 1
  TotalShut = 3
  Objects = {o1, o2, o3}
  NoObject = NoObject
  Threads = {t1, t2}
  MaxHandle = 3
  Transports = {u1, u2}
  Ports = {"5555"}
  Hosts = {"device"}
  MaxEmulators = 1
  MaxFd = 5
  Devices = {d1}
  MaxLists = 1
  MaxOpens = 3
  MaxFhs = 2
SPECIFICATION PartsSpec
INVARIANTS StreamsApart ResourcesKept
PROPERTIES ClosedStays
CONSTRAINT Few
CHECK_DEADLOCK FALSE
