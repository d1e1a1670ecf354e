CONSTANTS
  Platform = {"linux", "darwin", "winnt"}
  Helper = {"io"}
  MaxFatals = 1
  Clients = {c1, c2}
  Ports = {p1, p2}
  Calls = {k1}
  Queries = {q1, q2}
  Services = {s1, s2}
  MaxPieces = 2
  NoClient = NoClient
  NoPort = NoPort
SPECIFICATION PartsSpec
INVARIANTS TypesOK CleanupOnce Awaited OneChannel
PROPERTIES NothingAfterClose CloseEnds RunSettles
CHECK_DEADLOCK FALSE
