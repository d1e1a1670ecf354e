CONSTANTS
  Device = {d1, d2}
  NoDevice = NoDevice
  c1 = c1
  c2 = c2
  Client = {c1, c2}
  Port = {p1}
  Smart = Smart
  Target = {x}
  h = h
  t1 = t1
  t2 = t2
  i1 = i1
  i2 = i2
  NoOne = NoOne
  a1 = "a1"
  a2 = "a2"
  u1 = u1
  u2 = u2
  v1 = v1
  v2 = v2
  v3 = v3
SPECIFICATION PartsSpec
INVARIANTS TypesOK ForwardsOnline DisconnectsAgree NoSocketLeft InstalledAgrees ReadyAgrees
PROPERTIES OneStatus OthersStay AllAnswered
CHECK_DEADLOCK FALSE
