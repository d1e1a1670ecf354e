CONSTANTS
  Device = {d1}
  NoDevice = NoDevice
  Client = {c1}
  Port = {p1}
  Smart = Smart
  Target = {x}
SPECIFICATION Spec
INVARIANT Answered
CHECK_DEADLOCK FALSE
