SPECIFICATION Spec
CONSTANTS
  u1 = u1
  u2 = u2
  Users = {u1}
  Disconnectors = {}
  Heartbeat = heartbeat
  None = None
  Adapters = {"tcp", "websocket"}
  Reuse = "callback"
  MaxStarts = 3
  MaxTimeouts = 0
  MaxRaises = 0
INVARIANTS
  OneReader
CHECK_DEADLOCK FALSE
PROPERTIES
  ImplementsSafety
