SPECIFICATION Spec
CONSTANTS
  u1 = u1
  u2 = u2
  Users = {u1}
  Disconnectors = {}
  Heartbeat = heartbeat
  None = None
  Adapters = {"tcp"}
  Reuse = "callback"
  MaxStarts = 2
  MaxTimeouts = 1
  MaxRaises = 0
INVARIANT OneReader
CHECK_DEADLOCK FALSE
