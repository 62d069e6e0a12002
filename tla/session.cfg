SPECIFICATION Spec
CONSTANTS
  u1 = u1
  u2 = u2
  Users = {u1, u2}
  Disconnectors = {u1, u2}
  Heartbeat = heartbeat
  None = None
  Adapters = {"tcp"}
  Reuse = "no"
  MaxStarts = 1
  MaxTimeouts = 1
  MaxRaises = 1
CHECK_DEADLOCK FALSE
INVARIANTS
  TypeOK
  StopNotForgotten
  ConnectNotForgotten
  SocketReleased
  ToldOncePerThread
  LossIsTold
