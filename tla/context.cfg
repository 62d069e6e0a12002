SPECIFICATION FairContextSpec
CONSTANTS
  u1 = u1
  Users = {u1}
  Disconnectors = {u1}
  Manager = u1
  Heartbeat = heartbeat
  None = None
  Adapters = {"tcp"}
  Reuse = "no"
  MaxStarts = 1
  MaxTimeouts = 1
  MaxRaises = 0
CHECK_DEADLOCK FALSE
INVARIANTS
  ExitMeansOver
PROPERTIES
  ReceiptEndsContext
  DisconnectReturns
  WaitReturns
  DropIsTold
  ReceiverEnds
  Implements
