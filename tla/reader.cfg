SPECIFICATION Spec
CONSTANTS
  Streams <- MCStreams
  MaxItems = 2
  MaxConnections = 2
  CrlfEols = FALSE
  SlowReader = FALSE
  ReuseStopped = FALSE
INVARIANTS
  DeliveredAsSent
  NothingHeldBack
  HeartbeatsHonest
