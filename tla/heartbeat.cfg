SPECIFICATION Spec
CONSTANTS
  Client <- MCClient
  Offers <- MCOffers
  None = None
  MaxConnections = 2
  MaxTime = 9
INVARIANTS
  OneLoop
  BothAgree
  SentInTime
  SilenceNoticed
  FirstBeats
PROPERTIES
  TimeoutHonest
