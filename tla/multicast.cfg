SPECIFICATION Spec
CONSTANTS
  m1 = m1
  m2 = m2
  a = a
  b = b
  c = c
  x = x
  Members = {m1, m2}
  Threads = {a, b, c}
  MemberOf <- MCMemberOf
  Uses <- MCUses
  Transactions = {x}
  Destinations = {destination}
  Ids = {1}
  destination = destination
  None = None
  MaxMessages = 2
  MaxBegins = 1
  MaxRaises = 1
  MaxFails = 1
CHECK_DEADLOCK FALSE
INVARIANTS
  TypeOK
  ReceiptMeansDelivered
  OnlyCommitted
  DeliveredOnce
PROPERTIES
  CommitIsWhole
