SPECIFICATION Spec
CONSTANTS
  queue = queue
  topic = topic
  Names = {queue, topic}
  None = None
  Replies = FALSE
  Versions = {"1.0", "1.2"}
  MaxSubscriptions = 2
  MaxOperations = 2
  MaxFlight = 1
  MaxBegins = 2
  MaxDepth = 1
INVARIANTS
  InStep
  Atomically
PROPERTIES
  CommitsArrive
