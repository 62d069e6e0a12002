SPECIFICATION Spec
CONSTANTS
  Connections <- MCConnections
  Own <- MCOwn
  Arguments <- MCArguments
  Bodies <- MCBodies
  MaxLength = 2
  MaxCalls = 2
INVARIANTS
  ReadAsMeant
