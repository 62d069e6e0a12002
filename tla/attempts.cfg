SPECIFICATION Spec
CONSTANTS
  Remote = {"remote"}
  Given <- MCGiven
  Limits <- MCLimits
  Initial = 10
  Factor = 2
  SleepMax = 21
  Jitter = 1
  MaxRounds = 3
  None = None
INVARIANTS
  ConnectedAsPreferred
  WholeRounds
  PausesAsDocumented
PROPERTIES
  Ends
