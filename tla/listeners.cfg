SPECIFICATION Spec
CONSTANTS
  test = test
  other = other
  w1 = w1
  w2 = w2
  Names = {1, 2}
  Listeners = {test, other}
  Test = test
  Waiters = {w1, w2}
  None = None
  MaxFrames = 2
  MaxChanges = 2
  MaxTimeouts = 1
SYMMETRY Symmetry
CHECK_DEADLOCK FALSE
INVARIANTS
  HeardOnce
  WaitersServed
  TimeoutTold
