CONSTANTS
  Count = 3
  MaxDrivers = 2
  MaxPosts = 2
  Travel = 4
  None = None
  Mixed = Mixed
SPECIFICATION Spec
INVARIANTS SeekIsShown
PROPERTIES PlaysEveryFrame StopReturns
CHECK_DEADLOCK FALSE
