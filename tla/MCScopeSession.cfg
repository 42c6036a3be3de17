CONSTANTS
  MaxRequests = 3
  MaxDrivers = 3
  MaxEpoch = 3
  MaxOps = 1
  MaxPosts = 2
SPECIFICATION Spec
INVARIANTS BusyIsTrue AdoptedIsOpen
PROPERTIES OnlyLiveDrivers AnsweredOnce CloseReturns
CHECK_DEADLOCK FALSE
