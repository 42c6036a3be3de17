CONSTANTS
  acq = acq  main = main
  Threads = {acq, main}
  Acquirers = {acq}
  Drainers = {main}
  Depth = 3
  Slots = 4
  Contended = TRUE
SPECIFICATION Spec
INVARIANT ExclusiveOwnership
