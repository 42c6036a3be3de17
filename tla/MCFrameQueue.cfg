CONSTANTS
  acq = acq  main = main
  f1 = f1  f2 = f2  f3 = f3
  NoItem = NoItem
  Items = {f1, f2, f3}
  Slots = 4
  Pushers = {acq}
  Poppers = {main}
  StaleLoads = TRUE
SPECIFICATION QueueSpec
INVARIANTS SlotExclusive
PROPERTY ImplementsFifo
