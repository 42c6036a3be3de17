CONSTANTS
  Frames <- MCFrames
  MaxFrames = 3
  Depth = 2
  MaxOpens = 2
  Backlog = 1
  DiskFails = TRUE
SPECIFICATION Spec
INVARIANTS RecordsWhatIsShown NoSilentLoss CrashKeepsWholeFrames SealedReadsBack
PROPERTIES FrameReachesDisplay
CHECK_DEADLOCK FALSE
