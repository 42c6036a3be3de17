CONSTANTS
  Volts <- MCVolts
  Thresholds <- MCThresholds
  MaxSamples = 7
  Bins = 13
  MinSeparation = 5
  ModeShare = 5
  SecondShare = 20
  Unit = 60
  MaxColumns = 3
SPECIFICATION Spec
INVARIANTS CrossingsAreExcursions LevelsIgnoreDropout PeriodicIsMeasured DrawnIsSampled
CHECK_DEADLOCK FALSE
