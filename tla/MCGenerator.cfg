SPECIFICATION GeneratorSpec
CONSTANTS
  Outputs = {1, 2}
  MaxLength = 2
  ClockTicks = 12
  MinPulse = 2
  MaxEncodable = 6
  DefaultPattern <- MCDefault
  DefaultRpm = 2
  DefaultPulses = 1
  FirstOutput = 1
  OemFiles <- MCFiles
  MaxActs = 6
  MaxFailures = 1
CHECK_DEADLOCK FALSE
INVARIANTS RealSpeedShown DeviceFollows
PROPERTIES EditsSurvive
