SPECIFICATION AppSpec
CONSTANTS
  Devices <- MCDevices
  Buses <- MCBuses
  Options <- MCOptions
  Captures <- MCCaptures
  Setups = {mine}
  Default = default
  None = None
  MaxRuns = 2
  MaxPicks = 2
INVARIANTS OneIsTried
PROPERTIES OnlyRemembered SetupsKept SelectionEnds
CHECK_DEADLOCK FALSE
