SPECIFICATION Spec
CONSTANTS
  Points = 6
  Step = 2
  Signals <- MCSignals
  Window = 12
  Slopes = {"Rising", "Falling", "Either"}
  Levels = {2, 12}
  TriggerModes = {"Auto", "Normal"}
  Fitted = 5
  MaxChanges = 2
INVARIANTS ModeHonoured
PROPERTIES SweepsSettle SingleEnds
CHECK_DEADLOCK FALSE
