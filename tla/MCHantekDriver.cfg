CONSTANTS
  Calls = {"open", "close", "start", "single", "stop", "apply", "generator", "download", "autoset"}
  Modes = {"Windowed", "Streaming"}
  MaxVersions = 2
SPECIFICATION Spec
INVARIANTS JoinedFirst  DeviceInSync 
PROPERTIES ChangesReachDevice CallsReturn
