\* The first event of a declared sensor.
CONSTANTS
  TsMin <- MCTsMin
  TsMax = 20
  Sensors = {s1, s2}
  Timeout = 1
  Ttl = 2
  Block = 2
  Frames = {"even", "odd"}
  Parse <- MCParse
  None = None
  Icaos = {"a"}
  DebounceN = 1
  SurfaceRef = None
  PairWindow = 10
  EventTimes = {0, 1, 2, 3, 4}
  NowTimes = {}
  Restore = {}
SPECIFICATION HSpec
PROPERTY DeclaredSensorsHoldBack
CHECK_DEADLOCK FALSE
