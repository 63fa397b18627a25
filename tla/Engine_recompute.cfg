\* Data-driven engine: no wall clock, two sensors up to Timeout apart.
CONSTANTS
  TsMin <- MCTsMin
  TsMax = 20
  Sensors = {s1, s2}
  Timeout = 1
  Ttl = 2
  Block = 2
  Frames = {"even", "odd"}
  Parse <- MCParse
  None = None
  Icaos = {"a"}
  DebounceN = 1
  SurfaceRef = None
  PairWindow = 10
  EventTimes = {0, 1, 2, 3, 4}
  NowTimes = {}
  Restore = {}
SYMMETRY Symmetry
SPECIFICATION HSpec
INVARIANTS EngineTypeOK ActiveSensorNeverLate PendingBounded DedupMemory DedupExact KeyReturnedOnce
PROPERTIES DuplicateRemembered LedgerSpec
CHECK_DEADLOCK FALSE
