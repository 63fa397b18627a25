\* Two minutes after the warm-up; one restart at any point.
CONSTANTS
  TsMin <- MCTsMin
  TsMax = 30
  Sensors = {1, 2}
  Declared <- MCDeclared
  Timeout = 1
  Ttl = 2
  Block = 2
  Minute = 4
  From = 1
  To = 3
  Lookback = 2
  Frames = {"taxi", "roll", "name"}
  Parse <- MCParse
  None = None
  Icaos = {"b", "c"}
  DebounceN = 1
  SurfaceRef = "tower"
  PairWindow = 10
  EventTimes <- MCEventTimes
  NowTimes = {}
  Restore = {}
  Contents <- MCContents
  OldRows <- MCOldRows
  MaxRuns = 1
SPECIFICATION RecomputeSpec
INVARIANTS RecomputeTypeOK NothingLate WrittenMinutesComplete BucketsBounded OutsideUntouched
PROPERTIES RerunConverges RunEnds
CHECK_DEADLOCK FALSE
