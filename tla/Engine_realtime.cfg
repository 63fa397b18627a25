\* Realtime engine: the wall clock also moves the watermark.
CONSTANTS
  TsMin <- MCTsMin
  TsMax = 20
  Sensors = {s1, s2}
  Timeout = 2
  Ttl = 1
  Block = 3
  Frames = {"taxi1", "taxi2"}
  Parse <- MCParse
  None = None
  Icaos = {"b"}
  DebounceN = 1
  SurfaceRef = "tower"
  PairWindow = 10
  EventTimes = {0, 1, 3, 4, 6}
  NowTimes = {4, 6, 8}
  Restore <- MCRestore
SYMMETRY Symmetry
SPECIFICATION HSpec
PROPERTIES WatermarkMonotone ReturnedRowsFinal
CHECK_DEADLOCK FALSE
