\* A process dies with an acknowledgement on its way.
CONSTANTS
  TsMin <- MCTsMin
  TsMax = 30
  Sensors = {"s"}
  Timeout = 1
  Ttl = 1
  Block = 2
  Frames = {"taxi1", "taxi2", "taxi3"}
  Parse <- MCParse
  None = None
  Icaos = {"b"}
  DebounceN = 1
  SurfaceRef = "tower"
  PairWindow = 10
  EventTimes = {0, 1, 2}
  NowTimes = {4}
  Restore = {}
  ChanCap = 1
  BatchSize = 2
  Attempts = 1
  Content <- Two
  Records <- TwoRecords
  Header <- TwoHeaders
  Prefetch = 0
  InitialBackoff = 1
  MaxBackoff = 1
  MaxTroubles = 1
SPECIFICATION PipelineSpec
PROPERTIES RedeliveryAbsorbed
CHECK_DEADLOCK FALSE
