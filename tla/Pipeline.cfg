\* One lost connection, failed session or dead process; more messages than a
\* process can leave unread.
CONSTANTS
  TsMin <- MCTsMin
  TsMax = 30
  Sensors = {"s"}
  Timeout = 1
  Ttl = 1
  Block = 2
  Frames = {"taxi1", "taxi2", "taxi3"}
  Parse <- MCParse
  None = None
  Icaos = {"b"}
  DebounceN = 1
  SurfaceRef = "tower"
  PairWindow = 10
  EventTimes = {0, 1, 2}
  NowTimes = {4}
  Restore = {}
  ChanCap = 1
  BatchSize = 2
  Attempts = 1
  Content <- MCContent
  Records <- MCRecords
  Header <- MCHeader
  Prefetch = 1
  InitialBackoff = 1
  MaxBackoff = 1
  MaxTroubles = 1
SPECIFICATION FairPipelineSpec
INVARIANTS RedeliveryFiltered TableIsLastAccepted UnreadBounded UnsavedHeld
PROPERTIES ImplementsRealtime EveryRecordHandled
CHECK_DEADLOCK FALSE
