\* Times within and beyond the pairing window; the program's own threshold of
\* observations.
CONSTANTS
  TsMin <- MCTsMin
  TsMax = 20
  Parse <- MCParse
  None = None
  Icaos = {"a", "b"}
  DebounceN = 3
  SurfaceRef = 0
  PairWindow = 2
  Feeds <- BothFeeds
  EventTimes = {0, 2, 3}
  Restore <- MCRestore
  MaxHeard = 4
SPECIFICATION ManagerSpec
INVARIANTS ManagerTypeOK StreakConfirms PairedWithLatest
PROPERTY ConfirmedOnlyByStreak
