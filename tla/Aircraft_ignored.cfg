\* A candidate interrupted only by the confirmed call sign.
CONSTANTS
  TsMin <- MCTsMin
  TsMax = 20
  Parse <- MCParse
  None = None
  Icaos = {"a", "b"}
  DebounceN = 3
  SurfaceRef = None
  PairWindow = 2
  Feeds <- TwoNames
  EventTimes = {0}
  Restore <- MCRestore
  MaxHeard = 4
SPECIFICATION ManagerSpec
INVARIANT ConfirmedValueIsIgnored
