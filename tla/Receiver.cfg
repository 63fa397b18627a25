\* Four messages, a window of two, and two failures of any kind, with a delay that
\* reaches its limit at the second.
CONSTANTS
  Header <- MCHeader
  Records <- MCRecords
  Prefetch = 2
  ChanCap = 1
  InitialBackoff = 2
  MaxBackoff = 3
  MaxTroubles = 2
SPECIFICATION ReceiverSpec
INVARIANTS ReceiverTypeOK AckedIsPassedOn BackoffSchedule
PROPERTIES AllAcknowledged
CHECK_DEADLOCK FALSE
