\* Channels of one place, batches of two rows, two attempts; two row contents.
CONSTANTS
  BlockKeys <- MCKeys
  EndOf <- MCEndOf
  Start = 0
  LastTime = 2
  Rows = {"fix1", "fix2"}
  ChanCap = 1
  BatchSize = 2
  Attempts = 2
SPECIFICATION RealtimeSpec
INVARIANTS RealtimeTypeOK RowsAccounted ShutdownDrains
PROPERTIES RowsSettled ShutdownEnds
CHECK_DEADLOCK FALSE
