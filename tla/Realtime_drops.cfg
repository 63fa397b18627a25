\* What the documentation says of a batch that is given up.
CONSTANTS
  BlockKeys <- MCKeys
  EndOf <- MCEndOf
  Start = 0
  LastTime = 2
  Rows = {"fix1"}
  ChanCap = 1
  BatchSize = 2
  Attempts = 2
SPECIFICATION RealtimeSpec
PROPERTIES DropIsCounted
CHECK_DEADLOCK FALSE
