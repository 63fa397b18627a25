\* The program's own second and minute for the command line; five ticks a second
\* for the messages, and three seconds from each start.
CONSTANTS
  Second = 1000
  Minute = 60000
  Uppercase = {"A", "B"}
  Digits = {"0", "1", "2", "3"}
  None = None
  CommandLines <- MCCommandLines
  Instants <- MCInstants
  SecondTicks = 5
  EpochYear = 1970
  PaddingLen = 1
  Starts <- MCStarts
  StartTime <- MCStartTime
  MaxTicks = 15
  OddDelay = 2
  DupDelay = 1
  OtherBodies <- MCOtherBodies
SPECIFICATION IntakeSpec
INVARIANTS BlocksUncut FilesReadOnce TimesExact FramesDistinct
CHECK_DEADLOCK FALSE
