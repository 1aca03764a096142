CONSTANTS
  MaxReadings = 3
  Threads = 2
SPECIFICATION FairSpec
INVARIANTS TypeOK OwnReading GivenUpGone
PROPERTIES ReadingShown
CHECK_DEADLOCK FALSE
