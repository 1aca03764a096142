CONSTANTS
  MaxReadings = 2
  Threads = 2
SPECIFICATION HangSpec
PROPERTIES ReadReturns
CHECK_DEADLOCK FALSE
