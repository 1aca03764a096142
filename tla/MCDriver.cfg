CONSTANTS
  Procs = {p1, p2}
  Devs = {d1}
  DATA_LEN = 2
  MSG_LEN = 3
  ReadSizes = {1, 3}
  NUL = NUL
SPECIFICATION FairSpec
INVARIANTS TypeOK MessageEnds ReadsOwnTemperature OpenKeepsDevice NothingLeft
PROPERTIES DisconnectEnds OpenReturns
