CONSTANTS
  Requests <- AbandonRequests
  NoBody = NoBody
  ShortLens = {0}
  Addrs = {0, 1}
  MaxSample = 0
  Lossy = {}
  MaxLost = 0
  MayAbandon = TRUE
  MaxRestarts = 0
SPECIFICATION SysSpec
PROPERTIES AddressAfterStatus
