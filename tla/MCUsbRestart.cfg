CONSTANTS
  Requests <- AbandonRequests
  NoBody = NoBody
  ShortLens = {0}
  Addrs = {0, 1}
  MaxSample = 1
  Lossy = {"hostData", "hostAck", "reply", "ack", "nak"}
  MaxLost = 2
  MayAbandon = FALSE
  MaxRestarts = 1
SPECIFICATION FairSysSpec
INVARIANTS StatusMeansDone AddressAgreed
PROPERTIES SetupNakOnlyRepeated RestartHeals
