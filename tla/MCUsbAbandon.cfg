CONSTANTS
  Requests <- AbandonRequests
  NoBody = NoBody
  ShortLens = {0}
  Addrs = {0, 1}
  MaxSample = 1
  Lossy = {"hostData", "hostAck", "ack", "nak"}
  MaxLost = 1
  MayAbandon = TRUE
  MaxRestarts = 0
SPECIFICATION SysSpec
INVARIANTS ReplyMatchesRequest StatusMeansDone
PROPERTIES ToggleAgreement ImplementsPipe
