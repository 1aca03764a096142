CONSTANTS
  Requests <- MCRequests
  NoBody = NoBody
  ShortLens = {0}
  Addrs = {0, 1}
  MaxSample = 1
  Lossy = {"hostData", "hostAck", "ack", "nak"}
  MaxLost = 2
  MayAbandon = FALSE
  MaxRestarts = 0
SPECIFICATION FairSysSpec
INVARIANTS SysTypeOK ReplyMatchesRequest StatusMeansDone AddressAgreed
PROPERTIES ToggleAgreement AddressAfterStatus EveryTransferEnds ImplementsPipe
