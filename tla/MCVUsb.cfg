CONSTANTS
  Requests <- MCRequests
  NoBody = NoBody
  ShortLens = {0, 3}
  Addrs = {0, 1}
  MaxSample = 1
SPECIFICATION Spec
INVARIANTS TypeOK DeviceInv
PROPERTIES RxStable TxWhole AckedMeansKept
