------------------------------ MODULE VUsbProof ------------------------------
(***************************************************************************)
(* Proofs about VUsb, for any set of requests, addresses and packet        *)
(* lengths, any number of measurements, and any traffic on the bus.        *)
(*                                                                         *)
(* TypeOK /\ DeviceInv is inductive; what a step may do to the receive and *)
(* transmit buffers follows from it.                                       *)
(***************************************************************************)
EXTENDS VUsb, TLAPS

IInv == TypeOK /\ DeviceInv

-----------------------------------------------------------------------------
\* What the interrupt receives: the contents of a packet of the host, whole
\* requests exactly when there are 8 bytes, fit half of the receive buffer.
LEMMA HostPacketContents ==
  ASSUME NEW p \in WirePackets, p.from = "host"
  PROVE  /\ p \in HostPackets
         /\ p.len \in 0..8
         /\ [len |-> p.len, body |-> p.body] \in RxContents
<1>1. p \notin DevicePackets
  <2>1. Silence.from = "none" /\ \A pid : Handshake(pid).from = "device"
    BY DEF Silence, Handshake, Packet
  <2>2. \A q \in [from : {"device"}, pid : DataPids, addr : {0}, len : 0..8,
                  body : Payloads \cup {NoBody}] : q.from = "device"
    OBVIOUS
  <2> QED
    BY <2>1, <2>2 DEF DevicePackets
<1>2. p \in HostPackets
  BY <1>1 DEF WirePackets
<1>3. \A n \in ShortLens \cup {0} : [len |-> n, body |-> NoBody] \in RxContents
  BY DEF RxContents
<1>4. CASE p \in {Token(pid, a) : pid \in TokenPids, a \in Addrs}
  <2>1. p.len = 0 /\ p.body = NoBody
    BY <1>4 DEF Token, Packet
  <2> QED
    BY <1>2, <1>3, <2>1
<1>5. CASE p \in {Data(pid, 8, r) : pid \in DataPids, r \in Requests}
  <2>1. p.len = 8 /\ p.body \in Requests
    BY <1>5 DEF Data, Packet
  <2>2. [len |-> 8, body |-> p.body] \in RxContents
    BY <2>1 DEF RxContents
  <2> QED
    BY <1>2, <2>1, <2>2
<1>6. CASE p \in {Data(pid, n, NoBody) : pid \in DataPids, n \in ShortLens}
  <2>1. p.len \in ShortLens /\ p.body = NoBody
    BY <1>6 DEF Data, Packet
  <2>2. p.len \in 0..7
    BY <2>1, ShortAssumption
  <2> QED
    BY <1>2, <1>3, <2>1, <2>2
<1>7. CASE p = HostAck
  <2>1. p.len = 0 /\ p.body = NoBody
    BY <1>7 DEF HostAck, Packet
  <2> QED
    BY <1>2, <1>3, <2>1
<1> QED
  BY <1>2, <1>4, <1>5, <1>6, <1>7 DEF HostPackets

\* A packet of 8 bytes in the receive buffer is one of the requests.
LEMMA FullContents ==
  ASSUME NEW c \in RxContents, c.len = 8
  PROVE  c.body \in Requests
BY ShortAssumption DEF RxContents

\* What the device puts on the bus is a packet of the bus.
LEMMA DeviceReplies ==
  /\ Silence \in WirePackets
  /\ Handshake(USBPID_ACK) \in WirePackets
  /\ Handshake(USBPID_NAK) \in WirePackets
  /\ \A pid \in DataPids, n \in 0..8, b \in Payloads \cup {NoBody} :
       Packet("device", pid, 0, n, b) \in WirePackets
BY DEF WirePackets, DevicePackets, Packet

\* Lengths are not taken for handshakes, nor NAK for a length.
LEMMA HandshakeOrLength ==
  ASSUME NEW x \in {USBPID_NAK} \cup 4..12
  PROVE  IsHandshake(x) <=> x = USBPID_NAK
<1>1. CASE x = USBPID_NAK
  BY <1>1 DEF IsHandshake, USBPID_NAK
<1>2. CASE x \in 4..12
  <2>1. x \div 16 = 0
    BY <1>2
  <2> QED
    BY <1>2, <2>1 DEF IsHandshake, USBPID_NAK
<1> QED
  BY <1>1, <1>2

\* The reply length fits a byte, for every request.
LEMMA ReplyLenByte ==
  ASSUME NEW rq \in Requests
  PROVE  ReplyLen(rq) \in 0..255
<1>1. rq.wLength \in Word
  <2>1. \A r \in RequestType : r.wLength \in Word
    BY DEF RequestType
  <2> QED
    BY <2>1, RequestsAssumption
<1>2. \A x \in Word : x \in Nat /\ x % 256 \in 0..255
  <2>1. \A x \in Nat : x % 256 \in 0..255
    OBVIOUS
  <2>2. Word \subseteq Nat
    BY SMTT(60) DEF Word
  <2> QED
    BY <2>1, <2>2
<1>3. DescriptorFor(rq) \in Descriptors \cup {"none"}
  BY DEF DescriptorFor, Descriptors
<1>4. \A d \in Descriptors \cup {"none"} : DescriptorLen[d] \in 0..18
  BY DEF DescriptorLen, StringLen, USB_CFG_VENDOR_NAME_LEN, USB_CFG_DEVICE_NAME_LEN, Descriptors
<1>5. DriverSetupLen(rq) \in 0..18
  BY <1>3, <1>4 DEF DriverSetupLen
<1>6. SetupLen(rq) \in 0..18 \/ SetupLen(rq) = 255
  BY <1>5 DEF SetupLen, usbFunctionSetup, USB_NO_MSG, USB_CFG_LONG_TRANSFERS
<1> QED
  BY <1>1, <1>2, <1>6 DEF ReplyLen, Min2, USB_NO_MSG, USB_CFG_LONG_TRANSFERS

-----------------------------------------------------------------------------
\* The invariant holds initially.
LEMMA InitInv == Init => IInv
<1> SUFFICES ASSUME Init PROVE IInv
  OBVIOUS
<1>1. [len |-> 0, body |-> NoBody] \in RxContents
  BY DEF RxContents
<1>2. RxTypes
  BY <1>1 DEF Init, RxTypes
<1>3. TxTypes
  BY DEF Init, TxTypes
<1>4. MsgTypes
  BY DEF Init, MsgTypes, Sources, USB_NO_MSG, USB_CFG_LONG_TRANSFERS
<1>5. AddrTypes
  BY DEF Init, AddrTypes
<1>6. MainTypes
  BY SampleAssumption DEF Init, MainTypes, PollPcs
<1>7. BusTypes
  BY DeviceReplies, Zenon DEF Init, BusTypes
<1>8. DeviceInv
  BY DEF Init, DeviceInv, RxComplete, RxHeld, PidSet, TxHeld
<1> QED
  BY <1>2, <1>3, <1>4, <1>5, <1>6, <1>7, <1>8 DEF IInv, TypeOK

-----------------------------------------------------------------------------
\* Variables that a step leaves alone keep their types.
LEMMA StableTypes ==
  /\ RxTypes /\ UNCHANGED rxVars => RxTypes'
  /\ TxTypes /\ UNCHANGED txVars => TxTypes'
  /\ MsgTypes /\ UNCHANGED msgVars => MsgTypes'
  /\ AddrTypes /\ UNCHANGED <<addrVars, usbConfiguration>> => AddrTypes'
  /\ MainTypes /\ UNCHANGED mainVars => MainTypes'
  /\ BusTypes /\ UNCHANGED busVars => BusTypes'
<1>1. RxTypes /\ UNCHANGED rxVars => RxTypes'
  BY DEF RxTypes, rxVars
<1>2. TxTypes /\ UNCHANGED txVars => TxTypes'
  BY DEF TxTypes, txVars
<1>3. MsgTypes /\ UNCHANGED msgVars => MsgTypes'
  BY DEF MsgTypes, msgVars
<1>4. AddrTypes /\ UNCHANGED <<addrVars, usbConfiguration>> => AddrTypes'
  BY DEF AddrTypes, addrVars
<1>5. MainTypes /\ UNCHANGED mainVars => MainTypes'
  BY DEF MainTypes, mainVars
<1>6. BusTypes /\ UNCHANGED busVars => BusTypes'
  BY Zenon DEF BusTypes, busVars
<1> QED
  BY <1>1, <1>2, <1>3, <1>4, <1>5, <1>6

\* Receiving changes only the half that is received into: the packet to
\* process stays as it is, the other half holds what came.
LEMMA ReceiveBuf ==
  ASSUME TypeOK, NEW pids, Receive(pids)
  PROVE  /\ usbRxBuf' \in [0..1 -> RxContents]
         /\ usbRxBuf'[1 - usbInputBufOffset] = RxPacket
         /\ usbRxBuf'[usbInputBufOffset] = [len |-> wire.len, body |-> wire.body]
         /\ wire.len \in 0..8
         /\ wire \in HostPackets /\ wire.from = "host" /\ wire.pid \in pids
<1>1. wire \in WirePackets /\ wire.from = "host" /\ wire.pid \in pids
  BY DEF TypeOK, BusTypes, Receive, Arrives
<1>2. /\ wire.len \in 0..8 /\ wire \in HostPackets
      /\ [len |-> wire.len, body |-> wire.body] \in RxContents
  BY <1>1, HostPacketContents
<1>3. usbRxBuf \in [0..1 -> RxContents] /\ usbInputBufOffset \in 0..1
  BY DEF TypeOK, RxTypes
<1> QED
  BY <1>1, <1>2, <1>3 DEF Receive, Arrives, RxPacket

\* An interrupt that only receives, sets the current token and answers.
LEMMA QuietIsr ==
  ASSUME IInv, NEW pids, Receive(pids),
         usbCurrentTok' \in {0, USBPID_SETUP, USBPID_OUT},
         NEW p \in WirePackets, Reply(p),
         UNCHANGED <<usbInputBufOffset, usbRxLen, usbRxToken, txVars, msgVars,
                     addrVars, usbConfiguration, mainVars>>
  PROVE  IInv'
<1>1. RxTypes'
  BY ReceiveBuf DEF IInv, TypeOK, RxTypes
<1>2. TxTypes' /\ MsgTypes' /\ AddrTypes' /\ MainTypes'
  BY StableTypes DEF IInv, TypeOK
<1>3. BusTypes'
  BY Zenon DEF IInv, TypeOK, BusTypes, Reply
<1>4. RxPacket' = RxPacket
  BY ReceiveBuf DEF IInv, RxPacket
<1>5. DeviceInv'
  BY <1>4 DEF IInv, DeviceInv, RxComplete, RxHeld, PidSet, TxHeld, txVars, msgVars,
              mainVars
<1> QED
  BY <1>1, <1>2, <1>3, <1>5 DEF IInv, TypeOK

LEMMA StoreInv == IInv /\ HandleDataStore => IInv'
<1> SUFFICES ASSUME IInv, HandleDataStore PROVE IInv'
  OBVIOUS
<1>1. Receive(DataPids)
  BY DEF HandleDataStore
<1>2. /\ usbRxBuf' \in [0..1 -> RxContents]
      /\ usbRxBuf'[usbInputBufOffset] = [len |-> wire.len, body |-> wire.body]
      /\ wire.len \in 0..8
  BY <1>1, ReceiveBuf DEF IInv
<1>3. /\ usbRxLen = 0 /\ usbRxLen' = wire.len + 3 /\ usbRxToken' = usbCurrentTok
      /\ usbInputBufOffset' = 1 - usbInputBufOffset /\ usbCurrentTok' = usbCurrentTok
      /\ UNCHANGED <<txVars, msgVars, addrVars, usbConfiguration, mainVars>>
  BY DEF HandleDataStore, RxFree, OffsetSwapped, AddrAfterHandshake, addrVars
<1>4. RxTypes'
  BY <1>2, <1>3 DEF IInv, TypeOK, RxTypes
<1>5. TxTypes' /\ MsgTypes' /\ AddrTypes' /\ MainTypes'
  BY <1>3, StableTypes DEF IInv, TypeOK
<1>6. BusTypes'
  BY DeviceReplies, Zenon DEF HandleDataStore, IInv, TypeOK, BusTypes, Reply
<1>7. RxPacket' = [len |-> wire.len, body |-> wire.body]
  BY <1>2, <1>3 DEF IInv, TypeOK, RxTypes, RxPacket
<1>8. DeviceInv'
  BY <1>2, <1>3, <1>7
     DEF IInv, DeviceInv, RxComplete, RxHeld, PidSet, TxHeld, txVars, msgVars, mainVars
<1> QED
  BY <1>4, <1>5, <1>6, <1>8 DEF IInv, TypeOK

LEMMA SendInv == IInv /\ HandleInSend => IInv'
<1> SUFFICES ASSUME IInv, HandleInSend PROVE IInv'
  OBVIOUS
<1>1. Receive({USBPID_IN})
  BY DEF HandleInSend
<1>2. usbTxLen \in 4..12 /\ usbRxLen = 0
  BY HandshakeOrLength DEF HandleInSend, Sends, IInv, TypeOK, TxTypes, RxTypes
<1>3. /\ usbTxLen' = USBPID_NAK /\ usbTxBuf' = usbTxBuf
      /\ usbDeviceAddr' = usbNewDeviceAddr % 128
      /\ Reply(Packet("device", usbTxBuf.pid, 0, usbTxLen - 4, usbTxBuf.body))
      /\ UNCHANGED <<usbInputBufOffset, usbRxLen, usbRxToken, usbCurrentTok,
                     msgVars, usbNewDeviceAddr, usbConfiguration, mainVars>>
  BY DEF HandleInSend, AddrAssigned
<1>4. RxTypes'
  BY <1>1, <1>3, ReceiveBuf DEF IInv, TypeOK, RxTypes
<1>5. TxTypes'
  BY <1>3 DEF IInv, TypeOK, TxTypes
<1>6. MsgTypes' /\ MainTypes'
  BY <1>3, StableTypes DEF IInv, TypeOK
<1>7. AddrTypes'
  BY <1>3 DEF IInv, TypeOK, AddrTypes
<1>8. usbTxBuf.pid \in DataPids
  BY <1>2 DEF IInv, DeviceInv, PidSet, USBPID_NAK
<1>9. usbTxLen - 4 \in 0..8
  BY <1>2
<1>10. BusTypes'
  <2>1. usbTxBuf.body \in Payloads \cup {NoBody}
    BY DEF IInv, TypeOK, TxTypes
  <2>2. Packet("device", usbTxBuf.pid, 0, usbTxLen - 4, usbTxBuf.body) \in WirePackets
    BY <1>8, <1>9, <2>1, DeviceReplies
  <2> QED
    BY <1>3, <2>2, Zenon DEF Reply, IInv, TypeOK, BusTypes
<1>11. RxPacket' = RxPacket
  BY <1>1, <1>3, ReceiveBuf DEF IInv, RxPacket
<1>12. DeviceInv'
  BY <1>2, <1>3, <1>8, <1>11
     DEF IInv, DeviceInv, RxComplete, RxHeld, PidSet, TxHeld, msgVars, mainVars
<1> QED
  BY <1>4, <1>5, <1>6, <1>7, <1>10, <1>12 DEF IInv, TypeOK

\* The interrupt preserves the invariant.
LEMMA IsrInv == IInv /\ Isr => IInv'
<1> SUFFICES ASSUME IInv, Isr PROVE IInv'
  OBVIOUS
<1>1. usbCurrentTok \in {0, USBPID_SETUP, USBPID_OUT}
  BY DEF IInv, TypeOK, RxTypes
<1>2. CASE HandleDataIgnored
  BY <1>1, <1>2, QuietIsr, DeviceReplies DEF HandleDataIgnored
<1>3. CASE HandleDataBusy
  BY <1>1, <1>3, QuietIsr, DeviceReplies DEF HandleDataBusy, AddrAfterHandshake, addrVars
<1>4. CASE HandleDataStatus
  BY <1>1, <1>4, QuietIsr, DeviceReplies DEF HandleDataStatus, AddrAfterHandshake, addrVars
<1>5. CASE HandleDataStore
  BY <1>5, StoreInv
<1>6. CASE HandleInBusy
  <2>1. usbTxLen = USBPID_NAK \/ usbRxLen >= 1
    BY <1>6, HandshakeOrLength
       DEF HandleInBusy, Sends, IInv, TypeOK, TxTypes, RxTypes
  <2>2. Reply(Handshake(USBPID_NAK))
    BY <1>6, <2>1 DEF HandleInBusy
  <2> QED
    BY <1>1, <1>6, <2>2, QuietIsr, DeviceReplies
       DEF HandleInBusy, AddrAfterHandshake, addrVars
<1>7. CASE HandleInSend
  BY <1>7, SendInv
<1>8. CASE HandleSetupOrOut
  <2>1. usbCurrentTok' \in {0, USBPID_SETUP, USBPID_OUT}
    BY <1>8 DEF HandleSetupOrOut, Receive, Arrives
  <2> QED
    BY <1>8, <2>1, QuietIsr, DeviceReplies DEF HandleSetupOrOut
<1>9. CASE IgnorePacket
  <2>1. PICK pids : Receive(pids)
    BY <1>9 DEF IgnorePacket
  <2>2. usbCurrentTok' \in {0, USBPID_SETUP, USBPID_OUT}
    BY <1>9 DEF IgnorePacket
  <2> QED
    BY <1>9, <2>1, <2>2, QuietIsr, DeviceReplies DEF IgnorePacket
<1> QED
  BY <1>2, <1>3, <1>4, <1>5, <1>6, <1>7, <1>8, <1>9 DEF Isr

-----------------------------------------------------------------------------
\* The steps of the main loop that only move on, with what they have found.
LEMMA MoveInv ==
  ASSUME IInv, pc' \in PollPcs, sample' \in 0..MaxSample,
         UNCHANGED <<rxVars, txVars, msgVars, addrVars, usbConfiguration, len, busVars>>,
         RxHeld', PidSet', TxHeld'
  PROVE  IInv'
<1>1. RxTypes' /\ TxTypes' /\ MsgTypes' /\ AddrTypes' /\ BusTypes'
  BY StableTypes DEF IInv, TypeOK
<1>2. MainTypes'
  BY DEF IInv, TypeOK, MainTypes
<1>3. RxComplete'
  BY DEF IInv, DeviceInv, RxComplete, RxPacket, rxVars
<1> QED
  BY <1>1, <1>2, <1>3 DEF IInv, TypeOK, DeviceInv

LEMMA PollInv ==
  IInv /\ (MeasureTemp \/ PollSetup \/ PollOther \/ PollNothing \/ TxCheck) => IInv'
<1> SUFFICES ASSUME IInv, MeasureTemp \/ PollSetup \/ PollOther \/ PollNothing \/ TxCheck
             PROVE  IInv'
  OBVIOUS
<1> USE DEF IInv, TypeOK, DeviceInv, RxHeld, PidSet, TxHeld, At, PollPcs,
            rxVars, txVars, msgVars, MainTypes
<1>1. CASE MeasureTemp
  <2>1. sample' \in 0..MaxSample
    BY <1>1, SampleAssumption DEF MeasureTemp
  <2> QED
    BY <1>1, <2>1, MoveInv DEF MeasureTemp
<1>2. CASE PollSetup
  <2>1. usbRxLen = 11
    BY <1>2 DEF PollSetup, RxTypes
  <2> QED
    BY <1>2, <2>1, MoveInv DEF PollSetup
<1>3. CASE PollOther
  <2>1. usbRxLen # 0
    BY <1>3 DEF PollOther, RxTypes
  <2> QED
    BY <1>3, <2>1, MoveInv DEF PollOther
<1>4. CASE PollNothing
  BY <1>4, MoveInv DEF PollNothing
<1>5. CASE TxCheck
  <2>1. MustBuild => usbTxLen = USBPID_NAK /\ usbMsgLen # USB_NO_MSG
    BY HandshakeOrLength DEF MustBuild, TxTypes
  <2> QED
    BY <1>5, <2>1, MoveInv DEF TxCheck
<1> QED
  BY <1>1, <1>2, <1>3, <1>4, <1>5

LEMMA InitToggleInv == IInv /\ InitToggle => IInv'
<1> SUFFICES ASSUME IInv, InitToggle PROVE IInv'
  OBVIOUS
<1>1. /\ usbTxBuf' = [usbTxBuf EXCEPT !.pid = USBPID_DATA0]
      /\ pc = "initToggle" /\ pc' = "abortTx"
      /\ UNCHANGED <<rxVars, usbTxLen, msgVars, addrVars, usbConfiguration, len, sample, busVars>>
  BY DEF InitToggle, InitialPid, At
<1>2. /\ usbTxBuf' \in [pid : {0} \cup DataPids, body : Payloads \cup {NoBody}]
      /\ usbTxBuf'.pid \in DataPids /\ usbTxBuf'.body = usbTxBuf.body
  BY <1>1 DEF IInv, TypeOK, TxTypes, DataPids
<1>3. TxTypes'
  BY <1>1, <1>2 DEF IInv, TypeOK, TxTypes
<1>4. RxTypes' /\ MsgTypes' /\ AddrTypes' /\ BusTypes'
  BY <1>1, StableTypes DEF IInv, TypeOK
<1>5. MainTypes'
  BY <1>1 DEF IInv, TypeOK, MainTypes, PollPcs
<1>6. DeviceInv'
  BY <1>1, <1>2
     DEF IInv, DeviceInv, RxComplete, RxHeld, PidSet, TxHeld, RxPacket, rxVars, msgVars
<1> QED
  BY <1>3, <1>4, <1>5, <1>6 DEF IInv, TypeOK

LEMMA AbortTxInv == IInv /\ AbortTx => IInv'
<1> SUFFICES ASSUME IInv, AbortTx PROVE IInv'
  OBVIOUS
<1>1. /\ usbTxLen' = USBPID_NAK
      /\ pc = "abortTx" /\ pc' = "setup"
      /\ UNCHANGED <<rxVars, usbTxBuf, msgVars, addrVars, usbConfiguration, len, sample, busVars>>
  BY DEF AbortTx, TxAborted, At
<1>2. TxTypes'
  BY <1>1 DEF IInv, TypeOK, TxTypes
<1>3. RxTypes' /\ MsgTypes' /\ AddrTypes' /\ BusTypes'
  BY <1>1, StableTypes DEF IInv, TypeOK
<1>4. MainTypes'
  BY <1>1 DEF IInv, TypeOK, MainTypes, PollPcs
<1>5. DeviceInv'
  BY <1>1
     DEF IInv, DeviceInv, RxComplete, RxHeld, PidSet, TxHeld, RxPacket, rxVars, msgVars
<1> QED
  BY <1>2, <1>3, <1>4, <1>5 DEF IInv, TypeOK

\* A setup request is one of Requests, all of whose fields have their range.
LEMMA SetupInv == IInv /\ Setup => IInv'
<1> SUFFICES ASSUME IInv, Setup PROVE IInv'
  OBVIOUS
<1> DEFINE rq == RxPacket.body
<1>1. pc = "setup" /\ pc' = "release"
  BY DEF Setup, At
<1>2. usbRxLen = 11 /\ RxPacket.len + 3 = 11
  BY <1>1 DEF IInv, DeviceInv, RxHeld, RxComplete
<1>3. RxPacket \in RxContents
  BY DEF IInv, TypeOK, RxTypes, RxPacket
<1>4. RxPacket.len \in 0..8
  BY <1>3, ShortAssumption DEF RxContents
<1>5. rq \in Requests
  BY <1>2, <1>3, <1>4, FullContents
<1>6. rq.lo \in 0..255
  <2>1. \A r \in RequestType : r.lo \in 0..255
    BY DEF RequestType
  <2> QED
    BY <1>5, <2>1, RequestsAssumption
<1>7. usbMsgLen' \in 0..255
  BY <1>5, ReplyLenByte DEF Setup
<1>8. usbMsgFlags' \in {"USER_RW", "ROM", "RAM"}
  BY DEF Setup
<1>9. usbMsgPtr' \in [src : Sources, pos : Nat]
  <2>1. usbMsgPtr \in [src : Sources, pos : Nat]
    BY DEF IInv, TypeOK, MsgTypes
  <2>2. DescriptorFor(rq) \in Sources /\ DriverSetupSrc(rq) \in Sources
    BY DEF DescriptorFor, DriverSetupSrc, Sources, Descriptors, Scalars
  <2>3. \/ usbMsgPtr' = usbMsgPtr
        \/ usbMsgPtr' = [src |-> DescriptorFor(rq), pos |-> 0]
        \/ usbMsgPtr' = [src |-> DriverSetupSrc(rq), pos |-> 0]
    BY DEF Setup
  <2> QED
    BY <2>1, <2>2, <2>3
<1>10. MsgTypes'
  BY <1>7, <1>8, <1>9 DEF MsgTypes
<1>11. AddrTypes'
  BY <1>6 DEF Setup, AddrAfterSetup, IInv, TypeOK, AddrTypes
<1>12. UNCHANGED <<rxVars, txVars, len, sample, busVars>>
  BY DEF Setup
<1>13. RxTypes' /\ TxTypes' /\ BusTypes'
  BY <1>12, StableTypes DEF IInv, TypeOK
<1>14. MainTypes'
  BY <1>1, <1>12 DEF IInv, TypeOK, MainTypes, PollPcs
<1>15. DeviceInv'
  BY <1>1, <1>2, <1>12
     DEF IInv, DeviceInv, RxComplete, RxHeld, PidSet, TxHeld, RxPacket, rxVars, txVars
<1> QED
  BY <1>10, <1>11, <1>13, <1>14, <1>15 DEF IInv, TypeOK

LEMMA ReleaseInv == IInv /\ Release => IInv'
<1> SUFFICES ASSUME IInv, Release PROVE IInv'
  OBVIOUS
<1>1. /\ usbRxLen' = 0
      /\ pc = "release" /\ pc' = "txCheck"
      /\ UNCHANGED <<usbRxBuf, usbInputBufOffset, usbRxToken, usbCurrentTok, txVars,
                     msgVars, addrVars, usbConfiguration, len, sample, busVars>>
  BY DEF Release, At
<1>2. RxTypes'
  BY <1>1 DEF IInv, TypeOK, RxTypes
<1>3. TxTypes' /\ MsgTypes' /\ AddrTypes' /\ BusTypes'
  BY <1>1, StableTypes DEF IInv, TypeOK
<1>4. MainTypes'
  BY <1>1 DEF IInv, TypeOK, MainTypes, PollPcs
<1>5. DeviceInv'
  BY <1>1 DEF IInv, DeviceInv, RxComplete, RxHeld, PidSet, TxHeld, txVars, msgVars
<1> QED
  BY <1>2, <1>3, <1>4, <1>5 DEF IInv, TypeOK

LEMMA ToggleInv == IInv /\ Toggle => IInv'
<1> SUFFICES ASSUME IInv, Toggle PROVE IInv'
  OBVIOUS
<1>1. /\ len' = Min2(usbMsgLen, 8)
      /\ usbMsgLen' = usbMsgLen - Min2(usbMsgLen, 8)
      /\ usbTxBuf' = [usbTxBuf EXCEPT !.pid = ToggledPid(usbTxBuf.pid)]
      /\ pc = "toggle" /\ pc' = "read"
      /\ UNCHANGED <<rxVars, usbTxLen, usbMsgFlags, usbMsgPtr, addrVars, usbConfiguration,
                     sample, busVars>>
  BY DEF Toggle, At
<1>2. usbTxBuf.pid \in DataPids
  BY <1>1 DEF IInv, DeviceInv, PidSet
<1>3. /\ usbTxBuf' \in [pid : {0} \cup DataPids, body : Payloads \cup {NoBody}]
      /\ usbTxBuf'.pid \in DataPids
  BY <1>1, <1>2
     DEF IInv, TypeOK, TxTypes, ToggledPid, DataPids, USBPID_DATA0, USBPID_DATA1
<1>4. TxTypes'
  BY <1>1, <1>3 DEF IInv, TypeOK, TxTypes
<1>5. usbMsgLen' \in 0..255 /\ len' \in 0..8
  BY <1>1 DEF IInv, TypeOK, MsgTypes, Min2
<1>6. MsgTypes'
  BY <1>1, <1>5 DEF IInv, TypeOK, MsgTypes
<1>7. RxTypes' /\ AddrTypes' /\ BusTypes'
  BY <1>1, StableTypes DEF IInv, TypeOK
<1>8. MainTypes'
  BY <1>1, <1>5 DEF IInv, TypeOK, MainTypes, PollPcs
<1>9. DeviceInv'
  BY <1>1, <1>3, <1>5
     DEF IInv, DeviceInv, RxComplete, RxHeld, PidSet, TxHeld, RxPacket, rxVars
<1> QED
  BY <1>4, <1>6, <1>7, <1>8, <1>9 DEF IInv, TypeOK

LEMMA ReadInv == IInv /\ ReadBlock => IInv'
<1> SUFFICES ASSUME IInv, ReadBlock PROVE IInv'
  OBVIOUS
<1> DEFINE body == IF len > 0 THEN ReadBytes ELSE NoBody
<1>1. /\ usbTxBuf' = [usbTxBuf EXCEPT !.body = body]
      /\ len' = IF len <= 8 THEN len + 4 ELSE USBPID_STALL
      /\ usbMsgLen' \in {USB_NO_MSG, usbMsgLen}
      /\ usbMsgPtr' \in {PtrAdvanced, usbMsgPtr}
      /\ pc = "read" /\ pc' = "arm"
      /\ UNCHANGED <<rxVars, usbTxLen, usbMsgFlags, addrVars, usbConfiguration, sample, busVars>>
  BY DEF ReadBlock, At
<1>2. len \in 0..8 /\ usbTxLen = USBPID_NAK /\ usbTxBuf.pid \in DataPids
  BY <1>1 DEF IInv, DeviceInv, TxHeld, PidSet
<1>3. ReadBytes = Payload(ReadBytes.src, ReadBytes.at, len)
  BY DEF ReadBytes, Payload
<1>4. ReadBytes.src \in Sources \cup {"mVAvg"} /\ ReadBytes.at \in Nat
  BY SampleAssumption
     DEF ReadBytes, Payload, IInv, TypeOK, MsgTypes, AddrTypes, MainTypes, Sources, Scalars
<1>5. len > 0 => ReadBytes \in Payloads /\ ReadBytes.n = len
  BY <1>2, <1>3, <1>4 DEF Payload, Payloads
<1>6. body \in Payloads \cup {NoBody}
  BY <1>2, <1>5
<1>7. len = BodyLen(body)
  <2>1. CASE len = 0
    BY <2>1 DEF BodyLen
  <2>2. CASE len > 0
    BY <2>2, <1>5, NoBodyAssumption DEF BodyLen
  <2> QED
    BY <1>2, <2>1, <2>2
<1> HIDE DEF body
<1>8. /\ usbTxBuf' \in [pid : {0} \cup DataPids, body : Payloads \cup {NoBody}]
      /\ usbTxBuf'.pid \in DataPids
      /\ usbTxBuf'.body = body
  BY <1>1, <1>2, <1>6 DEF IInv, TypeOK, TxTypes
<1>9. len' = 4 + BodyLen(usbTxBuf'.body) /\ len' \in 4..12
  BY <1>1, <1>2, <1>7, <1>8
<1>10. TxTypes'
  BY <1>1, <1>8 DEF IInv, TypeOK, TxTypes
<1>11. MsgTypes'
  BY <1>1, <1>2 DEF IInv, TypeOK, MsgTypes, USB_NO_MSG, USB_CFG_LONG_TRANSFERS, PtrAdvanced
<1>12. RxTypes' /\ AddrTypes' /\ BusTypes'
  BY <1>1, StableTypes DEF IInv, TypeOK
<1>13. MainTypes'
  BY <1>1, <1>9 DEF IInv, TypeOK, MainTypes, PollPcs
<1>14. DeviceInv'
  BY <1>1, <1>2, <1>8, <1>9
     DEF IInv, DeviceInv, RxComplete, RxHeld, PidSet, TxHeld, RxPacket, rxVars, BodyLen
<1> QED
  BY <1>10, <1>11, <1>12, <1>13, <1>14 DEF IInv, TypeOK

LEMMA ArmInv == IInv /\ Arm => IInv'
<1> SUFFICES ASSUME IInv, Arm PROVE IInv'
  OBVIOUS
<1>1. /\ usbTxLen' = len /\ len' = 0
      /\ pc = "arm" /\ pc' = "lineCheck"
      /\ UNCHANGED <<rxVars, usbTxBuf, msgVars, addrVars, usbConfiguration, sample, busVars>>
  BY DEF Arm, At
<1>2. /\ len = 4 + BodyLen(usbTxBuf.body) /\ usbTxBuf.pid \in DataPids
      /\ usbTxBuf \in [pid : {0} \cup DataPids, body : Payloads \cup {NoBody}]
  BY <1>1 DEF IInv, DeviceInv, TxHeld, PidSet, TypeOK, TxTypes
<1>3. BodyLen(usbTxBuf.body) \in 0..8
  BY <1>2 DEF BodyLen, Payloads
<1>4. TxTypes'
  BY <1>1, <1>2, <1>3 DEF TxTypes
<1>5. RxTypes' /\ MsgTypes' /\ AddrTypes' /\ BusTypes'
  BY <1>1, StableTypes DEF IInv, TypeOK
<1>6. MainTypes'
  BY <1>1 DEF IInv, TypeOK, MainTypes, PollPcs
<1>7. DeviceInv'
  BY <1>1, <1>2
     DEF IInv, DeviceInv, RxComplete, RxHeld, PidSet, TxHeld, RxPacket, rxVars, msgVars, BodyLen
<1> QED
  BY <1>4, <1>5, <1>6, <1>7 DEF IInv, TypeOK

LEMMA LineCheckInv == IInv /\ LineCheck => IInv'
<1> SUFFICES ASSUME IInv, LineCheck PROVE IInv'
  OBVIOUS
<1>1. /\ pc = "lineCheck" /\ pc' = "poll"
      /\ UNCHANGED <<rxVars, txVars, msgVars, usbConfiguration, len, sample, busVars>>
  BY DEF LineCheck, At
<1>2. AddrTypes'
  BY DEF LineCheck, IInv, TypeOK, AddrTypes, addrVars
<1>3. RxTypes' /\ TxTypes' /\ MsgTypes' /\ BusTypes'
  BY <1>1, StableTypes DEF IInv, TypeOK
<1>4. MainTypes'
  BY <1>1 DEF IInv, TypeOK, MainTypes, PollPcs
<1>5. DeviceInv'
  BY <1>1
     DEF IInv, DeviceInv, RxComplete, RxHeld, PidSet, TxHeld, RxPacket, rxVars, txVars, msgVars
<1> QED
  BY <1>2, <1>3, <1>4, <1>5 DEF IInv, TypeOK

\* Steps of the bus, and no step at all, leave the device as it is.
LEMMA BusInv ==
  ASSUME IInv, UNCHANGED deviceVars, BusTypes'
  PROVE  IInv'
<1>1. RxTypes' /\ TxTypes' /\ MsgTypes' /\ AddrTypes' /\ MainTypes'
  BY StableTypes DEF IInv, TypeOK, deviceVars
<1>2. DeviceInv'
  BY DEF IInv, DeviceInv, RxComplete, RxHeld, PidSet, TxHeld, RxPacket, deviceVars,
         rxVars, txVars, msgVars, mainVars
<1> QED
  BY <1>1, <1>2 DEF IInv, TypeOK

\* Every step preserves the invariant.
LEMMA NextInv == IInv /\ [Next]_vars => IInv'
<1> SUFFICES ASSUME IInv, [Next]_vars PROVE IInv'
  OBVIOUS
<1>1. CASE Isr
  BY <1>1, IsrInv
<1>2. CASE Main
  BY <1>2, PollInv, InitToggleInv, AbortTxInv, SetupInv, ReleaseInv, ToggleInv, ReadInv,
     ArmInv, LineCheckInv DEF Main, usbPoll
<1>3. CASE BusPacket
  <2>1. UNCHANGED deviceVars /\ wire' \in HostPackets /\ lineSE0' = lineSE0
    BY <1>3 DEF BusPacket
  <2>2. BusTypes'
    BY <2>1, Zenon DEF IInv, TypeOK, BusTypes, WirePackets
  <2> QED
    BY <2>1, <2>2, BusInv
<1>4. CASE BusReset
  <2>1. UNCHANGED deviceVars /\ wire' = Silence /\ lineSE0' = ~lineSE0
    BY <1>4 DEF BusReset
  <2>2. BusTypes'
    BY <2>1, DeviceReplies, Zenon DEF IInv, TypeOK, BusTypes
  <2> QED
    BY <2>1, <2>2, BusInv
<1>5. CASE UNCHANGED vars
  <2>1. UNCHANGED deviceVars /\ UNCHANGED busVars
    BY <1>5 DEF vars, deviceVars
  <2> QED
    BY <2>1, StableTypes, BusInv DEF IInv, TypeOK
<1> QED
  BY <1>1, <1>2, <1>3, <1>4, <1>5 DEF Next

\* Every variable of the driver keeps its type and the driver keeps its
\* invariant, whatever packets arrive (usbdrv.c, asmcommon.inc).
THEOREM Invariance == Spec => [](TypeOK /\ DeviceInv)
<1>1. Init => IInv
  BY InitInv
<1>2. IInv /\ [Next]_vars => IInv'
  BY NextInv
<1>3. Spec => []IInv
  BY <1>1, <1>2, PTL DEF Spec
<1> QED
  BY <1>3, PTL DEF IInv

-----------------------------------------------------------------------------
\* Main only touches usbRxLen of the receive variables, in Release, and no
\* step but those of the interrupt changes them otherwise.
LEMMA RxOwner ==
  ASSUME IInv, [Next]_vars, ProcessingRx
  PROVE  /\ RxPacket' = RxPacket
         /\ usbRxToken' = usbRxToken
         /\ pc # "release" => usbRxLen' = usbRxLen
<1>1. usbRxLen # 0
  BY DEF IInv, DeviceInv, RxHeld, ProcessingRx
<1>2. CASE UNCHANGED rxVars
  BY <1>2 DEF rxVars, RxPacket
<1>3. CASE Isr
  <2>1. ~HandleDataStore
    BY <1>1 DEF HandleDataStore, RxFree
  <2>2. /\ \E pids : Receive(pids)
        /\ UNCHANGED <<usbInputBufOffset, usbRxLen, usbRxToken>>
    BY <1>3, <2>1 DEF Isr, HandleDataIgnored, HandleDataBusy, HandleDataStatus,
       HandleInBusy, HandleInSend, HandleSetupOrOut, IgnorePacket
  <2>3. RxPacket' = RxPacket
    BY <2>2, ReceiveBuf DEF RxPacket, IInv
  <2> QED
    BY <2>2, <2>3
<1>4. CASE Release
  BY <1>4 DEF Release, At, RxPacket
<1> QED
  BY <1>2, <1>3, <1>4
     DEF Next, Main, usbPoll, MeasureTemp, PollSetup, PollOther, PollNothing, InitToggle,
         AbortTx, Setup, TxCheck, Toggle, ReadBlock, Arm, LineCheck, BusPacket, BusReset,
         deviceVars, vars

\* While usbProcessRx works on a packet the interrupt leaves it alone, for
\* every traffic on the bus (asmcommon.inc, handleData; usbdrv.c, usbPoll).
THEOREM ReceivedPacketStable == Spec => RxStable
<1>1. Init => IInv
  BY InitInv
<1>2. IInv /\ [Next]_vars => IInv'
  BY NextInv
<1>3. IInv /\ [Next]_vars =>
        [ProcessingRx =>
           /\ RxPacket' = RxPacket
           /\ usbRxToken' = usbRxToken
           /\ pc # "release" => usbRxLen' = usbRxLen]_vars
  BY RxOwner
<1> QED
  BY <1>1, <1>2, <1>3, PTL DEF Spec, RxStable

\* Only HandleInSend answers with a data packet.
LEMMA SendsInSend ==
  ASSUME IInv, [Next]_vars, SendsData
  PROVE  HandleInSend
<1>1. wire.from = "host" /\ wire'.from = "device" /\ wire'.pid \in DataPids
  BY DEF SendsData
<1>2. wire' # wire
  BY <1>1
<1>3. wire' # Silence /\ \A pid : wire' = Handshake(pid) => pid \in DataPids
  BY <1>1 DEF Silence, Handshake, Packet
<1>4. USBPID_ACK \notin DataPids /\ USBPID_NAK \notin DataPids
  BY DEF DataPids, USBPID_DATA0, USBPID_DATA1, USBPID_ACK, USBPID_NAK
<1>5. ~HandleInBusy
  <2>1. SUFFICES ASSUME HandleInBusy PROVE wire' = Handshake(USBPID_NAK)
    BY <1>3, <1>4
  <2> QED
    BY <2>1, HandshakeOrLength
       DEF HandleInBusy, Sends, Reply, IInv, TypeOK, TxTypes, RxTypes
<1>6. Isr
  BY <1>1, <1>2
     DEF Next, Main, usbPoll, MeasureTemp, PollSetup, PollOther, PollNothing, InitToggle,
         AbortTx, Setup, Release, TxCheck, Toggle, ReadBlock, Arm, LineCheck, BusPacket,
         BusReset, busVars, vars, Silence, Packet
<1> QED
  BY <1>3, <1>4, <1>5, <1>6
     DEF Isr, HandleDataIgnored, HandleDataBusy, HandleDataStatus, HandleDataStore,
         HandleSetupOrOut, IgnorePacket, Reply

\* A data packet that leaves the device was built to the end, and its length
\* is that of its contents: none is sent while usbTxBuf is being rewritten
\* (usbdrv.c, usbProcessRx and usbBuildTxBlock; asmcommon.inc, handleIn).
THEOREM TransmittedPacketWhole == Spec => TxWhole
<1>1. Init => IInv
  BY InitInv
<1>2. IInv /\ [Next]_vars => IInv'
  BY NextInv
<1>3. IInv /\ [Next]_vars =>
        [SendsData => /\ ~WritingTx
                      /\ wire'.len = BodyLen(wire'.body)]_vars
  <2> SUFFICES ASSUME IInv, [Next]_vars, SendsData
               PROVE  ~WritingTx /\ wire'.len = BodyLen(wire'.body)
    OBVIOUS
  <2>1. HandleInSend
    BY SendsInSend
  <2>2. usbTxLen \in 4..12 /\ usbRxLen = 0
    BY <2>1, HandshakeOrLength DEF HandleInSend, Sends, IInv, TypeOK, TxTypes, RxTypes
  <2>3. ~WritingTx
    BY <2>2 DEF WritingTx, IInv, DeviceInv, RxHeld, TxHeld, USBPID_NAK
  <2>4. wire'.len = usbTxLen - 4 /\ wire'.body = usbTxBuf.body
    BY <2>1 DEF HandleInSend, Reply, Packet
  <2>5. usbTxLen = 4 + BodyLen(usbTxBuf.body)
    BY <2>2 DEF IInv, DeviceInv, TxHeld, USBPID_NAK
  <2>6. BodyLen(usbTxBuf.body) \in 0..8
    BY DEF IInv, TypeOK, TxTypes, BodyLen, Payloads
  <2> QED
    BY <2>3, <2>4, <2>5, <2>6
<1> QED
  BY <1>1, <1>2, <1>3, PTL DEF Spec, TxWhole

\* Only HandleDataStore acknowledges a packet that is not zero sized.
LEMMA AcksInStore ==
  ASSUME IInv, [Next]_vars, wire.from = "host", wire.pid \in DataPids, wire.len > 0,
         wire' = Handshake(USBPID_ACK)
  PROVE  HandleDataStore
<1>1. wire' # wire
  BY DEF Handshake, Packet
<1>2. wire' # Silence /\ wire' # Handshake(USBPID_NAK)
  BY DEF Silence, Handshake, Packet, USBPID_ACK, USBPID_NAK
<1>3. Isr
  BY <1>1, <1>2
     DEF Next, Main, usbPoll, MeasureTemp, PollSetup, PollOther, PollNothing, InitToggle,
         AbortTx, Setup, Release, TxCheck, Toggle, ReadBlock, Arm, LineCheck, BusPacket,
         BusReset, busVars, vars
<1>4. \A pids : Receive(pids) => wire.pid \in pids /\ wire.len \in 0..8
  BY ReceiveBuf DEF IInv
<1>5. USBPID_IN \notin DataPids
  BY DEF DataPids, USBPID_DATA0, USBPID_DATA1, USBPID_IN
<1>6. ~HandleInBusy /\ ~HandleInSend
  BY <1>4, <1>5 DEF HandleInBusy, HandleInSend
<1>7. ~HandleDataStatus
  BY <1>4 DEF HandleDataStatus, ZeroSized
<1> QED
  BY <1>2, <1>3, <1>6, <1>7
     DEF Isr, HandleDataIgnored, HandleDataBusy, HandleSetupOrOut, IgnorePacket, Reply

\* A packet that the device acknowledges, and that has contents, is there for
\* usbPoll in full, with the token before it (asmcommon.inc, handleData).
THEOREM AcknowledgedPacketKept == Spec => AckedMeansKept
<1>1. Init => IInv
  BY InitInv
<1>2. IInv /\ [Next]_vars => IInv'
  BY NextInv
<1>3. IInv /\ [Next]_vars =>
        [(/\ wire.from = "host" /\ wire.pid \in DataPids /\ wire.len > 0
          /\ wire' = Handshake(USBPID_ACK)) =>
           /\ usbRxLen = 0 /\ usbRxLen' = wire.len + 3
           /\ usbRxBuf'[1 - usbInputBufOffset'] = [len |-> wire.len, body |-> wire.body]
           /\ usbRxToken' = usbCurrentTok]_vars
  <2> SUFFICES ASSUME IInv, [Next]_vars, wire.from = "host", wire.pid \in DataPids,
                      wire.len > 0, wire' = Handshake(USBPID_ACK)
               PROVE  /\ usbRxLen = 0 /\ usbRxLen' = wire.len + 3
                      /\ usbRxBuf'[1 - usbInputBufOffset'] =
                           [len |-> wire.len, body |-> wire.body]
                      /\ usbRxToken' = usbCurrentTok
    OBVIOUS
  <2>1. HandleDataStore
    BY AcksInStore
  <2>2. /\ usbRxLen = 0 /\ usbRxLen' = wire.len + 3 /\ usbRxToken' = usbCurrentTok
        /\ usbInputBufOffset' = 1 - usbInputBufOffset /\ Receive(DataPids)
    BY <2>1 DEF HandleDataStore, RxFree, OffsetSwapped
  <2>3. 1 - usbInputBufOffset' = usbInputBufOffset
    BY <2>2 DEF IInv, TypeOK, RxTypes
  <2> QED
    BY <2>2, <2>3, ReceiveBuf DEF IInv
<1> QED
  BY <1>1, <1>2, <1>3, PTL DEF Spec, AckedMeansKept
=============================================================================
