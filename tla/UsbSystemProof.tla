--------------------------- MODULE UsbSystemProof ---------------------------
(***************************************************************************)
(* Proofs about UsbSystem, for any requests, any number of losses and of   *)
(* restarts.  The argument has three layers:                               *)
(*                                                                         *)
(*   - HostInv: what may be on the wire in each phase of a transaction;     *)
(*   - RequestInv: as long as tokens arrive, the device has the host's     *)
(*     request, to be performed or performed, from its acknowledgement to  *)
(*     the end of the transfer, and answers only when it was performed;    *)
(*   - AddressInv: as long as the host does not give up either, the device *)
(*     has no other request than the host's, and they use one address but  *)
(*     for the end of SET_ADDRESS.                                         *)
(***************************************************************************)
EXTENDS UsbSystem, VUsbProof

SetsAddress       == IsStandard(hReq, USBRQ_SET_ADDRESS)
SetsConfiguration == IsStandard(hReq, USBRQ_SET_CONFIGURATION)

ReceivesStages == {"data", "statusIn"}
SendsStages    == {"setup", "statusOut"}

\* The packet that the host sends in the current stage.
StageData == IF hStage = "setup" THEN Data(USBPID_DATA0, 8, hReq)
                                 ELSE Data(USBPID_DATA1, 0, NoBody)

HostTypes ==
  /\ hStage \in {"idle", "setup", "data", "statusOut", "statusIn", "done"}
  /\ hPhase \in {"token", "data", "reply"}
  /\ hReq \in Requests \cup {NoBody}
  /\ hStage # "idle" => hReq \in Requests
  /\ hAddr \in Addrs
  /\ hToggle \in DataPids
  /\ hRecv \in Seq(Payloads \cup {NoBody})
  /\ hCount \in Nat
  /\ hSince \in 0..MaxSample
  /\ lost \in 0..MaxLost
  /\ port \in {"connected", "disconnected", "noticed"}
  /\ restarts \in 0..MaxRestarts

WireInv ==
  /\ hStage \in {"idle", "done"} => hPhase = "token"
  /\ hPhase = "token" => wire \in {Silence, HostAck}
  /\ hPhase = "data" =>
       hStage \in SendsStages /\ wire \in {Silence, Token(StagePid, hAddr)}
  /\ hPhase = "reply" /\ hStage \in SendsStages =>
       wire \in {Silence, StageData, Handshake(USBPID_ACK), Handshake(USBPID_NAK)}
  /\ hPhase = "reply" /\ hStage \in ReceivesStages =>
       wire \in {Silence, Token(USBPID_IN, hAddr), Handshake(USBPID_NAK)} \/ DeviceSentData

LineInv ==
  /\ lineSE0 => hStage = "idle" /\ wire = Silence
  /\ port = "noticed" => hStage = "idle" /\ hAddr = 0

StageInv ==
  /\ hStage \in {"data", "statusOut"} => IsIn(hReq)
  /\ hStage = "statusIn" => ~IsIn(hReq)

HostInv == IInv /\ HostTypes /\ WireInv /\ LineInv /\ StageInv

-----------------------------------------------------------------------------
\* What usbPoll finds is a setup request, because the token of a transaction
\* is the one the host sent in it.
RxSetup == usbRxLen # 0 => usbRxLen = 11 /\ usbRxToken = USBPID_SETUP

TokenInv ==
  (/\ Attached /\ hStage \in SendsStages
   /\ hPhase = "reply" \/ (hPhase = "data" /\ wire = Silence))
     => usbCurrentTok \in {0, StagePid}

Performed ==
  /\ SetsConfiguration => usbConfiguration = hReq.lo
  /\ SetsAddress => usbNewDeviceAddr = hReq.lo

RequestTaken ==
  \/ hStage \in {"data", "statusIn", "statusOut", "done"}
  \/ hStage = "setup" /\ wire = Handshake(USBPID_ACK)

TakenInv ==
  Attached /\ RequestTaken =>
    /\ usbRxLen # 0 => RxPacket.body = hReq
    /\ usbRxLen = 0 \/ pc = "release" => Performed

AnsweredInv ==
  Attached =>
    /\ DeviceSentData => usbRxLen = 0 /\ usbDeviceAddr = usbNewDeviceAddr % 128
    /\ hStage = "statusOut" /\ wire = Handshake(USBPID_ACK) => usbRxLen = 0
    /\ hStage = "done" =>
         usbRxLen = 0 /\ (SetsAddress => usbDeviceAddr = hReq.lo % 128)

RequestInv == RxSetup /\ TokenInv /\ TakenInv /\ AnsweredInv

-----------------------------------------------------------------------------
FreshInv == ~Attached => usbRxLen = 0 /\ usbDeviceAddr = 0 /\ usbNewDeviceAddr = 0

OwnRequest ==
  Attached /\ usbRxLen # 0 => hStage \notin {"idle", "done"} /\ RxPacket.body = hReq

OneAddress ==
  Attached =>
    /\ \/ usbDeviceAddr = hAddr
       \/ /\ hStage = "statusIn" /\ SetsAddress
          /\ usbRxLen = 0 /\ usbDeviceAddr = usbNewDeviceAddr % 128
    /\ \/ usbNewDeviceAddr % 128 = hAddr
       \/ hStage \in {"setup", "statusIn"} /\ SetsAddress

AddressInv == ~lineSE0 /\ FreshInv /\ OwnRequest /\ OneAddress

-----------------------------------------------------------------------------
\* Packets are told apart by where they come from and what they are.
LEMMA PacketFields ==
  /\ Silence.from = "none"
  /\ HostAck.from = "host" /\ HostAck.pid = USBPID_ACK
  /\ \A pid, a : /\ Token(pid, a).from = "host" /\ Token(pid, a).pid = pid
                 /\ Token(pid, a).addr = a
  /\ \A pid, n, b : /\ Data(pid, n, b).from = "host" /\ Data(pid, n, b).pid = pid
                    /\ Data(pid, n, b).len = n /\ Data(pid, n, b).body = b
  /\ \A pid : Handshake(pid).from = "device" /\ Handshake(pid).pid = pid
BY DEF Silence, HostAck, Token, Data, Handshake, Packet

LEMMA PidValues ==
  /\ TokenPids \cap DataPids = {}
  /\ USBPID_SETUP # USBPID_OUT /\ USBPID_IN \notin {USBPID_SETUP, USBPID_OUT}
  /\ USBPID_ACK \notin TokenPids \cup DataPids /\ USBPID_ACK # USBPID_NAK
  /\ USBPID_NAK \notin TokenPids \cup DataPids
  /\ USBPID_DATA0 # USBPID_DATA1
  /\ 0 \notin TokenPids
  /\ {USBPID_SETUP, USBPID_OUT, USBPID_IN} = TokenPids
  /\ {USBPID_DATA0, USBPID_DATA1} = DataPids
BY DEF TokenPids, DataPids, USBPID_SETUP, USBPID_OUT, USBPID_IN, USBPID_DATA0, USBPID_DATA1,
       USBPID_ACK, USBPID_NAK

\* The host's packets are packets of the bus.
LEMMA HostSends ==
  ASSUME HostTypes
  PROVE  /\ \A pid \in TokenPids : Token(pid, hAddr) \in WirePackets
         /\ hStage \in SendsStages => StageData \in WirePackets
         /\ HostAck \in WirePackets
<1>1. \A pid \in TokenPids : Token(pid, hAddr) \in HostPackets
  BY DEF HostTypes, HostPackets
<1>2. hStage = "setup" => Data(USBPID_DATA0, 8, hReq) \in HostPackets
  BY DEF HostTypes, HostPackets, DataPids
<1>3. Data(USBPID_DATA1, 0, NoBody) \in HostPackets
  BY StatusAssumption DEF HostPackets, DataPids
<1>4. HostAck \in HostPackets
  BY DEF HostPackets
<1> QED
  BY <1>1, <1>2, <1>3, <1>4 DEF WirePackets, StageData, SendsStages

-----------------------------------------------------------------------------
\* What the interrupt does with a packet, seen from the host.
SameRx == UNCHANGED <<usbRxLen, usbRxToken>> /\ RxPacket' = RxPacket

Drops ==
  /\ wire' = Silence
  /\ SameRx /\ UNCHANGED usbDeviceAddr
  /\ \/ wire.pid \in DataPids /\ usbCurrentTok' = usbCurrentTok
     \/ wire.pid \in {USBPID_SETUP, USBPID_OUT} /\ usbCurrentTok' = wire.pid
     \/ wire.pid \in TokenPids \cup {USBPID_ACK} /\ usbCurrentTok' = 0

Refuses ==
  /\ wire' = Handshake(USBPID_NAK)
  /\ wire.pid \in DataPids \cup {USBPID_IN}
  /\ wire.pid \in DataPids => usbRxLen # 0
  /\ SameRx /\ UNCHANGED <<usbDeviceAddr, usbCurrentTok>>

Acknowledges ==
  /\ wire' = Handshake(USBPID_ACK)
  /\ wire.pid \in DataPids
  /\ usbRxLen = 0 /\ usbCurrentTok # 0
  /\ \/ wire.len = 0 /\ SameRx
     \/ /\ wire.len # 0
        /\ usbRxLen' = wire.len + 3 /\ usbRxToken' = usbCurrentTok
        /\ RxPacket'.body = wire.body
  /\ UNCHANGED <<usbDeviceAddr, usbCurrentTok>>

Answers ==
  /\ DeviceSentData'
  /\ wire.pid = USBPID_IN
  /\ usbRxLen = 0
  /\ SameRx /\ UNCHANGED usbCurrentTok
  /\ usbDeviceAddr' = usbNewDeviceAddr % 128

LEMMA IsrEffect ==
  ASSUME IInv, Isr
  PROVE  /\ wire.from = "host"
         /\ UNCHANGED <<usbNewDeviceAddr, usbConfiguration, pc, lineSE0>>
         /\ Drops \/ Refuses \/ Acknowledges \/ Answers
<1> USE DEF IInv
<1>1. \A pids : Receive(pids) =>
        /\ wire.from = "host" /\ wire.pid \in pids /\ wire.len \in 0..8
        /\ usbInputBufOffset' = usbInputBufOffset => RxPacket' = RxPacket
        /\ usbInputBufOffset' = 1 - usbInputBufOffset => RxPacket'.body = wire.body
  <2> SUFFICES ASSUME NEW pids, Receive(pids)
               PROVE  /\ wire.from = "host" /\ wire.pid \in pids /\ wire.len \in 0..8
                      /\ usbInputBufOffset' = usbInputBufOffset => RxPacket' = RxPacket
                      /\ usbInputBufOffset' = 1 - usbInputBufOffset =>
                           RxPacket'.body = wire.body
    OBVIOUS
  <2>1. usbInputBufOffset \in 0..1
    BY DEF TypeOK, RxTypes
  <2> QED
    BY <2>1, ReceiveBuf DEF RxPacket
<1>2. usbRxLen \in 0..11 /\ usbTxLen \in {USBPID_NAK} \cup 4..12
  BY DEF TypeOK, RxTypes, TxTypes
<1>3. CASE HandleDataIgnored
  BY <1>1, <1>3 DEF HandleDataIgnored, Reply, Drops, SameRx, addrVars, mainVars
<1>4. CASE HandleDataBusy
  BY <1>1, <1>4 DEF HandleDataBusy, RxFree, Reply, AddrAfterHandshake, Refuses, SameRx, mainVars
<1>5. CASE HandleDataStatus
  BY <1>1, <1>5 DEF HandleDataStatus, RxFree, ZeroSized, Reply, AddrAfterHandshake, Acknowledges,
     SameRx, mainVars
<1>6. CASE HandleDataStore
  BY <1>1, <1>6 DEF HandleDataStore, RxFree, ZeroSized, OffsetSwapped, Reply, AddrAfterHandshake,
     Acknowledges, mainVars
<1>7. CASE HandleInBusy
  <2>1. IsHandshake(usbTxLen) => usbTxLen = USBPID_NAK
    BY <1>2, HandshakeOrLength
  <2>2. usbRxLen >= 1 \/ usbTxLen = USBPID_NAK
    BY <1>2, <1>7, <2>1 DEF HandleInBusy, Sends
  <2> QED
    BY <1>1, <1>7, <2>2, PidValues
       DEF HandleInBusy, Reply, AddrAfterHandshake, Refuses, SameRx, mainVars, TokenPids
<1>8. CASE HandleInSend
  <2>1. usbTxLen # USBPID_NAK
    BY <1>8 DEF HandleInSend, Sends, IsHandshake, USBPID_NAK
  <2>2. usbTxBuf.pid \in DataPids
    BY <2>1 DEF DeviceInv, PidSet
  <2>3. DeviceSentData'
    BY <1>8, <2>2 DEF HandleInSend, Reply, Packet, DeviceSentData
  <2> QED
    BY <1>1, <1>2, <1>8, <2>3
       DEF HandleInSend, Sends, Reply, AddrAssigned, Answers, SameRx, mainVars
<1>9. CASE HandleSetupOrOut
  BY <1>1, <1>9 DEF HandleSetupOrOut, Reply, Drops, SameRx, addrVars, mainVars
<1>10. CASE IgnorePacket
  BY <1>1, <1>10 DEF IgnorePacket, Reply, Drops, SameRx, addrVars, mainVars
<1> QED
  BY <1>3, <1>4, <1>5, <1>6, <1>7, <1>8, <1>9, <1>10 DEF Isr

\* And the main loop.
Computes == UNCHANGED <<usbRxLen, addrVars, usbConfiguration>> /\ pc' # "release"

Performs ==
  LET rq == RxPacket.body
  IN  /\ usbRxLen = 11 /\ usbRxLen' = usbRxLen
      /\ usbDeviceAddr' = usbDeviceAddr
      /\ usbNewDeviceAddr' = IF IsStandard(rq, USBRQ_SET_ADDRESS) THEN rq.lo ELSE usbNewDeviceAddr
      /\ usbConfiguration' =
           IF IsStandard(rq, USBRQ_SET_CONFIGURATION) THEN rq.lo ELSE usbConfiguration

Releases ==
  /\ pc = "release" /\ pc' # "release"
  /\ usbRxLen' = 0
  /\ UNCHANGED <<addrVars, usbConfiguration>>

SeesReset ==
  /\ lineSE0
  /\ usbNewDeviceAddr' = 0 /\ usbDeviceAddr' = 0
  /\ UNCHANGED <<usbRxLen, usbConfiguration>>

LEMMA MainEffect ==
  ASSUME IInv, RxSetup, Main
  PROVE  /\ UNCHANGED <<wire, lineSE0, usbRxToken, usbCurrentTok>>
         /\ RxPacket' = RxPacket
         /\ Computes \/ Performs \/ Releases \/ SeesReset
<1>1. UNCHANGED <<wire, lineSE0, usbRxToken, usbCurrentTok>> /\ RxPacket' = RxPacket
  BY DEF Main, usbPoll, MeasureTemp, PollSetup, PollOther, PollNothing, InitToggle, AbortTx, Setup,
     Release, TxCheck, Toggle, ReadBlock, Arm, LineCheck, rxVars, busVars, RxPacket
<1>2. ~PollOther
  BY DEF PollOther, RxSetup, IInv, TypeOK, RxTypes
<1>3. CASE MeasureTemp \/ PollSetup \/ PollNothing \/ InitToggle \/ AbortTx \/ TxCheck
             \/ Toggle \/ ReadBlock \/ Arm
  <2>1. Computes
    BY <1>3 DEF MeasureTemp, PollSetup, PollNothing, InitToggle, AbortTx, TxCheck, Toggle,
       ReadBlock, Arm, rxVars, At, Computes
  <2> QED
    BY <1>1, <2>1
<1>4. CASE Setup
  <2>1. usbRxLen = 11
    BY <1>4 DEF Setup, At, IInv, DeviceInv, RxHeld
  <2>2. Performs
    BY <1>4, <2>1 DEF Setup, AddrAfterSetup, rxVars, Performs
  <2> QED
    BY <1>1, <2>2
<1>5. CASE Release
  BY <1>1, <1>5 DEF Release, At, Releases
<1>6. CASE LineCheck
  BY <1>1, <1>6 DEF LineCheck, At, rxVars, addrVars, Computes, SeesReset
<1> QED
  BY <1>2, <1>3, <1>4, <1>5, <1>6 DEF Main, usbPoll

-----------------------------------------------------------------------------
\* The device keeps its invariant in the steps of everybody.
LEMMA DeviceIInv == ASSUME IInv, Isr \/ Main PROVE IInv'
BY NextInv DEF Next

LEMMA QuietIInv ==
  ASSUME IInv, UNCHANGED deviceVars, wire' \in WirePackets, lineSE0' \in BOOLEAN
  PROVE  IInv'
<1>1. BusTypes'
  BY DEF BusTypes
<1> QED
  BY <1>1, BusInv

LEMMA StartupIInv ==
  ASSUME IInv, Startup, wire' = Silence, lineSE0' = lineSE0
  PROVE  IInv'
<1>1. [len |-> 0, body |-> NoBody] \in RxContents
  BY DEF RxContents
<1>2. RxTypes'
  BY <1>1 DEF Startup, RxTypes
<1>3. TxTypes'
  BY DEF Startup, TxTypes
<1>4. MsgTypes'
  BY DEF Startup, MsgTypes, Sources, USB_NO_MSG, USB_CFG_LONG_TRANSFERS
<1>5. AddrTypes'
  BY DEF Startup, AddrTypes
<1>6. MainTypes'
  BY SampleAssumption DEF Startup, MainTypes, PollPcs
<1>7. BusTypes'
  BY DeviceReplies, Zenon DEF BusTypes, IInv, TypeOK
<1>8. DeviceInv'
  BY DEF Startup, DeviceInv, RxComplete, RxHeld, PidSet, TxHeld
<1> QED
  BY <1>2, <1>3, <1>4, <1>5, <1>6, <1>7, <1>8 DEF IInv, TypeOK

-----------------------------------------------------------------------------
\* First layer: the phases of a transaction and what is on the wire.
LEMMA InitHostInv == SysInit => HostInv
<1> SUFFICES ASSUME SysInit PROVE HostInv
  OBVIOUS
<1>1. IInv
  BY InitInv DEF SysInit
<1>2. HostTypes
  BY SampleAssumption, MaxLostAssumption, RestartAssumption, AddrsAssumption
     DEF SysInit, HostTypes, DataPids
<1>3. WireInv /\ LineInv /\ StageInv
  BY DEF SysInit, Init, WireInv, LineInv, StageInv
<1> QED
  BY <1>1, <1>2, <1>3 DEF HostInv

LEMMA HostBeginInv ==
  ASSUME HostInv, port # "noticed", HostBegin, UNCHANGED <<lost, bootVars>>
  PROVE  HostInv'
<1>1. IInv'
  <2>1. UNCHANGED <<deviceVars, wire, lineSE0>>
    BY DEF HostBegin, vars, deviceVars, busVars
  <2> QED
    BY <2>1, QuietIInv DEF HostInv, IInv, TypeOK, BusTypes
<1>2. HostTypes'
  BY DEF HostBegin, HostInv, HostTypes, bootVars, vars, IInv, TypeOK, MainTypes, DataPids, mainVars
<1>3. WireInv' /\ LineInv' /\ StageInv'
  BY DEF HostBegin, HostInv, WireInv, LineInv, StageInv, BusFree, bootVars, vars, busVars
<1> QED
  BY <1>1, <1>2, <1>3 DEF HostInv

LEMMA HostSendInv ==
  ASSUME HostInv, port # "noticed", HostToken \/ HostData, UNCHANGED <<lost, bootVars>>
  PROVE  HostInv'
<1> USE DEF HostInv
<1>1. /\ UNCHANGED <<deviceVars, lineSE0, hStage, hReq, hAddr, hToggle, hRecv, hCount, hSince>>
      /\ ~lineSE0
  BY DEF HostToken, HostData, HostPuts, BusFree
<1>2. StagePid' = StagePid
  BY <1>1 DEF StagePid
<1>3. CASE HostToken
  <2>1. hStage \in SendsStages \cup ReceivesStages
    BY <1>3 DEF HostToken, HostTypes, SendsStages, ReceivesStages
  <2>2. StagePid \in TokenPids /\ (StagePid = USBPID_IN <=> hStage \in ReceivesStages)
    BY <2>1, PidValues DEF StagePid, SendsStages, ReceivesStages
  <2>3. wire' = Token(StagePid, hAddr)
    BY <1>3 DEF HostToken, HostPuts
  <2>4. hPhase' = IF hStage \in ReceivesStages THEN "reply" ELSE "data"
    BY <1>3, <2>2 DEF HostToken
  <2>5. IInv'
    BY <1>1, <2>2, <2>3, HostSends, QuietIInv DEF IInv, TypeOK, BusTypes
  <2>6. HostTypes'
    BY <1>1, <2>4 DEF HostTypes, bootVars
  <2>7. WireInv'
    BY <1>1, <1>2, <2>1, <2>2, <2>3, <2>4
       DEF WireInv, SendsStages, ReceivesStages
  <2>8. LineInv' /\ StageInv'
    BY <1>1 DEF LineInv, StageInv, bootVars
  <2> QED
    BY <2>5, <2>6, <2>7, <2>8
<1>4. CASE HostData
  <2>1. hStage \in SendsStages
    BY <1>4 DEF HostData, WireInv
  <2>2. wire' = StageData /\ hPhase' = "reply"
    BY <1>4 DEF HostData, HostPuts, StageData
  <2>3. IInv'
    BY <1>1, <2>1, <2>2, HostSends, QuietIInv DEF IInv, TypeOK, BusTypes
  <2>4. HostTypes'
    BY <1>1, <2>2 DEF HostTypes, bootVars
  <2>5. WireInv'
    BY <1>1, <2>1, <2>2 DEF WireInv, SendsStages, ReceivesStages, StageData
  <2>6. LineInv' /\ StageInv'
    BY <1>1 DEF LineInv, StageInv, bootVars
  <2> QED
    BY <2>3, <2>4, <2>5, <2>6
<1> QED
  BY <1>3, <1>4

\* The device acknowledges only what it is sent.
LEMMA AckedSends ==
  ASSUME HostInv, HostAcked
  PROVE  hStage \in SendsStages
<1> USE DEF HostInv
<1>1. hStage \in SendsStages \cup ReceivesStages
  BY DEF HostAcked, WireInv, HostTypes, SendsStages, ReceivesStages
<1> SUFFICES ASSUME wire = Handshake(USBPID_ACK), hStage \in ReceivesStages PROVE FALSE
  BY <1>1 DEF HostAcked
<1>2. wire.from = "device" /\ wire.pid = USBPID_ACK
  BY PacketFields
<1>3. wire # Silence /\ wire # Token(USBPID_IN, hAddr) /\ wire # Handshake(USBPID_NAK)
  BY <1>2, PacketFields, PidValues
<1> QED
  BY <1>2, <1>3, PidValues DEF HostAcked, WireInv, DeviceSentData

\* At the end of a transaction.
LEMMA HostHearsInv ==
  ASSUME HostInv, port # "noticed", UNCHANGED <<lost, bootVars>>,
         HostAcked \/ HostRetry \/ HostDiscard \/ HostAcceptData \/ HostAcceptStatus
  PROVE  HostInv'
<1> USE DEF HostInv
<1>1. /\ hPhase = "reply" /\ hPhase' = "token"
      /\ wire' \in {Silence, HostAck}
      /\ UNCHANGED <<deviceVars, lineSE0, hReq, hSince>>
  BY DEF HostAcked, HostRetry, HostDiscard, HostAcceptData, HostAcceptStatus, HostPuts
<1>2. IInv'
  BY <1>1, HostSends, DeviceReplies, QuietIInv DEF IInv, TypeOK, BusTypes
<1>3. hStage \in SendsStages \cup ReceivesStages
  BY <1>1 DEF WireInv, HostTypes, SendsStages, ReceivesStages
<1>4. HostAcked => hStage \in SendsStages
  BY AckedSends
<1>5. DeviceSentData => wire.body \in Payloads \cup {NoBody} /\ wire.len \in 0..8
  <2> SUFFICES ASSUME DeviceSentData PROVE wire.body \in Payloads \cup {NoBody} /\ wire.len \in 0..8
    OBVIOUS
  <2>1. wire \in WirePackets /\ wire.from = "device" /\ wire.pid \in DataPids
    BY DEF IInv, TypeOK, BusTypes, DeviceSentData
  <2>2. wire \notin HostPackets
    BY <2>1, PacketFields DEF HostPackets
  <2>3. wire \notin {Silence, Handshake(USBPID_ACK), Handshake(USBPID_NAK)}
    BY <2>1, PacketFields, PidValues
  <2> QED
    BY <2>1, <2>2, <2>3 DEF WirePackets, DevicePackets
<1>6. /\ hStage' \in {"data", "statusIn", "statusOut", "setup", "done"}
      /\ hStage' \in {"data", "statusOut"} => IsIn(hReq)
      /\ hStage' = "statusIn" => ~IsIn(hReq)
  BY <1>1, <1>3, <1>4
     DEF HostAcked, HostRetry, HostDiscard, HostAcceptData, HostAcceptStatus, StageInv,
         SendsStages, ReceivesStages
<1>7. hAddr' \in Addrs /\ hReq \in Requests
  BY <1>1, <1>3, SetAddressAssumption
     DEF HostAcked, HostRetry, HostDiscard, HostAcceptData, HostAcceptStatus, HostTypes,
         SendsStages, ReceivesStages
<1>8. hToggle' \in DataPids
  BY DEF HostAcked, HostRetry, HostDiscard, HostAcceptData, HostAcceptStatus, HostTypes,
         OtherToggle, DataPids
<1>9. hRecv' \in Seq(Payloads \cup {NoBody})
  <2>1. hRecv \in Seq(Payloads \cup {NoBody})
    BY DEF HostTypes
  <2>2. hRecv' = hRecv \/ (DeviceSentData /\ hRecv' = Append(hRecv, wire.body))
    BY DEF HostAcked, HostRetry, HostDiscard, HostAcceptData, HostAcceptStatus
  <2> QED
    BY <1>5, <2>1, <2>2
<1>10. hCount' \in Nat
  BY <1>5 DEF HostAcked, HostRetry, HostDiscard, HostAcceptData, HostAcceptStatus, HostTypes
<1>11. HostTypes'
  BY <1>1, <1>6, <1>7, <1>8, <1>9, <1>10 DEF HostTypes, bootVars
<1>12. ~lineSE0
  BY <1>3 DEF LineInv, SendsStages, ReceivesStages
<1>13. WireInv' /\ LineInv' /\ StageInv'
  BY <1>1, <1>6, <1>12 DEF WireInv, LineInv, StageInv, bootVars
<1> QED
  BY <1>2, <1>11, <1>13

LEMMA HostGivesUpInv ==
  ASSUME HostInv, port # "noticed", HostGivesUp, UNCHANGED <<lost, bootVars>>
  PROVE  HostInv'
<1> USE DEF HostInv
<1>1. /\ UNCHANGED <<deviceVars, hReq, hToggle, hRecv, hCount, hSince>>
      /\ wire' \in {Silence, wire} /\ lineSE0' \in BOOLEAN
  BY DEF HostGivesUp, HostAbandon, HostReset, HostResetEnd, vars, deviceVars, busVars, hostVars,
         IInv, TypeOK, BusTypes
<1>2. IInv'
  <2>1. wire' \in WirePackets
    BY <1>1, DeviceReplies DEF IInv, TypeOK, BusTypes
  <2> QED
    BY <1>1, <2>1, QuietIInv
<1>3. HostTypes'
  BY <1>1, AddrsAssumption
     DEF HostGivesUp, HostAbandon, HostReset, HostResetEnd, hostVars, HostTypes, bootVars
<1>4. WireInv'
  <2>1. CASE HostAbandon
    BY <2>1 DEF HostAbandon, WireInv, vars, busVars
  <2>2. CASE HostReset
    BY <2>2 DEF HostReset, WireInv
  <2>3. CASE HostResetEnd
    BY <2>3 DEF HostResetEnd, WireInv, hostVars, StagePid, StageData, DeviceSentData
  <2> QED
    BY <2>1, <2>2, <2>3 DEF HostGivesUp
<1>5. LineInv' /\ StageInv'
  BY DEF HostGivesUp, HostAbandon, HostReset, HostResetEnd, hostVars, LineInv, StageInv, BusFree,
         bootVars, vars, busVars
<1> QED
  BY <1>2, <1>3, <1>4, <1>5

\* The device answers what the host has just sent.
LEMMA IsrHostInv ==
  ASSUME HostInv, Isr, UNCHANGED <<hostVars, lost, bootVars>>
  PROVE  HostInv'
<1> USE DEF HostInv
<1>1. /\ wire.from = "host" /\ UNCHANGED lineSE0
      /\ Drops \/ Refuses \/ Acknowledges \/ Answers
  BY IsrEffect
<1>2. IInv'
  BY DeviceIInv
<1>3. HostTypes' /\ StageInv'
  BY DEF HostTypes, StageInv, hostVars, bootVars
<1>4. StagePid' = StagePid /\ StageData' = StageData
  BY DEF StagePid, StageData, hostVars
<1>5. CASE hPhase = "token"
  <2>1. wire = HostAck
    BY <1>1, <1>5, PacketFields DEF WireInv
  <2>2. wire' = Silence
    BY <1>1, <2>1, PacketFields, PidValues DEF Drops, Refuses, Acknowledges, Answers
  <2>3. ~lineSE0
    BY <2>1, PacketFields DEF LineInv
  <2> QED
    BY <1>1, <1>2, <1>3, <1>5, <2>2, <2>3
       DEF WireInv, LineInv, hostVars, bootVars, SendsStages, ReceivesStages
<1>6. CASE hPhase = "data"
  <2>1. wire = Token(StagePid, hAddr) /\ hStage \in SendsStages
    BY <1>1, <1>6, PacketFields DEF WireInv
  <2>2. StagePid \in {USBPID_SETUP, USBPID_OUT}
    BY <2>1 DEF StagePid, SendsStages
  <2>3. wire' = Silence
    BY <1>1, <2>1, <2>2, PacketFields, PidValues DEF Drops, Refuses, Acknowledges, Answers
  <2>4. ~lineSE0
    BY <2>1 DEF LineInv, SendsStages
  <2> QED
    BY <1>1, <1>2, <1>3, <1>6, <2>1, <2>3, <2>4 DEF WireInv, LineInv, hostVars, bootVars
<1>7. CASE hPhase = "reply" /\ hStage \in SendsStages
  <2>1. wire = StageData
    BY <1>1, <1>7, PacketFields DEF WireInv
  <2>2. wire.pid \in DataPids
    BY <2>1, PacketFields, PidValues DEF StageData
  <2>3. wire' \in {Silence, Handshake(USBPID_ACK), Handshake(USBPID_NAK)}
    BY <1>1, <2>2, PidValues DEF Drops, Refuses, Acknowledges, Answers
  <2>4. ~lineSE0
    BY <1>7 DEF LineInv, SendsStages
  <2> QED
    BY <1>1, <1>2, <1>3, <1>7, <2>3, <2>4
       DEF WireInv, LineInv, hostVars, bootVars, SendsStages, ReceivesStages
<1>8. CASE hPhase = "reply" /\ hStage \in ReceivesStages
  <2>1. wire = Token(USBPID_IN, hAddr)
    BY <1>1, <1>8, PacketFields DEF WireInv, DeviceSentData
  <2>2. wire.pid = USBPID_IN
    BY <2>1, PacketFields
  <2>3. wire' \in {Silence, Handshake(USBPID_NAK)} \/ DeviceSentData'
    BY <1>1, <2>2, PidValues DEF Drops, Refuses, Acknowledges, Answers
  <2>4. ~lineSE0
    BY <1>8 DEF LineInv, ReceivesStages
  <2> QED
    BY <1>1, <1>2, <1>3, <1>8, <2>3, <2>4
       DEF WireInv, LineInv, hostVars, bootVars, SendsStages, ReceivesStages
<1> QED
  BY <1>5, <1>6, <1>7, <1>8 DEF WireInv, HostTypes, SendsStages, ReceivesStages

\* The first layer looks at nothing else of the device.
LEMMA SameWireHostInv ==
  ASSUME HostInv, IInv', UNCHANGED <<wire, lineSE0, hostVars, lost>>,
         UNCHANGED bootVars \/ (port = "noticed" /\ port' = "connected" /\ UNCHANGED restarts)
  PROVE  HostInv'
<1>1. HostTypes' /\ StageInv'
  BY DEF HostInv, HostTypes, StageInv, hostVars, bootVars
<1>2. WireInv' /\ LineInv'
  BY DEF HostInv, WireInv, LineInv, StagePid, StageData, DeviceSentData, hostVars, bootVars
<1> QED
  BY <1>1, <1>2 DEF HostInv

LEMMA MainHostInv ==
  ASSUME HostInv, Main, UNCHANGED <<hostVars, lost, bootVars>>
  PROVE  HostInv'
<1>1. UNCHANGED <<wire, lineSE0>>
  BY DEF Main, usbPoll, MeasureTemp, PollSetup, PollOther, PollNothing, InitToggle, AbortTx, Setup,
     Release, TxCheck, Toggle, ReadBlock, Arm, LineCheck, busVars
<1>2. IInv'
  BY DeviceIInv DEF HostInv
<1> QED
  BY <1>1, <1>2, SameWireHostInv

\* A lost packet leaves silence, as does a restart.
LEMMA SilenceHostInv ==
  ASSUME HostInv, IInv', wire' = Silence, UNCHANGED <<lineSE0, hostVars>>,
         lost' \in 0..MaxLost, restarts' \in 0..MaxRestarts,
         port' = port \/ port' = "disconnected"
  PROVE  HostInv'
<1>1. HostTypes' /\ StageInv'
  BY DEF HostInv, HostTypes, StageInv, hostVars
<1>2. WireInv' /\ LineInv'
  BY DEF HostInv, WireInv, LineInv, StagePid, StageData, hostVars
<1> QED
  BY <1>1, <1>2 DEF HostInv

LEMMA NoticeHostInv == ASSUME HostInv, Notice PROVE HostInv'
<1>1. IInv'
  BY DeviceReplies, QuietIInv DEF HostInv, Notice
<1>2. HostTypes'
  BY AddrsAssumption DEF HostInv, HostTypes, Notice
<1>3. WireInv' /\ LineInv' /\ StageInv'
  BY DEF Notice, WireInv, LineInv, StageInv
<1> QED
  BY <1>1, <1>2, <1>3 DEF HostInv

LEMMA NextHostInv == HostInv /\ [SysNext]_sysVars => HostInv'
<1> SUFFICES ASSUME HostInv, [SysNext]_sysVars PROVE HostInv'
  OBVIOUS
<1>1. CASE Device
  BY <1>1, IsrHostInv, MainHostInv DEF Device
<1>2. CASE HostRuns
  BY <1>2, HostBeginInv, HostSendInv, HostHearsInv, HostGivesUpInv DEF HostRuns, Host
<1>3. CASE Lose
  <2>1. IInv'
    BY <1>3, DeviceReplies, QuietIInv DEF Lose, HostPuts, HostInv, IInv, TypeOK, BusTypes
  <2>2. lost' \in 0..MaxLost
    BY <1>3, MaxLostAssumption DEF Lose, HostInv, HostTypes
  <2> QED
    BY <1>3, <2>1, <2>2, SilenceHostInv DEF Lose, HostPuts, bootVars, HostInv, HostTypes
<1>4. CASE Restart
  <2>1. IInv'
    BY <1>4, StartupIInv DEF Restart, HostInv
  <2>2. restarts' \in 0..MaxRestarts
    BY <1>4, RestartAssumption DEF Restart, HostInv, HostTypes
  <2> QED
    BY <1>4, <2>1, <2>2, SilenceHostInv DEF Restart, Disconnected, HostInv, HostTypes
<1>5. CASE Notice
  BY <1>5, NoticeHostInv
<1>6. CASE Connect
  <2>1. UNCHANGED <<deviceVars, wire, lineSE0>>
    BY <1>6 DEF Connect, vars, deviceVars, busVars
  <2>2. IInv'
    BY <2>1, QuietIInv DEF HostInv, IInv, TypeOK, BusTypes
  <2> QED
    BY <1>6, <2>1, <2>2, SameWireHostInv DEF Connect
<1>7. CASE UNCHANGED sysVars
  <2>1. UNCHANGED <<deviceVars, wire, lineSE0, hostVars, lost, bootVars>>
    BY <1>7 DEF sysVars, vars, deviceVars, busVars
  <2>2. IInv'
    BY <2>1, QuietIInv DEF HostInv, IInv, TypeOK, BusTypes
  <2> QED
    BY <2>1, <2>2, SameWireHostInv
<1> QED
  BY <1>1, <1>2, <1>3, <1>4, <1>5, <1>6, <1>7 DEF SysNext

LEMMA HostInvariance == SysSpec => []HostInv
BY InitHostInv, NextHostInv, PTL DEF SysSpec

\* All variables of the device and its host keep their types, whatever is
\* lost, given up or restarted.
THEOREM SysTypes == SysSpec => []SysTypeOK
<1>1. HostInv => SysTypeOK
  BY AddrsAssumption DEF HostInv, IInv, HostTypes, SysTypeOK
<1> QED
  BY HostInvariance, <1>1, PTL

-----------------------------------------------------------------------------
\* Second layer.  A packet tells the phase that the host is in.
LEMMA HeardPacket ==
  ASSUME HostInv, wire.from = "host"
  PROVE  /\ wire.pid \in DataPids =>
              hPhase = "reply" /\ hStage \in SendsStages /\ wire = StageData
         /\ wire.pid = USBPID_IN => hPhase = "reply" /\ hStage \in ReceivesStages
         /\ wire.pid \in {USBPID_SETUP, USBPID_OUT} =>
              hPhase = "data" /\ hStage \in SendsStages /\ wire.pid = StagePid
<1> USE DEF HostInv
<1>1. CASE hPhase = "token"
  <2>1. wire = HostAck
    BY <1>1, PacketFields DEF WireInv
  <2> QED
    BY <2>1, PacketFields, PidValues
<1>2. CASE hPhase = "data"
  <2>1. wire = Token(StagePid, hAddr) /\ hStage \in SendsStages
    BY <1>2, PacketFields DEF WireInv
  <2>2. wire.pid = StagePid
    BY <2>1, PacketFields
  <2>3. StagePid \in {USBPID_SETUP, USBPID_OUT}
    BY <2>1 DEF StagePid, SendsStages
  <2> QED
    BY <1>2, <2>1, <2>2, <2>3, PidValues
<1>3. CASE hPhase = "reply" /\ hStage \in SendsStages
  <2>1. wire = StageData
    BY <1>3, PacketFields DEF WireInv
  <2>2. wire.pid \in DataPids
    BY <2>1, PacketFields, PidValues DEF StageData
  <2> QED
    BY <1>3, <2>1, <2>2, PidValues
<1>4. CASE hPhase = "reply" /\ hStage \in ReceivesStages
  <2>1. wire = Token(USBPID_IN, hAddr)
    BY <1>4, PacketFields DEF WireInv, DeviceSentData
  <2>2. wire.pid = USBPID_IN
    BY <2>1, PacketFields
  <2> QED
    BY <1>4, <2>2, PidValues
<1> QED
  BY <1>1, <1>2, <1>3, <1>4 DEF WireInv, HostTypes, SendsStages, ReceivesStages

\* A packet that is kept is the one of the setup stage, after its token.
LEMMA StoredPacket ==
  ASSUME HostInv, TokenInv, Attached, wire.from = "host", Acknowledges
  PROVE  /\ hPhase = "reply" /\ hStage \in SendsStages
         /\ hStage = "setup" => /\ usbRxLen' = 11 /\ usbRxToken' = USBPID_SETUP
                                /\ RxPacket'.body = hReq
         /\ hStage = "statusOut" => SameRx
<1>1. hPhase = "reply" /\ hStage \in SendsStages /\ wire = StageData
  BY HeardPacket DEF Acknowledges
<1>2. CASE hStage = "setup"
  <2>1. wire.len = 8 /\ wire.body = hReq
    BY <1>1, <1>2, PacketFields DEF StageData
  <2>2. usbCurrentTok = USBPID_SETUP
    BY <1>1, <1>2 DEF TokenInv, StagePid, Acknowledges
  <2> QED
    BY <1>1, <1>2, <2>1, <2>2 DEF Acknowledges
<1>3. CASE hStage = "statusOut"
  <2>1. wire.len = 0
    BY <1>1, <1>3, PacketFields DEF StageData
  <2> QED
    BY <1>1, <1>3, <2>1 DEF Acknowledges
<1> QED
  BY <1>1, <1>2, <1>3 DEF SendsStages

LEMMA HandshakePids ==
  /\ Silence # Handshake(USBPID_ACK) /\ Handshake(USBPID_NAK) # Handshake(USBPID_ACK)
  /\ Silence.from # "device" /\ HostAck.from # "device"
  /\ Handshake(USBPID_ACK).pid \notin DataPids /\ Handshake(USBPID_NAK).pid \notin DataPids
BY PacketFields, PidValues

LEMMA IsrRequestInv ==
  ASSUME HostInv, RequestInv, Attached, Isr, UNCHANGED <<hostVars, lost, bootVars>>
  PROVE  RequestInv'
<1> USE DEF RequestInv
<1>1. /\ wire.from = "host" /\ UNCHANGED <<usbNewDeviceAddr, usbConfiguration, pc>>
      /\ Drops \/ Refuses \/ Acknowledges \/ Answers
  BY IsrEffect DEF HostInv
<1>2. UNCHANGED <<hStage, hPhase, hReq, hAddr>> /\ Attached' = Attached /\ StagePid' = StagePid
  BY DEF hostVars, bootVars, Attached, StagePid
<1>3. UNCHANGED <<SetsAddress, SetsConfiguration, Performed>>
  BY <1>1, <1>2 DEF SetsAddress, SetsConfiguration, Performed
<1>4. CASE SameRx /\ wire' # Handshake(USBPID_ACK)
  <2>1. RxSetup'
    BY <1>4 DEF RxSetup, SameRx
  <2>2. TokenInv'
    <3>1. CASE Drops
      BY <1>1, <1>2, <3>1, HeardPacket, PidValues DEF Drops, TokenInv, SendsStages, ReceivesStages
    <3>2. CASE Refuses \/ Answers
      BY <1>1, <1>2, <3>2, HeardPacket, PidValues
         DEF Refuses, Answers, TokenInv, SendsStages, ReceivesStages
    <3> QED
      BY <1>1, <1>4, <3>1, <3>2 DEF Acknowledges
  <2>3. TakenInv'
    BY <1>1, <1>2, <1>3, <1>4 DEF TakenInv, RequestTaken, SameRx
  <2>4. AnsweredInv'
    <3>1. CASE Drops \/ Refuses
      BY <1>1, <1>2, <1>3, <1>4, <3>1, HandshakePids
         DEF AnsweredInv, Drops, Refuses, DeviceSentData, SameRx
    <3>2. CASE Answers
      BY <1>1, <1>2, <1>4, <3>2, HeardPacket DEF AnsweredInv, Answers, SameRx, ReceivesStages
    <3> QED
      BY <1>1, <1>4, <3>1, <3>2 DEF Acknowledges
  <2> QED
    BY <2>1, <2>2, <2>3, <2>4
<1>5. CASE Acknowledges
  <2>1. /\ hPhase = "reply" /\ hStage \in SendsStages
        /\ hStage = "setup" => /\ usbRxLen' = 11 /\ usbRxToken' = USBPID_SETUP
                               /\ RxPacket'.body = hReq
        /\ hStage = "statusOut" => SameRx
    BY <1>1, <1>5, StoredPacket
  <2>2. usbRxLen = 0 /\ usbCurrentTok' = usbCurrentTok /\ ~DeviceSentData'
    BY <1>5, HandshakePids DEF Acknowledges, DeviceSentData
  <2>3. pc # "release"
    BY <2>2 DEF HostInv, IInv, DeviceInv, RxHeld
  <2>4. RxSetup' /\ TokenInv'
    BY <1>2, <2>1, <2>2 DEF RxSetup, TokenInv, SendsStages, SameRx
  <2>5. TakenInv'
    BY <1>1, <1>2, <1>3, <2>1, <2>2, <2>3 DEF TakenInv, RequestTaken, SendsStages, SameRx
  <2>6. AnsweredInv'
    BY <1>2, <2>1, <2>2 DEF AnsweredInv, SendsStages, SameRx
  <2> QED
    BY <2>4, <2>5, <2>6
<1>6. Drops \/ Refuses \/ Answers => SameRx /\ wire' # Handshake(USBPID_ACK)
  BY HandshakePids DEF Drops, Refuses, Answers, DeviceSentData
<1> QED
  BY <1>1, <1>4, <1>5, <1>6

LEMMA MainRequestInv ==
  ASSUME HostInv, RequestInv, Main, UNCHANGED <<hostVars, lost, bootVars>>
  PROVE  RequestInv'
<1> USE DEF RequestInv
<1>1. /\ UNCHANGED <<wire, lineSE0, usbRxToken, usbCurrentTok>> /\ RxPacket' = RxPacket
      /\ Computes \/ Performs \/ Releases \/ SeesReset
  BY MainEffect DEF HostInv
<1>2. /\ UNCHANGED <<hStage, hPhase, hReq, hAddr, SetsAddress, SetsConfiguration>>
      /\ UNCHANGED <<Attached, StagePid, DeviceSentData, RequestTaken>>
  BY <1>1 DEF hostVars, bootVars, Attached, StagePid, DeviceSentData, RequestTaken, SetsAddress,
     SetsConfiguration
<1>3. RxSetup' /\ TokenInv'
  BY <1>1, <1>2 DEF RxSetup, TokenInv, Computes, Performs, Releases, SeesReset
<1>4. SeesReset => hStage = "idle" /\ ~DeviceSentData /\ ~RequestTaken
  BY HandshakePids DEF SeesReset, HostInv, LineInv, DeviceSentData, RequestTaken
<1>5. TakenInv'
  <2> SUFFICES ASSUME Attached, RequestTaken
               PROVE  /\ usbRxLen' # 0 => RxPacket.body = hReq
                      /\ usbRxLen' = 0 \/ pc' = "release" => Performed'
    BY <1>1, <1>2 DEF TakenInv
  <2>1. CASE Computes
    BY <1>2, <2>1 DEF TakenInv, Computes, Performed, addrVars
  <2>2. CASE Performs
    BY <1>2, <2>2 DEF TakenInv, Performs, Performed, SetsAddress, SetsConfiguration
  <2>3. CASE Releases
    BY <1>2, <2>3 DEF TakenInv, Releases, Performed, addrVars
  <2> QED
    BY <1>1, <1>4, <2>1, <2>2, <2>3
<1>6. AnsweredInv'
  BY <1>1, <1>2, <1>4 DEF AnsweredInv, Computes, Performs, Releases, addrVars
<1> QED
  BY <1>3, <1>5, <1>6

\* The steps of everybody else leave the device alone.
LEMMA HostRequestInv ==
  ASSUME HostInv, RequestInv, Host, port # "noticed", UNCHANGED <<lost, bootVars>>
  PROVE  RequestInv'
<1> USE DEF RequestInv
<1>1. /\ UNCHANGED <<usbRxLen, usbRxToken, usbCurrentTok, RxPacket, usbDeviceAddr>>
      /\ UNCHANGED <<usbNewDeviceAddr, usbConfiguration, pc, Attached>>
  BY DEF Host, HostBegin, HostToken, HostData, HostAcked, HostRetry, HostDiscard, HostAcceptData,
     HostAcceptStatus, HostPuts, vars, deviceVars, rxVars, addrVars, mainVars, RxPacket, bootVars,
     Attached
<1>2. RxSetup'
  BY <1>1 DEF RxSetup
<1>3. CASE HostBegin
  <2>1. hStage' = "setup" /\ hPhase' = "token" /\ wire' = wire /\ hPhase = "token"
    BY <1>3 DEF HostBegin, vars, busVars, HostInv, WireInv
  <2>2. wire \in {Silence, HostAck}
    BY <2>1 DEF HostInv, WireInv
  <2>3. wire # Handshake(USBPID_ACK) /\ ~DeviceSentData'
    BY <2>1, <2>2, PacketFields DEF DeviceSentData
  <2> QED
    BY <1>2, <2>1, <2>3 DEF TokenInv, TakenInv, AnsweredInv, RequestTaken
<1>4. CASE HostToken \/ HostData
  <2>1. UNCHANGED <<hStage, hReq, StagePid, SetsAddress, SetsConfiguration, Performed>>
    BY <1>1, <1>4
       DEF HostToken, HostData, StagePid, SetsAddress, SetsConfiguration, Performed
  <2>2. wire'.from = "host" /\ ~DeviceSentData'
    BY <1>4, PacketFields DEF HostToken, HostData, HostPuts, DeviceSentData
  <2>3. wire' # Handshake(USBPID_ACK) /\ wire' # Silence
    BY <2>2, PacketFields
  <2>4. TokenInv'
    <3>1. CASE HostToken
      BY <2>1, <2>3, <3>1
         DEF HostToken, TokenInv, StagePid, SendsStages, USBPID_IN, USBPID_OUT, USBPID_SETUP
    <3>2. CASE HostData
      <4>1. hPhase = "data" /\ wire = Silence
        BY <3>2, PacketFields DEF HostData, BusFree, HostInv, WireInv
      <4> QED
        BY <1>1, <2>1, <4>1 DEF TokenInv
    <3> QED
      BY <1>4, <3>1, <3>2
  <2>5. TakenInv'
    BY <1>1, <2>1, <2>3 DEF TakenInv, RequestTaken
  <2>6. AnsweredInv'
    BY <1>1, <2>1, <2>2, <2>3 DEF AnsweredInv
  <2> QED
    BY <1>2, <2>4, <2>5, <2>6
<1>5. CASE HostAcked \/ HostRetry \/ HostDiscard \/ HostAcceptData \/ HostAcceptStatus
  <2>1. /\ hPhase = "reply" /\ hPhase' = "token" /\ wire' \in {Silence, HostAck}
        /\ UNCHANGED <<hReq, SetsAddress, SetsConfiguration, Performed>>
    BY <1>1, <1>5
       DEF HostAcked, HostRetry, HostDiscard, HostAcceptData, HostAcceptStatus, HostPuts,
           SetsAddress, SetsConfiguration, Performed
  <2>2. wire' # Handshake(USBPID_ACK) /\ ~DeviceSentData'
    BY <2>1, PacketFields DEF DeviceSentData
  <2>3. hStage \in SendsStages \cup ReceivesStages
    BY <2>1 DEF HostInv, WireInv, HostTypes, SendsStages, ReceivesStages
  <2>4. hStage' # hStage => hStage' \notin {"idle", "setup"} /\ RequestTaken
    BY <1>5, <2>3, AckedSends
       DEF HostAcked, HostRetry, HostDiscard, HostAcceptData, HostAcceptStatus, RequestTaken,
           SendsStages, ReceivesStages
  <2>5. RequestTaken' => RequestTaken
    BY <2>2, <2>3, <2>4 DEF RequestTaken, SendsStages, ReceivesStages
  <2>6. TokenInv'
    BY <2>1 DEF TokenInv
  <2>7. TakenInv'
    BY <1>1, <2>1, <2>5 DEF TakenInv
  <2>8. AnsweredInv'
    <3> SUFFICES ASSUME Attached, hStage' = "done"
                 PROVE  usbRxLen = 0 /\ (SetsAddress => usbDeviceAddr = hReq.lo % 128)
      BY <1>1, <2>1, <2>2 DEF AnsweredInv
    <3>1. CASE HostAcked
      <4>1. hStage = "statusOut" /\ wire = Handshake(USBPID_ACK)
        BY <2>3, <3>1, AckedSends DEF HostAcked, SendsStages
      <4>2. ~SetsAddress
        BY <4>1, SetAddressAssumption DEF SetsAddress, HostInv, StageInv, HostTypes
      <4> QED
        BY <4>1, <4>2 DEF AnsweredInv
    <3>2. CASE HostAcceptStatus
      <4>1. DeviceSentData /\ RequestTaken
        BY <3>2 DEF HostAcceptStatus, RequestTaken
      <4> QED
        BY <4>1 DEF AnsweredInv, TakenInv, Performed
    <3> QED
      BY <1>5, <2>3, <3>1, <3>2
         DEF HostRetry, HostDiscard, HostAcceptData, SendsStages, ReceivesStages
  <2> QED
    BY <1>2, <2>6, <2>7, <2>8
<1> QED
  BY <1>3, <1>4, <1>5 DEF Host

LEMMA InitRequestInv == SysInit => RequestInv
<1> SUFFICES ASSUME SysInit PROVE RequestInv
  OBVIOUS
<1>1. hStage = "idle" /\ wire = Silence /\ usbRxLen = 0
  BY DEF SysInit, Init
<1> QED
  BY <1>1, HandshakePids
     DEF RequestInv, RxSetup, TokenInv, TakenInv, AnsweredInv, RequestTaken, DeviceSentData,
         SendsStages

\* A step in which the device keeps silent: it is the host's turn to repeat.
LEMMA SilentRequestInv ==
  ASSUME HostInv, RequestInv, wire' = Silence, UNCHANGED <<deviceVars, hostVars, bootVars>>,
         hPhase = "data" => wire = Silence
  PROVE  RequestInv'
<1> USE DEF RequestInv
<1>1. UNCHANGED <<usbRxLen, usbRxToken, usbCurrentTok, RxPacket, addrVars, usbConfiguration, pc>>
  BY DEF deviceVars, rxVars, mainVars, RxPacket
<1>2. /\ UNCHANGED <<hStage, hPhase, hReq, StagePid, SetsAddress, SetsConfiguration, Attached>>
      /\ UNCHANGED Performed
  BY <1>1 DEF hostVars, bootVars, addrVars, StagePid, SetsAddress, SetsConfiguration, Attached,
     Performed
<1>3. wire' # Handshake(USBPID_ACK) /\ ~DeviceSentData'
  BY HandshakePids DEF DeviceSentData
<1>4. RxSetup' /\ TokenInv'
  BY <1>1, <1>2 DEF RxSetup, TokenInv
<1>5. TakenInv'
  BY <1>1, <1>2, <1>3 DEF TakenInv, RequestTaken
<1>6. AnsweredInv'
  BY <1>1, <1>2, <1>3 DEF AnsweredInv, addrVars
<1> QED
  BY <1>4, <1>5, <1>6

LEMMA NextRequestInv ==
  ASSUME "token" \notin Lossy
  PROVE  HostInv /\ RequestInv /\ [SysNext]_sysVars => RequestInv'
<1> SUFFICES ASSUME HostInv, RequestInv, [SysNext]_sysVars PROVE RequestInv'
  OBVIOUS
<1>1. CASE Device
  BY <1>1, IsrRequestInv, MainRequestInv DEF Device
<1>2. CASE HostRuns /\ Host
  BY <1>2, HostRequestInv DEF HostRuns
<1>3. CASE HostRuns /\ HostGivesUp
  <2>1. /\ hStage' = "idle" /\ hPhase' = "token"
        /\ UNCHANGED <<usbRxLen, usbRxToken>>
    BY <1>3 DEF HostGivesUp, HostAbandon, HostReset, HostResetEnd, vars, deviceVars, rxVars,
       hostVars, HostInv, WireInv, LineInv
  <2>2. wire' \in {Silence, HostAck}
    BY <1>3 DEF HostGivesUp, HostAbandon, HostReset, HostResetEnd, vars, busVars, HostInv,
       WireInv, LineInv
  <2>3. ~DeviceSentData'
    BY <2>2, HandshakePids DEF DeviceSentData
  <2> QED
    BY <2>1, <2>3
       DEF RequestInv, RxSetup, TokenInv, TakenInv, AnsweredInv, RequestTaken, SendsStages
<1>4. CASE Lose
  <2>1. hPhase = "data" => wire = Silence
    <3> SUFFICES ASSUME hPhase = "data", wire # Silence PROVE FALSE
      OBVIOUS
    <3>1. wire = Token(StagePid, hAddr) /\ hStage \in SendsStages
      BY DEF HostInv, WireInv
    <3>2. wire.from = "host" /\ wire.pid \in TokenPids
      BY <3>1, PacketFields, PidValues DEF StagePid, SendsStages
    <3>3. wire.pid \notin DataPids /\ wire # HostAck /\ wire # Handshake(USBPID_ACK)
            /\ wire # Handshake(USBPID_NAK)
      BY <3>2, PacketFields, PidValues
    <3>4. KindOf(wire) = "token"
      BY <3>2, <3>3 DEF KindOf
    <3> QED
      BY <1>4, <3>4 DEF Lose
  <2>2. wire' = Silence /\ UNCHANGED <<deviceVars, hostVars, bootVars>>
    BY <1>4 DEF Lose, HostPuts
  <2> QED
    BY <2>1, <2>2, SilentRequestInv
<1>5. CASE Restart
  <2>1. ~Attached' /\ usbRxLen' = 0
    BY <1>5 DEF Restart, Startup, Attached, Disconnected
  <2> QED
    BY <2>1 DEF RequestInv, RxSetup, TokenInv, TakenInv, AnsweredInv
<1>6. CASE Notice
  <2>1. ~Attached' /\ UNCHANGED <<usbRxLen, usbRxToken>>
    BY <1>6 DEF Notice, Attached, deviceVars, rxVars
  <2> QED
    BY <2>1 DEF RequestInv, RxSetup, TokenInv, TakenInv, AnsweredInv
<1>7. CASE Connect
  <2>1. UNCHANGED <<usbRxLen, usbRxToken, wire, hStage>> /\ hStage = "idle" /\ hPhase = "token"
    BY <1>7 DEF Connect, vars, rxVars, busVars, hostVars, HostInv, LineInv, WireInv
  <2>2. ~DeviceSentData'
    BY <2>1, HandshakePids DEF HostInv, WireInv, DeviceSentData
  <2> QED
    BY <2>1, <2>2
       DEF RequestInv, RxSetup, TokenInv, TakenInv, AnsweredInv, RequestTaken, SendsStages
<1>8. CASE UNCHANGED sysVars
  <2>1. UNCHANGED <<RxSetup, TokenInv, TakenInv, AnsweredInv>>
    BY <1>8 DEF sysVars, vars, rxVars, addrVars, mainVars, busVars, hostVars, bootVars, RxSetup,
       TokenInv, TakenInv, AnsweredInv, Attached, RequestTaken, Performed, SetsAddress,
       SetsConfiguration, RxPacket, StagePid, DeviceSentData
  <2> QED
    BY <2>1 DEF RequestInv
<1> QED
  BY <1>1, <1>2, <1>3, <1>4, <1>5, <1>6, <1>7, <1>8 DEF SysNext, HostRuns

LEMMA RequestInvariance ==
  ASSUME "token" \notin Lossy
  PROVE  SysSpec => [](HostInv /\ RequestInv)
BY InitRequestInv, NextRequestInv, HostInvariance, PTL DEF SysSpec

\* As long as tokens arrive, the host's status stage completes only when the
\* request has taken effect (usbProcessRx, and the address assigned by the
\* transmitter), whatever else is lost, given up, reset or restarted.
THEOREM StatusDone ==
  ASSUME "token" \notin Lossy
  PROVE  SysSpec => []StatusMeansDone
<1>1. RequestInv => StatusMeansDone
  <2> SUFFICES ASSUME RequestInv, Attached, hStage = "done"
               PROVE  /\ SetsConfiguration => usbConfiguration = hReq.lo
                      /\ SetsAddress => usbDeviceAddr = hReq.lo % 128
    BY DEF StatusMeansDone, SetsConfiguration, SetsAddress
  <2> QED
    BY DEF RequestInv, AnsweredInv, TakenInv, RequestTaken, Performed
<1> QED
  BY RequestInvariance, <1>1, PTL

-----------------------------------------------------------------------------
\* Third layer: nothing of another transfer, and one address.
LEMMA InitAddressInv == SysInit => AddressInv
BY DEF SysInit, Init, AddressInv, FreshInv, OwnRequest, OneAddress, Attached

LEMMA IsrAddressInv ==
  ASSUME HostInv, RequestInv, AddressInv, Attached, Isr, UNCHANGED <<hostVars, lost, bootVars>>
  PROVE  AddressInv'
<1> USE DEF AddressInv
<1>1. /\ wire.from = "host" /\ UNCHANGED <<usbNewDeviceAddr, lineSE0>>
      /\ Drops \/ Refuses \/ Acknowledges \/ Answers
  BY IsrEffect DEF HostInv
<1>2. UNCHANGED <<hStage, hReq, hAddr, SetsAddress>> /\ Attached'
  BY DEF hostVars, bootVars, Attached, SetsAddress
<1>3. ~lineSE0' /\ FreshInv'
  BY <1>1, <1>2 DEF FreshInv
<1>4. CASE SameRx /\ UNCHANGED usbDeviceAddr
  BY <1>1, <1>2, <1>3, <1>4 DEF OwnRequest, OneAddress, SameRx
<1>5. CASE Acknowledges
  <2>1. /\ hStage \in SendsStages
        /\ hStage = "setup" => RxPacket'.body = hReq
        /\ hStage = "statusOut" => SameRx
    BY <1>1, <1>5, StoredPacket DEF RequestInv
  <2>2. OwnRequest'
    BY <1>2, <2>1 DEF OwnRequest, SendsStages, SameRx
  <2>3. OneAddress'
    BY <1>1, <1>2, <1>5, <2>1 DEF OneAddress, SendsStages, Acknowledges
  <2> QED
    BY <1>3, <2>2, <2>3
<1>6. CASE Answers
  <2>1. hStage \in ReceivesStages
    BY <1>1, <1>6, HeardPacket DEF Answers
  <2>2. usbRxLen' = 0 /\ usbDeviceAddr' = usbNewDeviceAddr % 128
    BY <1>6 DEF Answers, SameRx
  <2>3. OneAddress'
    BY <1>1, <1>2, <2>1, <2>2 DEF OneAddress, ReceivesStages
  <2> QED
    BY <1>3, <2>2, <2>3 DEF OwnRequest
<1> QED
  BY <1>1, <1>4, <1>5, <1>6 DEF Drops, Refuses

LEMMA MainAddressInv ==
  ASSUME HostInv, RequestInv, AddressInv, Attached, Main, UNCHANGED <<hostVars, lost, bootVars>>
  PROVE  AddressInv'
<1> USE DEF AddressInv
<1>1. /\ UNCHANGED lineSE0 /\ RxPacket' = RxPacket
      /\ Computes \/ Performs \/ Releases
  BY MainEffect DEF HostInv, RequestInv, SeesReset
<1>2. UNCHANGED <<hStage, hReq, hAddr, SetsAddress>> /\ Attached'
  BY DEF hostVars, bootVars, Attached, SetsAddress
<1>3. ~lineSE0' /\ FreshInv'
  BY <1>1, <1>2 DEF FreshInv
<1>4. OwnRequest'
  BY <1>1, <1>2 DEF OwnRequest, Computes, Performs, Releases
<1>5. CASE Computes \/ Releases
  BY <1>2, <1>3, <1>4, <1>5 DEF OneAddress, Computes, Releases, addrVars
<1>6. CASE Performs
  <2>1. usbRxLen # 0 /\ RxPacket.body = hReq /\ hStage \notin {"idle", "done"}
    BY <1>6 DEF Performs, OwnRequest
  <2>2. usbDeviceAddr' = usbDeviceAddr /\ usbDeviceAddr = hAddr
    BY <1>6, <2>1 DEF Performs, OneAddress
  <2>3. SetsAddress => hStage \in {"setup", "statusIn"}
    BY <2>1, SetAddressAssumption DEF SetsAddress, HostInv, StageInv, HostTypes
  <2>4. ~SetsAddress => usbNewDeviceAddr' = usbNewDeviceAddr
    BY <1>6, <2>1 DEF Performs, SetsAddress
  <2>5. OneAddress'
    BY <1>2, <2>2, <2>3, <2>4 DEF OneAddress
  <2> QED
    BY <1>3, <1>4, <2>5
<1> QED
  BY <1>1, <1>5, <1>6

LEMMA HostAddressInv ==
  ASSUME HostInv, RequestInv, AddressInv, Host, UNCHANGED <<lost, bootVars>>
  PROVE  AddressInv'
<1> USE DEF AddressInv
<1>1. UNCHANGED <<usbRxLen, RxPacket, usbDeviceAddr, usbNewDeviceAddr, lineSE0, Attached>>
  BY DEF Host, HostBegin, HostToken, HostData, HostAcked, HostRetry, HostDiscard, HostAcceptData,
     HostAcceptStatus, HostPuts, vars, deviceVars, rxVars, addrVars, busVars, RxPacket, bootVars,
     Attached
<1>2. ~lineSE0' /\ FreshInv'
  BY <1>1 DEF FreshInv
<1>3. CASE HostBegin
  <2>1. hStage \in {"idle", "done"} /\ hStage' = "setup" /\ hAddr' = hAddr
    BY <1>3 DEF HostBegin
  <2>2. OwnRequest' /\ OneAddress'
    BY <1>1, <2>1 DEF OwnRequest, OneAddress
  <2> QED
    BY <1>2, <2>2
<1>4. CASE HostToken \/ HostData \/ HostRetry \/ HostDiscard
  <2>1. UNCHANGED <<hStage, hReq, hAddr, SetsAddress>>
    BY <1>4 DEF HostToken, HostData, HostRetry, HostDiscard, SetsAddress
  <2>2. OwnRequest' /\ OneAddress'
    BY <1>1, <2>1 DEF OwnRequest, OneAddress
  <2> QED
    BY <1>2, <2>2
<1>5. CASE HostAcked
  <2>1. hStage \in {"setup", "statusOut"} /\ UNCHANGED <<hReq, hAddr, SetsAddress>>
    BY <1>5, AckedSends DEF HostAcked, SendsStages, SetsAddress
  <2>2. /\ hStage = "setup" => hStage' \in {"data", "statusIn"}
        /\ hStage = "setup" /\ SetsAddress => hStage' = "statusIn"
        /\ hStage = "statusOut" => hStage' = "done" /\ wire = Handshake(USBPID_ACK)
    BY <1>5, <2>1, SetAddressAssumption DEF HostAcked, SetsAddress, HostInv, HostTypes
  <2>3. OwnRequest'
    BY <1>1, <2>1, <2>2 DEF OwnRequest, RequestInv, AnsweredInv
  <2>4. OneAddress'
    BY <1>1, <2>1, <2>2 DEF OneAddress
  <2> QED
    BY <1>2, <2>3, <2>4
<1>6. CASE HostAcceptData
  <2>1. /\ hStage = "data" /\ hStage' \in {"data", "statusOut"}
        /\ UNCHANGED <<hReq, hAddr, SetsAddress>>
    BY <1>6 DEF HostAcceptData, SetsAddress
  <2>2. OwnRequest' /\ OneAddress'
    BY <1>1, <2>1 DEF OwnRequest, OneAddress
  <2> QED
    BY <1>2, <2>2
<1>7. CASE HostAcceptStatus
  <2>1. /\ DeviceSentData /\ hStage = "statusIn" /\ hStage' = "done"
        /\ UNCHANGED <<hReq, SetsAddress>>
        /\ hAddr' = IF SetsAddress THEN hReq.lo % 128 ELSE hAddr
    BY <1>7 DEF HostAcceptStatus, SetsAddress
  <2>2. Attached => /\ usbRxLen = 0 /\ usbDeviceAddr = usbNewDeviceAddr % 128
                    /\ SetsAddress => usbNewDeviceAddr = hReq.lo
    BY <2>1 DEF RequestInv, AnsweredInv, TakenInv, RequestTaken, Performed
  <2>3. OwnRequest' /\ OneAddress'
    BY <1>1, <2>1, <2>2 DEF OwnRequest, OneAddress
  <2> QED
    BY <1>2, <2>3
<1> QED
  BY <1>3, <1>4, <1>5, <1>6, <1>7 DEF Host

LEMMA NextAddressInv ==
  ASSUME ~MayAbandon
  PROVE  HostInv /\ RequestInv /\ AddressInv /\ [SysNext]_sysVars => AddressInv'
<1> SUFFICES ASSUME HostInv, RequestInv, AddressInv, [SysNext]_sysVars PROVE AddressInv'
  OBVIOUS
<1>1. CASE Device
  BY <1>1, IsrAddressInv, MainAddressInv DEF Device
<1>2. CASE HostRuns
  BY <1>2, HostAddressInv
     DEF HostRuns, HostGivesUp, HostAbandon, HostReset, HostResetEnd, AddressInv
<1>3. CASE Lose \/ UNCHANGED sysVars
  <2>1. UNCHANGED <<lineSE0, FreshInv, OwnRequest, OneAddress>>
    BY <1>3 DEF Lose, HostPuts, sysVars, vars, deviceVars, rxVars, addrVars, busVars, hostVars,
       bootVars, FreshInv, OwnRequest, OneAddress, Attached, RxPacket, SetsAddress
  <2> QED
    BY <2>1 DEF AddressInv
<1>4. CASE Restart
  <2>1. ~Attached' /\ usbRxLen' = 0 /\ usbDeviceAddr' = 0 /\ usbNewDeviceAddr' = 0 /\ ~lineSE0'
    BY <1>4 DEF Restart, Startup, Attached, Disconnected, AddressInv
  <2> QED
    BY <2>1 DEF AddressInv, FreshInv, OwnRequest, OneAddress
<1>5. CASE Notice
  <2>1. ~Attached /\ ~Attached' /\ ~lineSE0'
          /\ UNCHANGED <<usbRxLen, usbDeviceAddr, usbNewDeviceAddr>>
    BY <1>5 DEF Notice, Attached, deviceVars, rxVars, addrVars
  <2> QED
    BY <2>1 DEF AddressInv, FreshInv, OwnRequest, OneAddress
<1>6. CASE Connect
  <2>1. /\ ~Attached /\ UNCHANGED <<lineSE0, usbRxLen, usbDeviceAddr, usbNewDeviceAddr, hAddr>>
        /\ hAddr = 0 /\ Attached'
    BY <1>6 DEF Connect, Attached, vars, rxVars, addrVars, busVars, hostVars, HostInv, LineInv
  <2> QED
    BY <2>1 DEF AddressInv, FreshInv, OwnRequest, OneAddress
<1> QED
  BY <1>1, <1>2, <1>3, <1>4, <1>5, <1>6 DEF SysNext

LEMMA AddressInvariance ==
  ASSUME "token" \notin Lossy, ~MayAbandon
  PROVE  SysSpec => [](HostInv /\ RequestInv /\ AddressInv)
BY InitAddressInv, NextAddressInv, RequestInvariance, PTL DEF SysSpec

\* As long as tokens arrive and the host completes its transfers, the address
\* that the device answers to (usbDeviceAddr, which changes between the end of
\* the status packet and the next token) is the host's between two transfers,
\* whatever else is lost, and after a restart as well.
THEOREM OneAddressBetween ==
  ASSUME "token" \notin Lossy, ~MayAbandon
  PROVE  SysSpec => []AddressAgreed
<1>1. AddressInv => AddressAgreed
  BY DEF AddressInv, OneAddress, AddressAgreed
<1> QED
  BY AddressInvariance, <1>1, PTL

\* Then the interrupt refuses the data of a SETUP only when it is the very
\* request that it has still to process, whose acknowledgement was lost.
LEMMA RefusedRequest ==
  ASSUME HostInv, RequestInv, AddressInv, [SysNext]_sysVars,
         hStage = "setup", wire.from = "host", wire.pid = USBPID_DATA0,
         wire' = Handshake(USBPID_NAK)
  PROVE  usbRxToken = USBPID_SETUP /\ RxPacket.body = hReq
<1>1. wire'.from = "device" /\ wire' # Silence /\ wire' # HostAck /\ wire' # wire
  BY PacketFields
<1>2. ~Host /\ ~HostGivesUp
  BY <1>1, PacketFields
     DEF Host, HostBegin, HostToken, HostData, HostAcked, HostRetry, HostDiscard, HostAcceptData,
         HostAcceptStatus, HostGivesUp, HostAbandon, HostReset, HostResetEnd, HostPuts, vars, busVars
<1>3. ~Lose /\ ~Restart /\ ~Notice /\ ~Connect /\ ~UNCHANGED sysVars
  BY <1>1 DEF Lose, Restart, Notice, Connect, HostPuts, sysVars, vars, busVars
<1>4. Attached /\ (Isr \/ Main)
  BY <1>2, <1>3 DEF SysNext, HostRuns, Device
<1>5. Isr
  BY <1>1, <1>4, MainEffect DEF HostInv, RequestInv
<1>6. Refuses
  <2>1. Drops \/ Refuses \/ Acknowledges \/ Answers
    BY <1>5, IsrEffect DEF HostInv
  <2> QED
    BY <1>1, <2>1, PacketFields, PidValues
       DEF Drops, Acknowledges, Answers, DeviceSentData
<1>7. usbRxLen # 0
  BY <1>6, PidValues DEF Refuses
<1> QED
  BY <1>4, <1>7 DEF RequestInv, RxSetup, AddressInv, OwnRequest

\* As long as tokens arrive and the host completes its transfers, a SETUP is
\* never refused for the sake of anything else than a repetition of itself
\* ("we must not NAK next SETUP", asmcommon.inc).
THEOREM RefusesOnlyRepeated ==
  ASSUME "token" \notin Lossy, ~MayAbandon
  PROVE  SysSpec => SetupNakOnlyRepeated
BY AddressInvariance, RefusedRequest, PTL DEF SysSpec, SetupNakOnlyRepeated

\* The address changes only with the status packet of the host's SET_ADDRESS.
LEMMA ChangedAddress ==
  ASSUME HostInv, RequestInv, AddressInv, [SysNext]_sysVars, usbDeviceAddr' # usbDeviceAddr,
         Attached'
  PROVE  hStage = "statusIn" /\ SetsAddress
<1>1. ~Host /\ ~HostGivesUp
  BY DEF Host, HostBegin, HostToken, HostData, HostAcked, HostRetry, HostDiscard, HostAcceptData,
     HostAcceptStatus, HostGivesUp, HostAbandon, HostReset, HostResetEnd, HostPuts, vars,
     deviceVars, addrVars
<1>2. ~Lose /\ ~Restart /\ ~Notice /\ ~Connect /\ ~UNCHANGED sysVars
  BY DEF Lose, Restart, Notice, Connect, HostPuts, sysVars, vars, deviceVars, addrVars, Attached,
     Disconnected
<1>3. Attached /\ (Isr \/ Main)
  BY <1>1, <1>2 DEF SysNext, HostRuns, Device
<1>4. Isr
  BY <1>3, MainEffect
     DEF HostInv, RequestInv, AddressInv, Computes, Performs, Releases, SeesReset, addrVars
<1>5. wire.from = "host" /\ Answers
  BY <1>4, IsrEffect DEF HostInv, Drops, Refuses, Acknowledges
<1>6. hStage \in ReceivesStages
  BY <1>5, HeardPacket DEF Answers
<1> QED
  BY <1>3, <1>5, <1>6 DEF AddressInv, OneAddress, Answers, ReceivesStages

\* Neither an answer nor a handshake moves the address (usbDeviceAddr) in any
\* other stage, so a device that has not got its new address yet still
\* answers to the old one.
THEOREM AddressKept ==
  ASSUME "token" \notin Lossy, ~MayAbandon
  PROVE  SysSpec => AddressAfterStatus
<1>1. HostInv /\ RequestInv /\ AddressInv /\ [SysNext]_sysVars =>
        (usbDeviceAddr' # usbDeviceAddr =>
           lineSE0 \/ ~Attached' \/ (hStage = "statusIn" /\ IsStandard(hReq, USBRQ_SET_ADDRESS)))
  BY ChangedAddress DEF SetsAddress
<1> QED
  BY AddressInvariance, <1>1, PTL DEF SysSpec, AddressAfterStatus
=============================================================================
