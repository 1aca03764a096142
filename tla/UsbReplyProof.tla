---------------------------- MODULE UsbReplyProof ----------------------------
(***************************************************************************)
(* Proofs that the host of UsbSystem gets what it asked for, in any number *)
(* of transfers, given up or completed, as long as neither tokens nor data *)
(* packets of the device are lost (the driver forgets a packet when it is  *)
(* sent).  The invariant on top of those of UsbSystemProof follows the     *)
(* bytes of a reply: what the host has received (RecvInv, KeptInv), what   *)
(* is on the wire (WireRight), and what the main loop has read, is reading *)
(* or has still to read (ServingInv), with one position that all of them   *)
(* count from.                                                             *)
(***************************************************************************)
EXTENDS UsbSystemProof

Total == WantedLen(hReq)

\* The piece of the reply that begins at byte at.
Right(b, at) ==
  /\ BodyLen(b) = Min2(8, Total - at)
  /\ b # NoBody =>
       /\ b.src = WantedSrc(hReq)
       /\ b.src \in Descriptors => b.at = at
       /\ b.src = "usbConfiguration" => b.at = usbConfiguration
       /\ b.src = "mVAvg" => b.at >= hSince

\* What the host knows by itself.
RecvInv ==
  /\ hStage \in {"setup", "statusIn"} => hRecv = <<>>
  /\ hStage # "idle" /\ hRecv = <<>> => hToggle = USBPID_DATA1 /\ hCount = 0
  /\ hStage = "data" => hCount = 8 * Len(hRecv) /\ hCount < hReq.wLength
  /\ port = "noticed" => hRecv = <<>>
  /\ ~Attached => wire.from # "device"

KeptInv ==
  Attached =>
    /\ hStage # "idle" => hSince <= sample
    /\ hRecv # <<>> => usbRxLen = 0
    /\ \A i \in 1..Len(hRecv) : Right(hRecv[i], 8 * (i - 1))
    /\ hStage = "data" => hCount <= Total
    /\ hStage \in {"statusOut", "done"} => hCount = Total

WireRight ==
  Attached /\ DeviceSentData =>
    /\ wire.pid = hToggle
    /\ wire.len = BodyLen(wire.body)
    /\ Right(wire.body, hCount)

\* The order of the writes of usbProcessRx and usbBuildTxBlock.
BuildInv ==
  /\ pc \in {"abortTx", "setup"} => usbTxBuf.pid = USBPID_DATA0
  /\ pc = "setup" => usbTxLen = USBPID_NAK
  /\ pc = "toggle" => usbMsgLen # USB_NO_MSG

\* The message of the driver is the reply to the host's request.
Serving ==
  /\ Attached
  /\ hStage \in ReceivesStages \/ (hStage = "setup" /\ wire = Handshake(USBPID_ACK))
  /\ usbRxLen = 0 \/ pc = "release"

Filled  == pc = "arm" \/ usbTxLen # USBPID_NAK
Sent    == IF DeviceSentData THEN hCount + wire.len ELSE hCount
NextPid == IF DeviceSentData THEN OtherToggle(hToggle) ELSE hToggle
NextPos == IF Filled THEN Sent + BodyLen(usbTxBuf.body) ELSE Sent

\* Nothing read of the next packet yet, only its length set, or all of it read.
Waiting ==
  /\ usbTxBuf.pid = OtherToggle(NextPid)
  /\ \/ usbMsgLen = Total - Sent
     \/ usbMsgLen = USB_NO_MSG /\ DeviceSentData /\ wire.len < 8

Reading ==
  /\ usbTxBuf.pid = NextPid
  /\ len = Min2(8, Total - Sent)
  /\ usbMsgLen = Total - Sent - len

Built ==
  /\ usbTxBuf.pid = NextPid
  /\ Right(usbTxBuf.body, Sent)
  /\ usbMsgLen = IF BodyLen(usbTxBuf.body) < 8 THEN USB_NO_MSG ELSE Total - Sent - 8

FromSource ==
  IF hReq.type # "standard" THEN usbMsgFlags = "USER_RW"
  ELSE /\ usbMsgFlags # "USER_RW"
       /\ usbMsgPtr.src = WantedSrc(hReq)
       /\ usbMsgPtr.src \in Descriptors => usbMsgPtr.pos = NextPos

ServingInv ==
  Serving =>
    /\ ~Filled /\ pc # "read" => Waiting
    /\ pc = "read" => Reading
    /\ Filled => Built
    /\ Total > 0 => FromSource

ReplyInv == RecvInv /\ KeptInv /\ WireRight /\ BuildInv /\ ServingInv

-----------------------------------------------------------------------------
LEMMA WordNat ==
  /\ Word \subseteq Nat
  /\ \A x \in 0..254 : x % 256 = x
<1>1. Word \subseteq Nat
  BY SMTT(60) DEF Word
<1>2. \A x \in 0..254 : x % 256 = x
  OBVIOUS
<1> QED
  BY <1>1, <1>2

LEMMA ReqLength == ASSUME NEW rq \in Requests PROVE rq.wLength \in Nat
<1>1. \A r \in RequestType : r.wLength \in Word
  BY DEF RequestType
<1> QED
  BY <1>1, RequestsAssumption, WordNat

\* A reply is as long as the host wants it, and a request without a data
\* stage has none.
LEMMA TotalLen ==
  ASSUME NEW rq \in Requests
  PROVE  /\ WantedLen(rq) \in 0..254 /\ WantedLen(rq) <= rq.wLength
         /\ ReplyLen(rq) = WantedLen(rq)
         /\ ~IsIn(rq) => WantedLen(rq) = 0
<1>1. rq.wLength \in Nat /\ rq.type \in {"standard", "vendor"} /\ rq.dir \in {"in", "out"}
  <2>1. \A r \in RequestType : /\ r.wLength \in Word /\ r.type \in {"standard", "vendor"}
                               /\ r.dir \in {"in", "out"}
    BY DEF RequestType
  <2> QED
    BY <2>1, RequestsAssumption, WordNat
<1>2. USB_NO_MSG = 255
  BY DEF USB_NO_MSG, USB_CFG_LONG_TRANSFERS
<1>3. ~IsIn(rq) => rq.wLength = 0
  <2>1. rq.dir = "out" => rq.wLength = 0
    BY ServedAssumption
  <2> QED
    BY <1>1, <2>1 DEF IsIn
<1>4. CASE rq.type = "vendor"
  <2>1. rq.dir = "in" /\ rq.bRequest = CUSTOM_REQ_TEMP /\ rq.wLength < 255
    BY <1>2, <1>4, ServedAssumption
  <2>2. SetupLen(rq) = USB_NO_MSG
    BY <1>4, <2>1 DEF SetupLen, usbFunctionSetup
  <2>3. ReplyLen(rq) = rq.wLength % 256
    BY <2>1, <2>2 DEF ReplyLen
  <2>4. rq.wLength \in 0..254 /\ ReplyLen(rq) = rq.wLength
    BY <1>1, <2>1, <2>3, WordNat
  <2>5. WantedLen(rq) = rq.wLength
    BY <1>4 DEF WantedLen, IsStandard
  <2> QED
    BY <1>3, <2>4, <2>5
<1>5. CASE rq.type = "standard"
  <2> USE DEF USBRQ_GET_DESCRIPTOR, USBRQ_GET_STATUS, USBRQ_GET_CONFIGURATION,
              USBRQ_GET_INTERFACE
  <2>1. SetupLen(rq) = DriverSetupLen(rq)
    BY <1>5 DEF SetupLen
  <2>2. SetupLen(rq) \in 0..18 /\ WantedLen(rq) = Min2(rq.wLength, SetupLen(rq))
    <3>1. CASE rq.bRequest = 6
      <4>1. DescriptorFor(rq) \in Descriptors \cup {"none"}
        BY DEF DescriptorFor, Descriptors
      <4>2. DescriptorLen[DescriptorFor(rq)] \in 0..18
        BY <4>1 DEF DescriptorLen, Descriptors, StringLen, USB_CFG_VENDOR_NAME_LEN,
           USB_CFG_DEVICE_NAME_LEN
      <4>3. SetupLen(rq) = DescriptorLen[DescriptorFor(rq)]
        BY <2>1, <3>1 DEF DriverSetupLen
      <4>4. WantedSrc(rq) = DescriptorFor(rq)
        BY <1>5, <3>1 DEF WantedSrc, IsStandard
      <4>5. WantedLen(rq) = Min2(rq.wLength, DescriptorLen[WantedSrc(rq)])
        BY <1>5, <3>1 DEF WantedLen, IsStandard
      <4> QED
        BY <4>2, <4>3, <4>4, <4>5
    <3>2. CASE rq.bRequest = 0
      BY <1>5, <2>1, <3>2 DEF DriverSetupLen, WantedLen, IsStandard
    <3>3. CASE rq.bRequest \in {8, 10}
      BY <1>5, <2>1, <3>3 DEF DriverSetupLen, WantedLen, IsStandard
    <3>4. CASE rq.bRequest \notin {0, 6, 8, 10}
      <4>1. SetupLen(rq) = 0
        BY <2>1, <3>4 DEF DriverSetupLen
      <4>2. WantedLen(rq) = 0
        BY <1>5, <3>4 DEF WantedLen, IsStandard
      <4> QED
        BY <1>1, <4>1, <4>2 DEF Min2
    <3> QED
      BY <3>1, <3>2, <3>3, <3>4
  <2>3. WantedLen(rq) \in 0..18 /\ WantedLen(rq) <= rq.wLength
    BY <1>1, <2>2 DEF Min2
  <2>4. ReplyLen(rq) = WantedLen(rq)
    BY <1>1, <1>2, <2>2 DEF ReplyLen, Min2
  <2> QED
    BY <1>1, <1>3, <2>3, <2>4
<1> QED
  BY <1>1, <1>4, <1>5

\* The next packet is the other one of the two, and a packet has 8 bytes at most.
LEMMA Toggles ==
  ASSUME NEW pid \in DataPids
  PROVE  /\ OtherToggle(pid) \in DataPids /\ OtherToggle(OtherToggle(pid)) = pid
         /\ ToggledPid(pid) = OtherToggle(pid)
BY DEF OtherToggle, ToggledPid, DataPids, USBPID_DATA0, USBPID_DATA1

LEMMA BodyLens ==
  ASSUME NEW b \in Payloads \cup {NoBody}
  PROVE  BodyLen(b) \in 0..8 /\ (BodyLen(b) = 0 <=> b = NoBody)
BY NoBodyAssumption DEF BodyLen, Payloads

\* A data packet of the device that is on the wire.
LEMMA SentPacket ==
  ASSUME HostInv, DeviceSentData
  PROVE  /\ wire.pid \in DataPids /\ wire.len \in 0..8 /\ wire.body \in Payloads \cup {NoBody}
         /\ hPhase = "reply" /\ hStage \in ReceivesStages
         /\ wire # Handshake(USBPID_ACK)
<1> USE DEF HostInv
<1>1. wire \in WirePackets /\ wire.from = "device" /\ wire.pid \in DataPids
  BY DEF IInv, TypeOK, BusTypes, DeviceSentData
<1>2. wire \notin HostPackets
  BY <1>1, PacketFields DEF HostPackets
<1>3. wire \notin {Silence, HostAck, Handshake(USBPID_ACK), Handshake(USBPID_NAK)}
  BY <1>1, PacketFields, PidValues
<1>4. wire.len \in 0..8 /\ wire.body \in Payloads \cup {NoBody}
  BY <1>1, <1>2, <1>3 DEF WirePackets, DevicePackets
<1>5. wire # StageData /\ \A a : wire # Token(StagePid, a)
  BY <1>1, PacketFields DEF StageData
<1>6. hPhase = "reply" /\ hStage \notin SendsStages
  BY <1>3, <1>5 DEF WireInv, HostTypes
<1> QED
  BY <1>1, <1>3, <1>4, <1>6 DEF WireInv, HostTypes, SendsStages, ReceivesStages

-----------------------------------------------------------------------------
\* What the host knows by itself, in the steps of everybody.
LEMMA RecvInvNext == HostInv /\ RecvInv /\ [SysNext]_sysVars => RecvInv'
<1> SUFFICES ASSUME HostInv, RecvInv, [SysNext]_sysVars PROVE RecvInv'
  OBVIOUS
<1> USE DEF RecvInv
<1>1. CASE Device \/ UNCHANGED sysVars
  <2>1. /\ UNCHANGED <<hStage, hRecv, hToggle, hCount, hReq, port, Attached>>
        /\ ~Attached => wire' = wire
    BY <1>1 DEF Device, hostVars, bootVars, Attached, sysVars, vars, busVars
  <2> QED
    BY <2>1
<1>2. CASE HostRuns /\ Host
  <2>1. /\ port' = port /\ Attached' = Attached /\ port # "noticed"
        /\ wire.from # "device" => wire'.from # "device"
    BY <1>2, PacketFields
       DEF HostRuns, Host, HostBegin, HostToken, HostData, HostAcked, HostRetry, HostDiscard,
           HostAcceptData, HostAcceptStatus, HostPuts, bootVars, vars, busVars, Attached
  <2>2. CASE HostBegin
    BY <2>1, <2>2 DEF HostBegin
  <2>3. CASE HostToken \/ HostData \/ HostRetry \/ HostDiscard
    <3>1. UNCHANGED <<hStage, hRecv, hToggle, hCount, hReq>>
      BY <2>3 DEF HostToken, HostData, HostRetry, HostDiscard
    <3> QED
      BY <2>1, <3>1
  <2>4. CASE HostAcked
    <3>1. hStage \in {"setup", "statusOut"} /\ UNCHANGED <<hRecv, hToggle, hCount, hReq>>
      BY <2>4, AckedSends DEF HostAcked, SendsStages
    <3>2. /\ hStage = "setup" => hStage' \in {"data", "statusIn"}
          /\ hStage = "setup" /\ hStage' = "data" => IsIn(hReq)
          /\ hStage = "statusOut" => hStage' = "done"
      BY <2>4, <3>1 DEF HostAcked
    <3>3. IsIn(hReq) => 0 < hReq.wLength
      BY DEF IsIn
    <3> QED
      BY <2>1, <3>1, <3>2, <3>3
  <2>5. CASE HostAcceptData
    <3>1. /\ hStage = "data" /\ hStage' \in {"data", "statusOut"} /\ hReq' = hReq
          /\ hStage' = "data" => ~EndsData(wire.len)
          /\ hRecv' = Append(hRecv, wire.body) /\ hCount' = hCount + wire.len
      BY <2>5 DEF HostAcceptData
    <3>2. wire.len \in 0..8 /\ hRecv \in Seq(Payloads \cup {NoBody}) /\ hCount \in Nat
          /\ wire.body \in Payloads \cup {NoBody}
      BY <2>5, SentPacket DEF HostAcceptData, HostInv, HostTypes
    <3>3. Len(hRecv') = Len(hRecv) + 1 /\ hRecv' # <<>> /\ Len(hRecv) \in Nat
      BY <3>1, <3>2
    <3>4. ~EndsData(wire.len) =>
            hCount' = 8 * Len(hRecv') /\ ~(hCount' >= hReq.wLength)
      BY <3>1, <3>2, <3>3 DEF EndsData
    <3>5. hReq.wLength \in Nat
      BY <3>1, ReqLength DEF HostInv, HostTypes
    <3> QED
      BY <2>1, <3>1, <3>2, <3>3, <3>4, <3>5
  <2>6. CASE HostAcceptStatus
    <3>1. /\ hStage = "statusIn" /\ hStage' = "done" /\ hToggle' = hToggle
          /\ hRecv' = IF wire.len = 0 THEN hRecv ELSE Append(hRecv, wire.body)
          /\ hCount' = hCount + wire.len
      BY <2>6 DEF HostAcceptStatus
    <3>2. hRecv = <<>> /\ Append(hRecv, wire.body) # <<>>
      <4>1. hRecv = <<>>
        BY <3>1
      <4>2. Len(Append(hRecv, wire.body)) = 1
        BY <4>1
      <4> QED
        BY <4>1, <4>2
    <3>3. hCount \in Nat
      BY DEF HostInv, HostTypes
    <3> QED
      BY <2>1, <3>1, <3>2, <3>3
  <2> QED
    BY <1>2, <2>2, <2>3, <2>4, <2>5, <2>6 DEF Host
<1>3. CASE HostRuns /\ HostGivesUp
  <2>1. /\ UNCHANGED <<port, Attached, hRecv>> /\ hStage' = "idle"
        /\ wire' \in {Silence, wire}
    BY <1>3
       DEF HostRuns, HostGivesUp, HostAbandon, HostReset, HostResetEnd, bootVars, vars, busVars,
           hostVars, Attached, HostInv, LineInv
  <2> QED
    BY <2>1, PacketFields
<1>4. CASE Lose \/ Restart
  <2>1. /\ UNCHANGED <<hStage, hRecv, hToggle, hCount, hReq>> /\ wire' = Silence
        /\ port' = "noticed" => port = "noticed"
    BY <1>4 DEF Lose, Restart, HostPuts, hostVars, bootVars, Disconnected
  <2> QED
    BY <2>1, PacketFields
<1>5. CASE Notice
  BY <1>5, PacketFields DEF Notice
<1>6. CASE Connect
  BY <1>6 DEF Connect, Attached, vars, busVars, hostVars
<1> QED
  BY <1>1, <1>2, <1>3, <1>4, <1>5, <1>6 DEF SysNext, HostRuns

-----------------------------------------------------------------------------
\* What a piece of the reply depends on.
LEMMA SameRight ==
  ASSUME UNCHANGED <<hReq, hSince, usbConfiguration>>
  PROVE  \A b, at : Right(b, at)' <=> Right(b, at)
BY DEF Right, Total

LEMMA SameWireRight ==
  ASSUME WireRight, UNCHANGED <<hReq, hSince, usbConfiguration, wire, hToggle, hCount, Attached>>
  PROVE  WireRight'
BY SameRight DEF WireRight, DeviceSentData

\* And what is known of the packets still to be sent.
LEMMA SameServing ==
  ASSUME ServingInv, Serving' => Serving,
         UNCHANGED <<usbTxLen, usbTxBuf, usbMsgLen, usbMsgFlags, usbMsgPtr, len>>,
         pc' = pc \/ {pc, pc'} \cap {"read", "arm"} = {},
         UNCHANGED <<hReq, hSince, usbConfiguration, Sent, NextPid>>,
         DeviceSentData /\ wire.len < 8 => DeviceSentData' /\ wire'.len < 8
  PROVE  ServingInv'
<1> SUFFICES ASSUME Serving, Serving'
             PROVE  (/\ ~Filled /\ pc # "read" => Waiting
                     /\ pc = "read" => Reading
                     /\ Filled => Built
                     /\ Total > 0 => FromSource)'
  BY DEF ServingInv
<1>1. Total' = Total /\ Filled' = Filled /\ (pc' = "read" <=> pc = "read")
  BY DEF Total, Filled
<1>2. NextPos' = NextPos
  BY <1>1 DEF NextPos
<1>3. Waiting => Waiting'
  BY <1>1 DEF Waiting
<1>4. Reading => Reading'
  BY <1>1 DEF Reading
<1>5. Built => Built'
  BY <1>1, SameRight DEF Built
<1>6. FromSource => FromSource'
  BY <1>2 DEF FromSource
<1> QED
  BY <1>1, <1>3, <1>4, <1>5, <1>6 DEF ServingInv

\* The reply is never read beyond its end.
LEMMA ServingBounds ==
  ASSUME HostInv, RecvInv, KeptInv, WireRight, Serving
  PROVE  /\ hReq \in Requests /\ Total \in 0..254
         /\ hCount \in 0..Total /\ Sent \in 0..Total
         /\ NextPid \in DataPids /\ hToggle \in DataPids
<1>1. hStage \in {"setup", "data", "statusIn"} /\ Attached
  BY DEF Serving, ReceivesStages
<1>2. hReq \in Requests /\ hToggle \in DataPids /\ hCount \in Nat
  BY <1>1 DEF HostInv, HostTypes
<1>3. Total \in 0..254
  BY <1>2, TotalLen DEF Total
<1>4. hCount \in 0..Total
  <2>1. hStage \in {"setup", "statusIn"} => hCount = 0
    BY <1>1 DEF RecvInv
  <2>2. hStage = "data" => hCount <= Total
    BY <1>1 DEF KeptInv
  <2> QED
    BY <1>1, <1>2, <1>3, <2>1, <2>2
<1>5. Sent \in 0..Total
  <2>1. CASE DeviceSentData
    <3>1. wire.len = Min2(8, Total - hCount)
      BY <1>1, <2>1 DEF WireRight, Right
    <3> QED
      BY <1>3, <1>4, <2>1, <3>1 DEF Min2, Sent
  <2>2. CASE ~DeviceSentData
    BY <1>4, <2>2 DEF Sent
  <2> QED
    BY <2>1, <2>2
<1>6. NextPid \in DataPids
  BY <1>2, Toggles DEF NextPid
<1> QED
  BY <1>2, <1>3, <1>4, <1>5, <1>6

-----------------------------------------------------------------------------
\* The interrupt: it sends what was built, or leaves it alone.
LEMMA IsrTx ==
  ASSUME IInv, Isr
  PROVE  /\ UNCHANGED <<usbMsgLen, usbMsgFlags, usbMsgPtr, pc, len, sample>>
         /\ \/ HandleInSend
            \/ UNCHANGED <<usbTxLen, usbTxBuf>> /\ ~DeviceSentData'
<1>1. UNCHANGED <<usbMsgLen, usbMsgFlags, usbMsgPtr, pc, len, sample>>
  BY DEF Isr, HandleDataIgnored, HandleDataBusy, HandleDataStatus, HandleDataStore, HandleInBusy,
     HandleInSend, HandleSetupOrOut, IgnorePacket, msgVars, mainVars
<1>2. CASE HandleInSend
  BY <1>1, <1>2
<1>3. CASE HandleInBusy
  <2>1. usbTxLen \in {USBPID_NAK} \cup 4..12 /\ usbRxLen \in 0..11
    BY DEF IInv, TypeOK, TxTypes, RxTypes
  <2>2. IsHandshake(usbTxLen) => usbTxLen = USBPID_NAK
    BY <2>1, HandshakeOrLength
  <2>3. wire' = Handshake(USBPID_NAK)
    BY <1>3, <2>1, <2>2 DEF HandleInBusy, Sends, Reply
  <2> QED
    BY <1>1, <1>3, <2>3, HandshakePids DEF HandleInBusy, txVars, DeviceSentData
<1>4. CASE ~HandleInSend /\ ~HandleInBusy
  <2>1. UNCHANGED <<usbTxLen, usbTxBuf>>
          /\ wire' \in {Silence, Handshake(USBPID_ACK), Handshake(USBPID_NAK)}
    BY <1>4
       DEF Isr, HandleDataIgnored, HandleDataBusy, HandleDataStatus, HandleDataStore,
           HandleSetupOrOut, IgnorePacket, txVars, Reply
  <2> QED
    BY <1>1, <2>1, HandshakePids DEF DeviceSentData
<1> QED
  BY <1>2, <1>3, <1>4

LEMMA IsrReplyInv ==
  ASSUME HostInv, RequestInv, ReplyInv, Attached, Isr, UNCHANGED <<hostVars, lost, bootVars>>
  PROVE  KeptInv' /\ WireRight' /\ BuildInv' /\ ServingInv'
<1> USE DEF ReplyInv
<1>1. /\ wire.from = "host" /\ ~DeviceSentData
      /\ UNCHANGED <<usbConfiguration, pc>>
      /\ Drops \/ Refuses \/ Acknowledges \/ Answers
  BY IsrEffect DEF HostInv, DeviceSentData
<1>2. /\ UNCHANGED <<hStage, hPhase, hReq, hSince, hToggle, hRecv, hCount>> /\ Attached'
      /\ UNCHANGED <<usbMsgLen, usbMsgFlags, usbMsgPtr, len, sample>>
      /\ HandleInSend \/ (UNCHANGED <<usbTxLen, usbTxBuf>> /\ ~DeviceSentData')
  BY IsrTx DEF HostInv, hostVars, bootVars, Attached
<1>3. \/ UNCHANGED usbRxLen /\ wire' # Handshake(USBPID_ACK)
      \/ UNCHANGED usbRxLen /\ hStage = "statusOut"
      \/ usbRxLen' = 11 /\ hStage = "setup" /\ usbRxLen = 0
  <2>1. CASE Acknowledges
    BY <1>1, <2>1, StoredPacket DEF RequestInv, SendsStages, SameRx, Acknowledges
  <2>2. CASE ~Acknowledges
    BY <1>1, <2>2, HandshakePids DEF Drops, Refuses, Answers, SameRx, DeviceSentData
  <2> QED
    BY <2>1, <2>2
<1>4. KeptInv'
  <2>1. \A i \in 1..Len(hRecv) : Right(hRecv[i], 8 * (i - 1)) => Right(hRecv[i], 8 * (i - 1))'
    BY <1>1, <1>2 DEF Right, Total
  <2>2. hRecv # <<>> => usbRxLen' = 0
    BY <1>2, <1>3 DEF KeptInv, RecvInv
  <2>3. Total' = Total
    BY <1>2 DEF Total
  <2> QED
    BY <1>2, <2>1, <2>2, <2>3 DEF KeptInv
<1>5. BuildInv'
  <2>1. CASE HandleInSend
    BY <1>1, <1>2, <2>1 DEF BuildInv, HandleInSend
  <2> QED
    BY <1>1, <1>2, <2>1 DEF BuildInv
<1>6. CASE HandleInSend
  <2>1. /\ Serving /\ Sends /\ hStage \in ReceivesStages
        /\ wire' = Packet("device", usbTxBuf.pid, 0, usbTxLen - 4, usbTxBuf.body)
        /\ usbTxLen' = USBPID_NAK /\ usbTxBuf' = usbTxBuf /\ usbRxLen' = usbRxLen /\ usbRxLen = 0
    <3>1. wire.pid = USBPID_IN /\ usbRxLen \in 0..11
      BY <1>6, <1>1 DEF HandleInSend, Receive, HostInv, IInv, TypeOK, RxTypes
    <3> QED
      BY <1>1, <1>6, <3>1, HeardPacket DEF HandleInSend, Reply, Sends, Serving
  <2>2. /\ usbTxLen # USBPID_NAK /\ usbTxLen = 4 + BodyLen(usbTxBuf.body)
        /\ pc \notin {"read", "arm"} /\ BodyLen(usbTxBuf.body) \in 0..8
    <3>1. usbTxLen # USBPID_NAK
      BY <2>1 DEF Sends, IsHandshake, USBPID_NAK
    <3>2. usbTxBuf.body \in Payloads \cup {NoBody}
      BY DEF HostInv, IInv, TypeOK, TxTypes
    <3> QED
      BY <3>1, <3>2, BodyLens DEF HostInv, IInv, DeviceInv, TxHeld
  <2>3. Filled /\ Built /\ Sent = hCount /\ NextPid = hToggle
    BY <1>1, <2>1, <2>2 DEF Filled, ServingInv, Sent, NextPid
  <2>4. /\ wire'.pid = hToggle /\ wire'.len = BodyLen(usbTxBuf.body) /\ wire'.body = usbTxBuf.body
        /\ DeviceSentData'
    <3>1. hToggle \in DataPids
      BY DEF HostInv, HostTypes
    <3> QED
      BY <2>1, <2>2, <2>3, <3>1 DEF Packet, Built, DeviceSentData
  <2>5. Right(wire.body, hCount)'
    BY <1>1, <1>2, <2>3, <2>4 DEF Built, Right, Total
  <2>6. WireRight'
    BY <1>2, <2>4, <2>5 DEF WireRight
  <2>7. Sent' = hCount + BodyLen(usbTxBuf.body) /\ NextPid' = OtherToggle(hToggle)
          /\ Total' = Total /\ ~Filled' /\ pc' # "read"
    BY <1>1, <1>2, <2>1, <2>2, <2>4 DEF Sent, NextPid, Total, Filled
  <2>8. Waiting'
    <3>1. usbTxBuf'.pid = OtherToggle(NextPid)'
      BY <2>1, <2>3, <2>7, Toggles DEF Built, HostInv, HostTypes
    <3>2. BodyLen(usbTxBuf.body) < 8 => usbMsgLen' = USB_NO_MSG /\ wire'.len < 8
      BY <1>2, <2>3, <2>4 DEF Built
    <3>3. ~(BodyLen(usbTxBuf.body) < 8) => usbMsgLen' = Total - Sent'
      <4>1. Total \in 0..254 /\ hCount \in 0..Total
        BY <2>1, ServingBounds
      <4> QED
        BY <1>2, <2>2, <2>3, <2>7, <4>1 DEF Built
    <3> QED
      BY <2>4, <2>7, <3>1, <3>2, <3>3 DEF Waiting
  <2>9. NextPos' = NextPos
    BY <2>1, <2>3, <2>7 DEF NextPos
  <2>10. Total > 0 => FromSource'
    BY <1>2, <2>1, <2>9 DEF ServingInv, FromSource
  <2> QED
    BY <1>4, <1>5, <2>6, <2>7, <2>8, <2>10 DEF ServingInv
<1>7. CASE UNCHANGED <<usbTxLen, usbTxBuf>> /\ ~DeviceSentData'
  <2>1. WireRight'
    BY <1>7 DEF WireRight
  <2>2. Sent' = Sent /\ NextPid' = NextPid
    BY <1>1, <1>2, <1>7 DEF Sent, NextPid
  <2>3. Serving' => Serving
    <3>1. pc = "release" => usbRxLen # 0
      BY DEF HostInv, IInv, DeviceInv, RxHeld
    <3> QED
      BY <1>1, <1>2, <1>3, <3>1 DEF Serving, ReceivesStages
  <2>4. ServingInv'
    BY <1>1, <1>2, <1>7, <2>2, <2>3, SameServing
  <2> QED
    BY <1>4, <1>5, <2>1, <2>4
<1> QED
  BY <1>2, <1>6, <1>7

-----------------------------------------------------------------------------
\* The main loop.  usbProcessRx sets the message to what is asked for.
LEMMA SourceOf ==
  ASSUME NEW rq \in Requests, WantedLen(rq) > 0
  PROVE  /\ rq.type # "standard" => SetupLen(rq) = USB_NO_MSG
         /\ rq.type = "standard" =>
              /\ SetupLen(rq) # USB_NO_MSG
              /\ GetsDescriptor(rq) =>
                   DescriptorFor(rq) # "none" /\ WantedSrc(rq) = DescriptorFor(rq)
              /\ ~GetsDescriptor(rq) =>
                   WantedSrc(rq) = DriverSetupSrc(rq) /\ WantedSrc(rq) \notin Descriptors
<1>1. rq.type \in {"standard", "vendor"} /\ rq.wLength \in Nat
  <2>1. \A r \in RequestType : r.type \in {"standard", "vendor"}
    BY DEF RequestType
  <2> QED
    BY <2>1, RequestsAssumption, ReqLength
<1>2. CASE rq.type # "standard"
  <2>1. rq.bRequest = CUSTOM_REQ_TEMP
    BY <1>1, <1>2, ServedAssumption
  <2> QED
    BY <1>2, <2>1 DEF SetupLen, usbFunctionSetup
<1>3. CASE rq.type = "standard"
  <2> USE DEF USBRQ_GET_DESCRIPTOR, USBRQ_GET_STATUS, USBRQ_GET_CONFIGURATION,
              USBRQ_GET_INTERFACE
  <2>1. SetupLen(rq) # USB_NO_MSG
    <3>1. DescriptorFor(rq) \in Descriptors \cup {"none"}
      BY DEF DescriptorFor, Descriptors
    <3>2. DescriptorLen[DescriptorFor(rq)] \in 0..18
      BY <3>1 DEF DescriptorLen, Descriptors, StringLen, USB_CFG_VENDOR_NAME_LEN,
         USB_CFG_DEVICE_NAME_LEN
    <3>3. SetupLen(rq) \in 0..18
      BY <1>3, <3>2 DEF SetupLen, DriverSetupLen
    <3> QED
      BY <3>3 DEF USB_NO_MSG, USB_CFG_LONG_TRANSFERS
  <2>2. CASE rq.bRequest = 6
    <3>1. WantedSrc(rq) = DescriptorFor(rq) /\ GetsDescriptor(rq)
      BY <1>3, <2>2 DEF WantedSrc, IsStandard, GetsDescriptor
    <3>2. WantedLen(rq) = Min2(rq.wLength, DescriptorLen[DescriptorFor(rq)])
      BY <1>3, <2>2, <3>1 DEF WantedLen, IsStandard
    <3>3. DescriptorLen["none"] = 0
      BY DEF DescriptorLen, Descriptors
    <3> QED
      BY <1>1, <1>3, <2>1, <3>1, <3>2, <3>3 DEF Min2
  <2>3. CASE rq.bRequest # 6
    <3>1. ~GetsDescriptor(rq)
      BY <2>3 DEF GetsDescriptor, IsStandard
    <3>2. rq.bRequest \in {0, 8, 10}
      BY <1>3, <2>3 DEF WantedLen, IsStandard
    <3>3. WantedSrc(rq) = DriverSetupSrc(rq) /\ WantedSrc(rq) \in {"usbConfiguration", "zero"}
      BY <1>3, <3>2 DEF WantedSrc, IsStandard, DriverSetupSrc
    <3> QED
      BY <1>3, <2>1, <3>1, <3>3 DEF Descriptors
  <2> QED
    BY <2>2, <2>3
<1> QED
  BY <1>2, <1>3

\* What the main loop leaves alone.
LEMMA MainFrame ==
  ASSUME HostInv, RequestInv, Attached, Main, UNCHANGED <<hostVars, lost, bootVars>>
  PROVE  /\ UNCHANGED <<wire, hStage, hReq, hToggle, hRecv, hCount, hSince, Attached>>
         /\ DeviceSentData' = DeviceSentData
         /\ ~PollOther
         /\ sample' >= sample
         /\ Setup \/ UNCHANGED usbConfiguration
         /\ usbRxLen' = usbRxLen \/ (Release /\ usbRxLen' = 0)
<1>1. ~PollOther
  BY DEF PollOther, RequestInv, RxSetup, HostInv, IInv, TypeOK, RxTypes
<1>2. sample \in Nat
  BY SampleAssumption DEF HostInv, IInv, TypeOK, MainTypes
<1>3. wire' = wire
  BY MainEffect DEF HostInv, RequestInv
<1>4. sample' >= sample
  BY <1>2
     DEF Main, usbPoll, MeasureTemp, PollSetup, PollOther, PollNothing, InitToggle, AbortTx, Setup,
         Release, TxCheck, Toggle, ReadBlock, Arm, LineCheck
<1>5. /\ Setup \/ UNCHANGED usbConfiguration
      /\ usbRxLen' = usbRxLen \/ (Release /\ usbRxLen' = 0)
  BY DEF Main, usbPoll, MeasureTemp, PollSetup, PollOther, PollNothing, InitToggle, AbortTx, Setup,
         Release, TxCheck, Toggle, ReadBlock, Arm, LineCheck, rxVars
<1> QED
  BY <1>1, <1>3, <1>4, <1>5 DEF hostVars, bootVars, Attached, DeviceSentData

LEMMA MainKept ==
  ASSUME HostInv, RequestInv, ReplyInv, Attached, Main, UNCHANGED <<hostVars, lost, bootVars>>
  PROVE  KeptInv' /\ WireRight'
<1> USE DEF ReplyInv
<1>1. /\ UNCHANGED <<wire, hStage, hReq, hToggle, hRecv, hCount, hSince, Attached>>
      /\ DeviceSentData' = DeviceSentData
      /\ sample' >= sample
      /\ Setup \/ UNCHANGED usbConfiguration
      /\ usbRxLen' = usbRxLen \/ usbRxLen' = 0
  BY MainFrame
<1>2. Total' = Total
  BY <1>1 DEF Total
<1>3. hStage # "idle" => hSince <= sample'
  <2>1. sample \in Nat /\ sample' \in Nat /\ hSince \in Nat
    <3>1. IInv'
      BY DeviceIInv DEF HostInv
    <3> QED
      BY <3>1, SampleAssumption DEF HostInv, HostTypes, IInv, TypeOK, MainTypes
  <2> QED
    BY <1>1, <2>1 DEF KeptInv
<1>4. CASE Setup
  <2>1. usbRxLen = 11
    BY <1>4 DEF HostInv, IInv, DeviceInv, RxHeld, Setup, At
  <2>2. hRecv = <<>> /\ ~DeviceSentData
    BY <2>1 DEF KeptInv, RequestInv, AnsweredInv
  <2> QED
    BY <1>1, <1>2, <1>3, <2>2 DEF KeptInv, WireRight
<1>5. CASE UNCHANGED usbConfiguration
  <2>1. \A i \in 1..Len(hRecv) : Right(hRecv[i], 8 * (i - 1)) => Right(hRecv[i], 8 * (i - 1))'
    BY <1>1, <1>2, <1>5 DEF Right
  <2>2. KeptInv'
    BY <1>1, <1>2, <1>3, <2>1 DEF KeptInv
  <2>3. WireRight'
    BY <1>1, <1>5, SameWireRight
  <2> QED
    BY <2>2, <2>3
<1> QED
  BY <1>1, <1>4, <1>5

LEMMA MainBuildInv ==
  ASSUME IInv, BuildInv, Main
  PROVE  BuildInv'
<1> USE DEF BuildInv
<1>1. usbTxBuf \in [pid : {0} \cup DataPids, body : Payloads \cup {NoBody}]
  BY DEF IInv, TypeOK, TxTypes
<1>2. CASE InitToggle
  BY <1>1, <1>2 DEF InitToggle, At, InitialPid
<1>3. CASE AbortTx
  BY <1>3 DEF AbortTx, At, TxAborted
<1>4. CASE TxCheck
  BY <1>4 DEF TxCheck, MustBuild, msgVars
<1>5. CASE MeasureTemp \/ PollSetup \/ PollOther \/ PollNothing \/ Setup \/ Release
             \/ Toggle \/ ReadBlock \/ Arm \/ LineCheck
  <2>1. pc' \notin {"abortTx", "setup", "toggle"}
    BY <1>5 DEF MeasureTemp, PollSetup, PollOther, PollNothing, Setup, Release, Toggle, ReadBlock,
       Arm, LineCheck, At
  <2> QED
    BY <2>1
<1> QED
  BY <1>2, <1>3, <1>4, <1>5 DEF Main, usbPoll

\* Looking at the packet or at the lines, and giving the packet back.
LEMMA PollServing ==
  ASSUME HostInv, RequestInv, ReplyInv, Attached, UNCHANGED <<hostVars, lost, bootVars>>,
         MeasureTemp \/ PollSetup \/ PollNothing \/ InitToggle \/ AbortTx \/ Release
           \/ TxCheck \/ LineCheck
  PROVE  ServingInv'
<1> USE DEF ReplyInv
<1>1. Main
  BY DEF Main, usbPoll
<1>2. /\ UNCHANGED <<wire, hStage, hReq, hToggle, hRecv, hCount, hSince, Attached>>
      /\ DeviceSentData' = DeviceSentData
      /\ usbRxLen' = usbRxLen \/ (Release /\ usbRxLen' = 0)
  BY <1>1, MainFrame
<1>3. CASE InitToggle \/ AbortTx
  <2>1. usbRxLen = 11 /\ usbRxLen' = usbRxLen /\ pc' # "release"
    BY <1>3 DEF InitToggle, AbortTx, At, rxVars, HostInv, IInv, DeviceInv, RxHeld
  <2> QED
    BY <2>1 DEF ServingInv, Serving
<1>4. CASE MeasureTemp \/ PollSetup \/ PollNothing \/ Release \/ TxCheck \/ LineCheck
  <2>1. /\ UNCHANGED <<usbTxLen, usbTxBuf, usbMsgLen, usbMsgFlags, usbMsgPtr, len, usbConfiguration>>
        /\ {pc, pc'} \cap {"read", "arm"} = {}
        /\ pc' # "release"
    BY <1>4 DEF MeasureTemp, PollSetup, PollNothing, Release, TxCheck, LineCheck, At, txVars, msgVars
  <2>2. Sent' = Sent /\ NextPid' = NextPid
    BY <1>2 DEF Sent, NextPid
  <2>3. Serving' => Serving
    BY <1>2, <2>1 DEF Serving, Release, At
  <2> QED
    BY <1>2, <2>1, <2>2, <2>3, SameServing
<1> QED
  BY <1>3, <1>4

LEMMA SetupServing ==
  ASSUME HostInv, RequestInv, ReplyInv, Attached, Setup, UNCHANGED <<hostVars, lost, bootVars>>
  PROVE  ServingInv'
<1> USE DEF ReplyInv
<1> SUFFICES ASSUME Serving'
             PROVE  (/\ ~Filled /\ pc # "read" => Waiting
                     /\ pc = "read" => Reading
                     /\ Filled => Built
                     /\ Total > 0 => FromSource)'
  BY DEF ServingInv
<1>1. /\ UNCHANGED <<wire, hStage, hReq, hToggle, hRecv, hCount, hSince, Attached>>
      /\ DeviceSentData' = DeviceSentData
  BY MainFrame DEF Main, usbPoll
<1>2. /\ pc = "setup" /\ pc' = "release" /\ usbRxLen = 11
      /\ usbTxLen' = USBPID_NAK /\ usbTxBuf'.pid = USBPID_DATA0
  BY DEF Setup, At, HostInv, IInv, DeviceInv, RxHeld, BuildInv, txVars
<1>3. /\ hRecv = <<>> /\ ~DeviceSentData
      /\ hStage \in ReceivesStages \/ (hStage = "setup" /\ wire = Handshake(USBPID_ACK))
  BY <1>1, <1>2 DEF KeptInv, RequestInv, AnsweredInv, Serving
<1>4. /\ hStage # "idle" /\ hToggle = USBPID_DATA1 /\ hCount = 0
      /\ hReq \in Requests /\ RxPacket.body = hReq
  BY <1>2, <1>3 DEF ReceivesStages, RecvInv, HostInv, HostTypes, RequestInv, TakenInv, RequestTaken
<1>5. /\ Sent' = 0 /\ NextPid' = USBPID_DATA1 /\ ~Filled' /\ NextPos' = 0
      /\ Total' = Total
  BY <1>1, <1>2, <1>3, <1>4 DEF Sent, NextPid, Filled, NextPos, Total
<1>6. usbMsgLen' = Total /\ Total \in 0..254
  BY <1>4, TotalLen DEF Setup, Total
<1>7. Waiting'
  BY <1>2, <1>5, <1>6 DEF Waiting, OtherToggle, USBPID_DATA0, USBPID_DATA1
<1>8. Total > 0 => FromSource'
  <2> SUFFICES ASSUME Total > 0 PROVE FromSource'
    OBVIOUS
  <2>1. /\ hReq.type # "standard" => SetupLen(hReq) = USB_NO_MSG
        /\ hReq.type = "standard" =>
             /\ SetupLen(hReq) # USB_NO_MSG
             /\ GetsDescriptor(hReq) =>
                  DescriptorFor(hReq) # "none" /\ WantedSrc(hReq) = DescriptorFor(hReq)
             /\ ~GetsDescriptor(hReq) =>
                  WantedSrc(hReq) = DriverSetupSrc(hReq) /\ WantedSrc(hReq) \notin Descriptors
    BY <1>4, SourceOf DEF Total
  <2>2. CASE hReq.type # "standard"
    <3>1. usbMsgFlags' = "USER_RW"
      BY <1>4, <2>1, <2>2 DEF Setup, GetsDescriptor, IsStandard
    <3> QED
      BY <1>1, <2>2, <3>1 DEF FromSource
  <2>3. CASE hReq.type = "standard"
    <3>1. usbMsgFlags' # "USER_RW"
      BY <1>4, <2>1, <2>3 DEF Setup
    <3>2. usbMsgPtr' = [src |-> WantedSrc(hReq), pos |-> 0]
      BY <1>4, <2>1, <2>3 DEF Setup
    <3> QED
      BY <1>1, <1>5, <2>3, <3>1, <3>2 DEF FromSource
  <2> QED
    BY <2>2, <2>3
<1> QED
  BY <1>2, <1>5, <1>7, <1>8

LEMMA ToggleServing ==
  ASSUME HostInv, RequestInv, ReplyInv, Attached, Toggle, UNCHANGED <<hostVars, lost, bootVars>>
  PROVE  ServingInv'
<1> USE DEF ReplyInv
<1> SUFFICES ASSUME Serving' PROVE Reading' /\ pc' = "read" /\ ~Filled' /\ (Total > 0 => FromSource)'
  BY DEF ServingInv
<1>1. /\ UNCHANGED <<wire, hStage, hReq, hToggle, hRecv, hCount, hSince, Attached, usbRxLen>>
      /\ DeviceSentData' = DeviceSentData
  BY MainFrame DEF Main, usbPoll, Toggle, rxVars
<1>2. /\ pc = "toggle" /\ pc' = "read"
      /\ usbTxLen = USBPID_NAK /\ usbTxLen' = usbTxLen
      /\ UNCHANGED <<usbMsgFlags, usbMsgPtr>>
      /\ usbMsgLen # USB_NO_MSG
  BY DEF Toggle, At, HostInv, IInv, DeviceInv, TxHeld, BuildInv
<1>3. Serving
  BY <1>1, <1>2 DEF Serving
<1>4. ~Filled /\ ~Filled' /\ Sent' = Sent /\ NextPid' = NextPid /\ NextPos' = NextPos /\ Total' = Total
  BY <1>1, <1>2 DEF Filled, Sent, NextPid, NextPos, Total
<1>5. usbTxBuf.pid = OtherToggle(NextPid) /\ usbMsgLen = Total - Sent
  BY <1>2, <1>3, <1>4 DEF ServingInv, Waiting
<1>6. Total \in 0..254 /\ Sent \in 0..Total /\ NextPid \in DataPids
  BY <1>3, ServingBounds
<1>7. usbTxBuf'.pid = NextPid
  <2>1. usbTxBuf' = [usbTxBuf EXCEPT !.pid = ToggledPid(usbTxBuf.pid)]
    BY DEF Toggle
  <2>2. ToggledPid(OtherToggle(NextPid)) = NextPid
    BY <1>6, Toggles
  <2>3. usbTxBuf \in [pid : {0} \cup DataPids, body : Payloads \cup {NoBody}]
    BY DEF HostInv, IInv, TypeOK, TxTypes
  <2> QED
    BY <1>5, <2>1, <2>2, <2>3
<1>8. len' = Min2(8, Total - Sent) /\ usbMsgLen' = Total - Sent - len'
  BY <1>5, <1>6 DEF Toggle, Min2
<1>9. Reading'
  BY <1>4, <1>7, <1>8 DEF Reading
<1>10. (Total > 0 => FromSource)'
  BY <1>1, <1>2, <1>3, <1>4 DEF ServingInv, FromSource
<1> QED
  BY <1>2, <1>4, <1>9, <1>10

LEMMA ReadServing ==
  ASSUME HostInv, RequestInv, ReplyInv, Attached, ReadBlock, UNCHANGED <<hostVars, lost, bootVars>>
  PROVE  ServingInv'
<1> USE DEF ReplyInv
<1> SUFFICES ASSUME Serving' PROVE Built' /\ pc' = "arm" /\ Filled' /\ (Total > 0 => FromSource)'
  BY DEF ServingInv
<1> DEFINE body == IF len > 0 THEN ReadBytes ELSE NoBody
<1>1. /\ UNCHANGED <<wire, hStage, hReq, hToggle, hRecv, hCount, hSince, Attached, usbRxLen,
                     usbConfiguration>>
      /\ DeviceSentData' = DeviceSentData
  BY MainFrame DEF Main, usbPoll, ReadBlock, rxVars
<1>2. /\ pc = "read" /\ pc' = "arm" /\ Filled'
      /\ usbTxLen = USBPID_NAK
      /\ usbMsgFlags' = usbMsgFlags
      /\ usbMsgPtr' = IF len > 0 /\ usbMsgFlags # "USER_RW" THEN PtrAdvanced ELSE usbMsgPtr
  BY DEF ReadBlock, At, Filled, HostInv, IInv, DeviceInv, TxHeld
<1>3. Serving /\ hStage # "idle"
  BY <1>1, <1>2 DEF Serving, ReceivesStages
<1>4. ~Filled /\ Sent' = Sent /\ NextPid' = NextPid /\ NextPos = Sent /\ Total' = Total
  BY <1>1, <1>2 DEF Filled, Sent, NextPid, NextPos, Total
<1>5. Total \in 0..254 /\ Sent \in 0..Total /\ hReq \in Requests
  BY <1>3, ServingBounds
<1>6. /\ usbTxBuf.pid = NextPid
      /\ len = Min2(8, Total - Sent) /\ len \in 0..8
      /\ usbMsgLen = Total - Sent - len
  BY <1>2, <1>3, <1>5 DEF ServingInv, Reading, Min2
<1>7. usbTxBuf'.pid = NextPid /\ usbTxBuf'.body = body
  <2>1. usbTxBuf' = [usbTxBuf EXCEPT !.body = body]
    BY DEF ReadBlock
  <2>2. usbTxBuf \in [pid : {0} \cup DataPids, body : Payloads \cup {NoBody}]
    BY DEF HostInv, IInv, TypeOK, TxTypes
  <2> QED
    BY <1>6, <2>1, <2>2
<1>8. usbMsgPtr \in [src : Sources, pos : Nat] /\ sample \in Nat /\ usbConfiguration \in Nat
  BY SampleAssumption DEF HostInv, IInv, TypeOK, MsgTypes, MainTypes, AddrTypes
<1>9. CASE len = 0
  <2>1. body = NoBody /\ usbMsgPtr' = usbMsgPtr
    BY <1>2, <1>9
  <2>2. BodyLen(body) = 0
    BY <2>1 DEF BodyLen
  <2>3. usbMsgLen' = USB_NO_MSG
    BY <1>6, <1>9 DEF ReadBlock
  <2>4. Built'
    BY <1>4, <1>5, <1>6, <1>7, <1>9, <2>1, <2>2, <2>3 DEF Built, Right
  <2>5. NextPos' = NextPos
    BY <1>2, <1>4, <1>5, <1>7, <2>2 DEF NextPos
  <2>6. (Total > 0 => FromSource)'
    BY <1>1, <1>2, <1>3, <1>4, <2>1, <2>5 DEF ServingInv, FromSource
  <2> QED
    BY <1>2, <2>4, <2>6
<1>10. CASE len > 0
  <2>1. body = ReadBytes /\ Total > 0
    BY <1>5, <1>6, <1>10 DEF Min2
  <2>2. FromSource
    BY <1>3, <2>1 DEF ServingInv
  <2>3. body \in Payloads /\ body.n = len
    <3>1. len \in 1..8
      BY <1>6, <1>10
    <3> QED
      BY <1>8, <2>1, <3>1 DEF ReadBytes, Payload, Payloads
  <2>4. body # NoBody /\ BodyLen(body) = len
    BY <2>3, NoBodyAssumption DEF BodyLen
  <2>5. /\ body.src = WantedSrc(hReq)
        /\ body.src \in Descriptors => body.at = Sent
        /\ body.src = "usbConfiguration" => body.at = usbConfiguration
        /\ body.src = "mVAvg" => body.at >= hSince
    <3>1. CASE hReq.type # "standard"
      <4>1. body = Payload("mVAvg", sample, len)
        BY <2>1, <2>2, <3>1 DEF FromSource, ReadBytes
      <4>2. sample >= hSince
        BY <1>3, <1>8 DEF KeptInv, HostInv, HostTypes
      <4> QED
        BY <3>1, <4>1, <4>2 DEF Payload, WantedSrc, IsStandard, Descriptors
    <3>2. CASE hReq.type = "standard"
      <4>1. /\ usbMsgFlags # "USER_RW" /\ usbMsgPtr.src = WantedSrc(hReq)
            /\ usbMsgPtr.src \in Descriptors => usbMsgPtr.pos = Sent
        BY <1>4, <2>2, <3>2 DEF FromSource
      <4>2. body.src = usbMsgPtr.src /\ usbMsgPtr.src # "mVAvg"
        BY <1>8, <2>1, <4>1 DEF ReadBytes, Payload, Sources, Descriptors, Scalars
      <4>3. usbMsgPtr.src = "usbConfiguration" => body.at = usbConfiguration
        BY <2>1, <4>1 DEF ReadBytes, Payload
      <4>4. usbMsgPtr.src \in Descriptors => body.at = usbMsgPtr.pos
        BY <2>1, <4>1 DEF ReadBytes, Payload, Descriptors
      <4> QED
        BY <4>1, <4>2, <4>3, <4>4
    <3> QED
      BY <3>1, <3>2
  <2>6. usbMsgLen' = IF len < 8 THEN USB_NO_MSG ELSE Total - Sent - 8
    <3>1. len' = len + 4
      BY <1>6 DEF ReadBlock
    <3>2. len' # USBPID_STALL
      BY <1>6, <3>1 DEF USBPID_STALL
    <3> QED
      BY <1>6, <3>1, <3>2 DEF ReadBlock
  <2>7. Built'
    <3>1. Right(usbTxBuf.body, Sent)'
      BY <1>1, <1>4, <1>6, <1>7, <2>4, <2>5 DEF Right
    <3> QED
      BY <1>4, <1>7, <2>4, <2>6, <3>1 DEF Built
  <2>8. NextPos' = Sent + len
    BY <1>2, <1>4, <1>7, <2>4 DEF NextPos
  <2>9. FromSource'
    <3>1. CASE hReq.type # "standard"
      BY <1>1, <1>2, <2>2, <3>1 DEF FromSource
    <3>2. CASE hReq.type = "standard"
      <4>1. /\ usbMsgFlags # "USER_RW" /\ usbMsgPtr.src = WantedSrc(hReq)
            /\ usbMsgPtr.src \in Descriptors => usbMsgPtr.pos = Sent
        BY <1>4, <2>2, <3>2 DEF FromSource
      <4>2. usbMsgPtr'.src = usbMsgPtr.src /\ usbMsgPtr'.pos = usbMsgPtr.pos + len
        BY <1>2, <1>8, <1>10, <4>1 DEF PtrAdvanced
      <4> QED
        BY <1>1, <1>2, <2>8, <3>2, <4>1, <4>2 DEF FromSource
    <3> QED
      BY <3>1, <3>2
  <2> QED
    BY <1>2, <2>7, <2>9
<1> QED
  BY <1>6, <1>9, <1>10

LEMMA ArmServing ==
  ASSUME HostInv, RequestInv, ReplyInv, Attached, Arm, UNCHANGED <<hostVars, lost, bootVars>>
  PROVE  ServingInv'
<1> USE DEF ReplyInv
<1> SUFFICES ASSUME Serving' PROVE Built' /\ pc' = "lineCheck" /\ Filled' /\ (Total > 0 => FromSource)'
  BY DEF ServingInv
<1>1. /\ UNCHANGED <<wire, hStage, hReq, hToggle, hRecv, hCount, hSince, Attached, usbRxLen,
                     usbConfiguration, usbTxBuf, usbMsgLen, usbMsgFlags, usbMsgPtr>>
      /\ DeviceSentData' = DeviceSentData
  BY MainFrame DEF Main, usbPoll, Arm, rxVars, msgVars
<1>2. /\ pc = "arm" /\ pc' = "lineCheck"
      /\ usbTxLen' = 4 + BodyLen(usbTxBuf.body)
  BY DEF Arm, At, HostInv, IInv, DeviceInv, TxHeld
<1>3. usbTxLen' # USBPID_NAK
  <2>1. usbTxBuf.body \in Payloads \cup {NoBody}
    BY DEF HostInv, IInv, TypeOK, TxTypes
  <2> QED
    BY <1>2, <2>1, BodyLens DEF USBPID_NAK
<1>4. Serving /\ Filled /\ Filled'
  BY <1>1, <1>2, <1>3 DEF Serving, Filled
<1>5. Sent' = Sent /\ NextPid' = NextPid /\ NextPos' = NextPos /\ Total' = Total
  BY <1>1, <1>4 DEF Sent, NextPid, NextPos, Total
<1>6. Built'
  BY <1>1, <1>4, <1>5, SameRight DEF ServingInv, Built, Right
<1>7. (Total > 0 => FromSource)'
  BY <1>1, <1>4, <1>5 DEF ServingInv, FromSource
<1> QED
  BY <1>2, <1>4, <1>6, <1>7

LEMMA MainReplyInv ==
  ASSUME HostInv, RequestInv, ReplyInv, Attached, Main, UNCHANGED <<hostVars, lost, bootVars>>
  PROVE  KeptInv' /\ WireRight' /\ BuildInv' /\ ServingInv'
<1>1. KeptInv' /\ WireRight'
  BY MainKept
<1>2. BuildInv'
  BY MainBuildInv DEF HostInv, ReplyInv
<1>3. ~PollOther
  BY MainFrame
<1>4. ServingInv'
  BY <1>3, PollServing, SetupServing, ToggleServing, ReadServing, ArmServing DEF Main, usbPoll
<1> QED
  BY <1>1, <1>2, <1>4

-----------------------------------------------------------------------------
\* The host, and the rest of the world: none of their steps puts data of the
\* device on the wire.
LEMMA SameKept ==
  ASSUME KeptInv,
         UNCHANGED <<hReq, hSince, hRecv, hCount, usbConfiguration, usbRxLen, sample, Attached>>,
         hStage' = hStage \/ hStage' = "idle"
  PROVE  KeptInv'
<1>1. Total' = Total
  BY DEF Total
<1>2. \A i \in 1..Len(hRecv) : Right(hRecv[i], 8 * (i - 1)) => Right(hRecv[i], 8 * (i - 1))'
  BY <1>1 DEF Right
<1> QED
  BY <1>1, <1>2 DEF KeptInv

DeviceSame ==
  UNCHANGED <<usbTxLen, usbTxBuf, usbMsgLen, usbMsgFlags, usbMsgPtr, len, pc,
              usbConfiguration, usbRxLen, sample>>

LEMMA WorldQuiet ==
  ASSUME HostInv, SysNext, ~Device
  PROVE  /\ ~DeviceSentData'
         /\ DeviceSame \/ Restart
         /\ Attached' = Attached \/ Restart \/ Notice \/ Connect
<1>1. CASE HostRuns /\ Host
  <2>1. wire'.from # "device"
    <3>1. CASE HostBegin
      BY <3>1, HandshakePids DEF HostBegin, vars, busVars, BusFree, HostInv, WireInv
    <3>2. CASE ~HostBegin
      BY <1>1, <3>2, PacketFields
         DEF Host, HostToken, HostData, HostAcked, HostRetry, HostDiscard, HostAcceptData,
             HostAcceptStatus, HostPuts
    <3> QED
      BY <3>1, <3>2
  <2>2. DeviceSame
    BY <1>1 DEF DeviceSame, Host, HostBegin, HostToken, HostData, HostAcked, HostRetry,
       HostDiscard, HostAcceptData, HostAcceptStatus, HostPuts, vars, deviceVars, rxVars, txVars,
       msgVars, mainVars
  <2> QED
    BY <1>1, <2>1, <2>2 DEF HostRuns, bootVars, Attached, DeviceSentData
<1>2. CASE HostRuns /\ HostGivesUp
  <2>1. wire' \in {Silence, HostAck} /\ DeviceSame
    BY <1>2 DEF HostGivesUp, HostAbandon, HostReset, HostResetEnd, vars, busVars, deviceVars,
       rxVars, txVars, msgVars, mainVars, HostInv, WireInv, LineInv, DeviceSame
  <2> QED
    BY <1>2, <2>1, HandshakePids DEF HostRuns, bootVars, Attached, DeviceSentData
<1>3. CASE Lose
  BY <1>3, HandshakePids DEF Lose, HostPuts, deviceVars, rxVars, txVars, msgVars, mainVars,
     DeviceSame, bootVars, Attached, DeviceSentData
<1>4. CASE Restart
  BY <1>4, HandshakePids DEF Restart, DeviceSentData
<1>5. CASE Notice
  BY <1>5, HandshakePids DEF Notice, deviceVars, rxVars, txVars, msgVars, mainVars, DeviceSame,
     DeviceSentData
<1>6. CASE Connect
  BY <1>6, HandshakePids DEF Connect, vars, rxVars, txVars, msgVars, mainVars, busVars,
     DeviceSame, DeviceSentData, HostInv, LineInv, WireInv
<1> QED
  BY <1>1, <1>2, <1>3, <1>4, <1>5, <1>6 DEF SysNext, HostRuns

\* Steps after which what the host has received is as before.
LEMMA QuietReplyInv ==
  ASSUME HostInv, ReplyInv, DeviceSame, ~DeviceSentData, ~DeviceSentData',
         UNCHANGED <<hStage, hReq, hSince, hRecv, hCount, hToggle, Attached>>,
         wire' # Handshake(USBPID_ACK)
  PROVE  KeptInv' /\ ServingInv'
<1> USE DEF ReplyInv, DeviceSame
<1>1. KeptInv'
  BY SameKept
<1>2. Sent' = Sent /\ NextPid' = NextPid
  BY DEF Sent, NextPid
<1>3. Serving' => Serving
  BY DEF Serving
<1> QED
  BY <1>1, <1>2, <1>3, SameServing

LEMMA AckedReplyInv ==
  ASSUME HostInv, RequestInv, ReplyInv, HostAcked, DeviceSame, Attached, Attached',
         ~DeviceSentData'
  PROVE  KeptInv' /\ ServingInv'
<1> USE DEF ReplyInv, DeviceSame
<1>1. /\ hStage \in {"setup", "statusOut"} /\ wire = Handshake(USBPID_ACK)
      /\ UNCHANGED <<hReq, hSince, hRecv, hCount, hToggle>>
      /\ hStage = "setup" => hStage' \in {"data", "statusIn"}
      /\ hStage = "statusOut" => hStage' = "done"
  BY AckedSends DEF HostAcked, SendsStages
<1>2. ~DeviceSentData
  BY <1>1, HandshakePids DEF DeviceSentData
<1>3. Total' = Total /\ Total \in Nat
  <2>1. hReq \in Requests
    BY <1>1 DEF HostInv, HostTypes
  <2> QED
    BY <1>1, <2>1, TotalLen DEF Total
<1>4. KeptInv'
  <2>1. \A i \in 1..Len(hRecv) : Right(hRecv[i], 8 * (i - 1)) => Right(hRecv[i], 8 * (i - 1))'
    BY <1>1, <1>3 DEF Right
  <2>2. hStage = "setup" => hCount = 0
    BY DEF RecvInv
  <2> QED
    BY <1>1, <1>3, <2>1, <2>2 DEF KeptInv
<1>5. ServingInv'
  <2>1. Sent' = Sent /\ NextPid' = NextPid
    BY <1>1, <1>2 DEF Sent, NextPid
  <2>2. Serving' => Serving
    BY <1>1 DEF Serving, ReceivesStages
  <2> QED
    BY <1>1, <1>2, <2>1, <2>2, SameServing
<1> QED
  BY <1>4, <1>5

\* One more packet of the reply.
LEMMA AcceptReplyInv ==
  ASSUME HostInv, RequestInv, ReplyInv, HostAcceptData, DeviceSame, Attached, Attached',
         ~DeviceSentData'
  PROVE  KeptInv' /\ ServingInv'
<1> USE DEF ReplyInv, DeviceSame
<1>1. /\ hStage = "data" /\ DeviceSentData
      /\ hRecv' = Append(hRecv, wire.body) /\ hCount' = hCount + wire.len
      /\ hToggle' = IF EndsData(wire.len) THEN USBPID_DATA1 ELSE OtherToggle(hToggle)
      /\ hStage' = IF EndsData(wire.len) THEN "statusOut" ELSE "data"
      /\ UNCHANGED <<hReq, hSince>>
  BY DEF HostAcceptData
<1>2. usbRxLen = 0 /\ hSince <= sample
  BY <1>1 DEF RequestInv, AnsweredInv, KeptInv
<1>3. Serving
  BY <1>1, <1>2 DEF Serving, ReceivesStages
<1>4. /\ hReq \in Requests /\ Total \in 0..254 /\ hCount \in 0..Total
      /\ Total' = Total /\ Total <= hReq.wLength /\ hReq.wLength \in Nat
  BY <1>1, <1>3, ServingBounds, TotalLen, ReqLength DEF Total
<1>5. Right(wire.body, hCount) /\ wire.len = Min2(8, Total - hCount)
  BY <1>1 DEF WireRight, Right
<1>6. wire.len \in 0..8 /\ hCount' \in 0..Total
  BY <1>1, <1>4, <1>5 DEF Min2
<1>7. EndsData(wire.len) => hCount' = Total
  BY <1>1, <1>4, <1>5, <1>6 DEF EndsData, Min2
<1>8. KeptInv'
  <2>1. /\ hRecv \in Seq(Payloads \cup {NoBody}) /\ wire.body \in Payloads \cup {NoBody}
        /\ hCount = 8 * Len(hRecv)
    BY <1>1, SentPacket DEF HostInv, HostTypes, RecvInv
  <2>2. /\ Len(hRecv') = Len(hRecv) + 1 /\ Len(hRecv) \in Nat
        /\ \A i \in 1..Len(hRecv) : hRecv'[i] = hRecv[i]
        /\ hRecv'[Len(hRecv) + 1] = wire.body
    BY <1>1, <2>1
  <2>3. \A b, at : Right(b, at)' <=> Right(b, at)
    BY <1>1, SameRight
  <2>4. \A i \in 1..Len(hRecv') : Right(hRecv'[i], 8 * (i - 1))
    <3>1. \A i \in 1..Len(hRecv) : Right(hRecv'[i], 8 * (i - 1))
      BY <2>2 DEF KeptInv
    <3>2. Right(hRecv'[Len(hRecv) + 1], 8 * ((Len(hRecv) + 1) - 1))
      <4>1. 8 * ((Len(hRecv) + 1) - 1) = hCount
        BY <2>1, <2>2
      <4> QED
        BY <1>5, <2>2, <4>1
    <3>3. \A i \in 1..Len(hRecv') : i \in 1..Len(hRecv) \/ i = Len(hRecv) + 1
      BY <2>2
    <3> QED
      BY <3>1, <3>2, <3>3
  <2>5. (\A i \in 1..Len(hRecv) : Right(hRecv[i], 8 * (i - 1)))'
    BY <1>1, <1>4, <2>4 DEF Right
  <2> QED
    BY <1>1, <1>2, <1>4, <1>6, <1>7, <2>5 DEF KeptInv
<1>9. ServingInv'
  <2>1. CASE EndsData(wire.len)
    BY <1>1, <2>1 DEF ServingInv, Serving, ReceivesStages
  <2>2. CASE ~EndsData(wire.len)
    <3>1. Sent' = Sent /\ NextPid' = NextPid
      BY <1>1, <2>2 DEF Sent, NextPid
    <3>2. ~(wire.len < 8)
      BY <2>2 DEF EndsData
    <3> QED
      BY <1>1, <1>3, <3>1, <3>2, SameServing
  <2> QED
    BY <2>1, <2>2
<1> QED
  BY <1>8, <1>9

LEMMA StatusReplyInv ==
  ASSUME HostInv, RequestInv, ReplyInv, HostAcceptStatus, DeviceSame, Attached, Attached'
  PROVE  KeptInv' /\ ServingInv'
<1> USE DEF ReplyInv, DeviceSame
<1>1. /\ hStage = "statusIn" /\ DeviceSentData /\ hStage' = "done"
      /\ UNCHANGED <<hReq, hSince>>
      /\ hRecv' = IF wire.len = 0 THEN hRecv ELSE Append(hRecv, wire.body)
      /\ hCount' = hCount + wire.len
  BY DEF HostAcceptStatus
<1>2. hRecv = <<>> /\ hCount = 0
  BY <1>1 DEF RecvInv
<1>3. Total = 0 /\ Total' = 0
  <2>1. hReq \in Requests /\ ~IsIn(hReq)
    BY <1>1 DEF HostInv, HostTypes, StageInv
  <2> QED
    BY <1>1, <2>1, TotalLen DEF Total
<1>4. wire.len = 0
  BY <1>1, <1>2, <1>3 DEF WireRight, Right, Min2
<1>5. hRecv' = <<>> /\ hCount' = 0
  BY <1>1, <1>2, <1>4
<1> QED
  BY <1>1, <1>3, <1>5 DEF KeptInv, ServingInv, Serving, ReceivesStages

LEMMA HostReplyInv ==
  ASSUME HostInv, RequestInv, ReplyInv, Host, Attached, Attached', DeviceSame, ~DeviceSentData'
  PROVE  KeptInv' /\ ServingInv'
<1> USE DEF ReplyInv
<1>1. CASE HostBegin
  <2>1. /\ hRecv' = <<>> /\ hCount' = 0 /\ hStage' = "setup" /\ hSince' = sample
        /\ wire' = wire /\ hStage \in {"idle", "done"}
    BY <1>1 DEF HostBegin, vars, busVars
  <2>2. wire' # Handshake(USBPID_ACK)
    BY <2>1, HandshakePids, PacketFields DEF HostInv, WireInv
  <2>3. sample' = sample /\ sample \in Nat
    BY SampleAssumption DEF DeviceSame, HostInv, IInv, TypeOK, MainTypes
  <2> QED
    BY <2>1, <2>2, <2>3 DEF KeptInv, ServingInv, Serving, ReceivesStages
<1>2. CASE HostToken \/ HostData \/ HostRetry
  <2>1. /\ ~DeviceSentData
        /\ UNCHANGED <<hStage, hReq, hSince, hRecv, hCount, hToggle>>
    BY <1>2, HandshakePids
       DEF HostToken, HostData, HostRetry, DeviceSentData, HostInv, WireInv, BusFree, Token, Packet
  <2>2. wire' # Handshake(USBPID_ACK)
    BY <1>2, PacketFields, HandshakePids DEF HostToken, HostData, HostRetry, HostPuts
  <2> QED
    BY <2>1, <2>2, QuietReplyInv
<1>3. ~HostDiscard
  BY DEF HostDiscard, WireRight
<1>4. CASE HostAcked
  BY <1>4, AckedReplyInv
<1>5. CASE HostAcceptData
  BY <1>5, AcceptReplyInv
<1>6. CASE HostAcceptStatus
  BY <1>6, StatusReplyInv
<1> QED
  BY <1>1, <1>2, <1>3, <1>4, <1>5, <1>6 DEF Host

LEMMA InitReplyInv == SysInit => ReplyInv
<1> SUFFICES ASSUME SysInit PROVE ReplyInv
  OBVIOUS
<1>1. wire = Silence /\ hStage = "idle" /\ hRecv = <<>> /\ port = "connected" /\ pc = "poll"
  BY DEF SysInit, Init
<1>2. ~DeviceSentData
  BY <1>1, HandshakePids DEF DeviceSentData
<1>3. RecvInv /\ BuildInv /\ WireRight
  BY <1>1, <1>2, HandshakePids DEF RecvInv, BuildInv, WireRight, Attached
<1>4. KeptInv
  BY <1>1 DEF KeptInv
<1>5. ServingInv
  BY <1>1 DEF ServingInv, Serving, ReceivesStages
<1> QED
  BY <1>3, <1>4, <1>5 DEF ReplyInv

LEMMA NextReplyInv ==
  ASSUME "reply" \notin Lossy
  PROVE  HostInv /\ RequestInv /\ ReplyInv /\ [SysNext]_sysVars => ReplyInv'
<1> SUFFICES ASSUME HostInv, RequestInv, ReplyInv, [SysNext]_sysVars PROVE ReplyInv'
  OBVIOUS
<1>1. RecvInv'
  BY RecvInvNext DEF ReplyInv
<1>2. CASE Device
  BY <1>1, <1>2, IsrReplyInv, MainReplyInv DEF Device, ReplyInv
<1>3. CASE UNCHANGED sysVars
  <2>1. /\ DeviceSame
        /\ UNCHANGED <<wire, hStage, hReq, hSince, hRecv, hCount, hToggle, Attached>>
        /\ DeviceSentData' = DeviceSentData
    BY <1>3 DEF sysVars, vars, rxVars, txVars, msgVars, mainVars, busVars, hostVars, bootVars,
       Attached, DeviceSame, DeviceSentData
  <2>2. BuildInv'
    BY <2>1 DEF ReplyInv, BuildInv, DeviceSame
  <2>3. KeptInv'
    BY <2>1, SameKept DEF ReplyInv, DeviceSame
  <2>4. WireRight'
    BY <2>1, SameWireRight DEF ReplyInv, DeviceSame
  <2>5. Sent' = Sent /\ NextPid' = NextPid /\ Serving' = Serving
    BY <2>1 DEF Sent, NextPid, Serving, DeviceSame
  <2>6. ServingInv'
    BY <2>1, <2>5, SameServing DEF ReplyInv, DeviceSame
  <2> QED
    BY <1>1, <2>2, <2>3, <2>4, <2>6 DEF ReplyInv
<1>4. CASE SysNext /\ ~Device
  <2>1. /\ ~DeviceSentData'
        /\ DeviceSame \/ Restart
        /\ Attached' = Attached \/ Restart \/ Notice \/ Connect
    BY <1>4, WorldQuiet
  <2>2. WireRight'
    BY <2>1 DEF WireRight
  <2>3. BuildInv'
    BY <2>1 DEF ReplyInv, BuildInv, DeviceSame, Restart, Startup
  <2>4. KeptInv' /\ ServingInv'
    <3>1. CASE ~Attached'
      BY <3>1 DEF KeptInv, ServingInv, Serving
    <3>2. CASE HostRuns /\ Host /\ Attached'
      <4>1. Attached /\ DeviceSame
        BY <2>1, <3>2 DEF HostRuns, Attached, bootVars, Restart, Disconnected
      <4> QED
        BY <2>1, <3>2, <4>1, HostReplyInv
    <3>3. CASE HostRuns /\ HostGivesUp /\ Attached'
      <4>1. /\ hStage' = "idle"
            /\ UNCHANGED <<hReq, hSince, hRecv, hCount, Attached>> /\ DeviceSame
        BY <2>1, <3>3 DEF HostRuns, HostGivesUp, HostAbandon, HostReset, HostResetEnd, hostVars,
           HostInv, LineInv, bootVars, Attached, Restart, Disconnected
      <4>2. KeptInv'
        BY <4>1, SameKept DEF ReplyInv, DeviceSame
      <4> QED
        BY <4>1, <4>2 DEF ServingInv, Serving, ReceivesStages
    <3>4. CASE Lose /\ Attached'
      <4>1. ~DeviceSentData
        <5> SUFFICES ASSUME DeviceSentData PROVE FALSE
          OBVIOUS
        <5>1. wire.from = "device" /\ wire.pid \in DataPids
          BY DEF DeviceSentData
        <5>2. wire # HostAck /\ wire # Handshake(USBPID_ACK) /\ wire # Handshake(USBPID_NAK)
          BY <5>1, PacketFields, PidValues
        <5>3. KindOf(wire) = "reply"
          BY <5>1, <5>2 DEF KindOf
        <5> QED
          BY <3>4, <5>3 DEF Lose
      <4>2. /\ UNCHANGED <<hStage, hReq, hSince, hRecv, hCount, hToggle, Attached>>
            /\ wire' = Silence /\ DeviceSame
        BY <2>1, <3>4 DEF Lose, HostPuts, hostVars, bootVars, Attached, Restart, Disconnected
      <4> QED
        BY <2>1, <4>1, <4>2, HandshakePids, QuietReplyInv
    <3>5. CASE Connect
      <4>1. /\ hRecv' = <<>> /\ hStage' = "idle"
        BY <3>5 DEF Connect, ReplyInv, RecvInv, HostInv, LineInv, hostVars
      <4> QED
        BY <4>1 DEF KeptInv, ServingInv, Serving, ReceivesStages
    <3>6. Restart \/ Notice => ~Attached'
      BY DEF Restart, Notice, Attached, Disconnected
    <3> QED
      BY <1>4, <3>1, <3>2, <3>3, <3>4, <3>5, <3>6 DEF SysNext, HostRuns
  <2> QED
    BY <1>1, <2>2, <2>3, <2>4 DEF ReplyInv
<1> QED
  BY <1>2, <1>3, <1>4

LEMMA ReplyInvariance ==
  ASSUME "token" \notin Lossy, "reply" \notin Lossy
  PROVE  SysSpec => [](HostInv /\ RequestInv /\ ReplyInv)
BY InitReplyInv, NextReplyInv, RequestInvariance, PTL DEF SysSpec

-----------------------------------------------------------------------------
\* As long as tokens and the device's data packets arrive, the host gets the
\* reply that it asked for, whole and in order, a temperature not older than
\* its request and the configuration as it is (usbProcessRx, usbBuildTxBlock
\* and usbDeviceRead), whatever the main loop was still building when the
\* previous transfer was given up or the firmware started again.
THEOREM ReplyMatches ==
  ASSUME "token" \notin Lossy, "reply" \notin Lossy
  PROVE  SysSpec => []ReplyMatchesRequest
<1>1. HostInv /\ ReplyInv => ReplyMatchesRequest
  <2> SUFFICES ASSUME ReplyInv, HostInv, Attached PROVE ReplyMatchesRequest
    BY DEF ReplyMatchesRequest
  <2>1. \A i \in 1..Len(hRecv) : Right(hRecv[i], 8 * (i - 1))
    BY DEF ReplyInv, KeptInv
  <2>2. hStage \in {"statusOut", "done"} => hCount = Total
    BY DEF ReplyInv, KeptInv
  <2> QED
    BY <2>1, <2>2 DEF ReplyMatchesRequest, Right, Total, BodyLen
<1> QED
  BY ReplyInvariance, <1>1, PTL

\* Under the same conditions the device and the host count the packets of
\* every transfer alike (usbTxBuf[0] is set to DATA0 for each new transfer and
\* turned over for each packet): new data is never taken for a repetition.
THEOREM TogglesAgree ==
  ASSUME "token" \notin Lossy, "reply" \notin Lossy
  PROVE  SysSpec => ToggleAgreement
<1>1. HostInv /\ ReplyInv =>
        (hPhase = "reply" /\ wire.from = "device" /\ wire.pid \notin {USBPID_ACK, USBPID_NAK}
           => wire.pid = hToggle)
  <2> SUFFICES ASSUME HostInv, ReplyInv, wire.from = "device",
                      wire.pid \notin {USBPID_ACK, USBPID_NAK}
               PROVE  wire.pid = hToggle
    OBVIOUS
  <2>1. Attached
    BY DEF ReplyInv, RecvInv
  <2>2. wire \in DevicePackets
    BY PacketFields DEF HostInv, IInv, TypeOK, BusTypes, WirePackets, HostPackets
  <2>3. wire \notin {Silence, Handshake(USBPID_ACK), Handshake(USBPID_NAK)}
    BY PacketFields
  <2>4. DeviceSentData
    BY <2>2, <2>3 DEF DevicePackets, DeviceSentData
  <2> QED
    BY <2>1, <2>4 DEF ReplyInv, WireRight
<1> QED
  BY ReplyInvariance, <1>1, PTL DEF SysSpec, ToggleAgreement
=============================================================================
