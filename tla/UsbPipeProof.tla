----------------------------- MODULE UsbPipeProof -----------------------------
(***************************************************************************)
(* Proof that the device with its host implements ControlPipe, under the   *)
(* conditions of UsbReplyProof.  Every step of UsbSystem is one of the      *)
(* pipe or leaves it as it is:                                             *)
(*                                                                         *)
(*   HostBegin                          Ask                                *)
(*   HandleDataStore of a request       Take                               *)
(*   Setup                              Perform                            *)
(*   HostAcked of the status stage,                                        *)
(*   HostAcceptStatus                   Complete                           *)
(*   HostAbandon, Notice                GiveUp                             *)
(*   Lose of the acknowledgement        Repeat                             *)
(*   LineCheck during a reset           Reset                              *)
(*   Restart                            Restart                            *)
(***************************************************************************)
EXTENDS UsbReplyProof

PipeStep == [Pipe!Next]_(Pipe!pipeVars)

PipeSame ==
  UNCHANGED <<hReq, PipeState, PipeTaken, usbConfiguration, usbNewDeviceAddr, PipeAnswer>>

LEMMA Stutter == ASSUME PipeSame PROVE PipeStep
BY DEF PipeSame, PipeStep, Pipe!pipeVars

\* The request in the device is the one of the buffer.
LEMMA TakenRequest ==
  ASSUME IInv, RxSetup, usbRxLen # 0, pc # "release"
  PROVE  PipeTaken = RxPacket.body /\ PipeTaken # NoBody
<1>1. usbRxLen = 11 /\ usbRxToken = USBPID_SETUP /\ RxPacket.len = 8
  <2>1. usbRxLen = 11 /\ usbRxToken = USBPID_SETUP
    BY DEF RxSetup
  <2>2. RxPacket \in RxContents
    BY DEF IInv, TypeOK, RxTypes, RxPacket
  <2>3. RxPacket.len \in Int
    BY <2>2, ShortAssumption DEF RxContents
  <2> QED
    BY <2>1, <2>3 DEF IInv, DeviceInv, RxComplete
<1>2. RxPacket.body \in Requests
  BY <1>1, FullContents DEF IInv, TypeOK, RxTypes, RxPacket
<1> QED
  BY <1>1, <1>2, NoBodyAssumption DEF PipeTaken

LEMMA NoneTaken ==
  ASSUME usbRxLen = 0 \/ pc = "release"
  PROVE  PipeTaken = NoBody
BY DEF PipeTaken

LEMMA IsrPipe ==
  ASSUME HostInv, RequestInv, Attached, Isr, UNCHANGED <<hostVars, lost, bootVars>>
  PROVE  PipeStep
<1>1. /\ wire.from = "host" /\ UNCHANGED <<usbNewDeviceAddr, usbConfiguration, pc>>
      /\ Drops \/ Refuses \/ Acknowledges \/ Answers
  BY IsrEffect DEF HostInv
<1>2. UNCHANGED <<hStage, hPhase, hReq, hRecv, hCount>> /\ Attached'
  BY DEF hostVars, bootVars, Attached
<1>3. PipeAnswer' = PipeAnswer
  BY <1>2 DEF PipeAnswer
<1>4. wire # Handshake(USBPID_ACK)
  BY <1>1, PacketFields
<1>5. CASE SameRx /\ (wire' # Handshake(USBPID_ACK) \/ hStage # "setup")
  <2>1. PipeTaken' = PipeTaken
    BY <1>1, <1>5 DEF PipeTaken, SameRx
  <2>2. PipeState' = PipeState
    BY <1>2, <1>4, <1>5 DEF PipeState, Attached
  <2> QED
    BY <1>1, <1>2, <1>3, <2>1, <2>2, Stutter DEF PipeSame
<1>6. CASE Acknowledges /\ hStage = "setup"
  <2>1. /\ hPhase = "reply" /\ usbRxLen = 0 /\ wire' = Handshake(USBPID_ACK)
        /\ usbRxLen' = 11 /\ usbRxToken' = USBPID_SETUP /\ RxPacket'.body = hReq
    BY <1>1, <1>6, StoredPacket DEF RequestInv, Acknowledges
  <2>2. pc # "release"
    BY <2>1 DEF HostInv, IInv, DeviceInv, RxHeld
  <2>3. PipeState = "asked" /\ PipeState' = "taken"
    BY <1>2, <1>4, <1>6, <2>1 DEF PipeState
  <2>4. PipeTaken = NoBody /\ PipeTaken' = hReq
    BY <1>1, <2>1, <2>2 DEF PipeTaken
  <2>5. Pipe!Take
    BY <1>1, <1>2, <1>3, <2>3, <2>4 DEF Pipe!Take
  <2> QED
    BY <2>5 DEF PipeStep, Pipe!Next
<1>7. Acknowledges /\ hStage # "setup" => SameRx
  BY <1>1, StoredPacket DEF RequestInv, SendsStages
<1>8. Drops \/ Refuses \/ Answers => SameRx /\ wire' # Handshake(USBPID_ACK)
  BY HandshakePids DEF Drops, Refuses, Answers, DeviceSentData
<1> QED
  BY <1>1, <1>5, <1>6, <1>7, <1>8

LEMMA MainPipe ==
  ASSUME HostInv, RequestInv, Attached, Main, UNCHANGED <<hostVars, lost, bootVars>>
  PROVE  PipeStep
<1>1. /\ UNCHANGED <<wire, usbRxToken>> /\ RxPacket' = RxPacket
      /\ Computes \/ Performs \/ Releases \/ SeesReset
  BY MainEffect DEF HostInv, RequestInv
<1>2. /\ UNCHANGED <<hReq, PipeState, PipeAnswer>>
  BY <1>1 DEF hostVars, bootVars, Attached, PipeState, PipeAnswer
<1>3. CASE Setup
  <2> DEFINE rq == RxPacket.body
  <2>1. /\ pc = "setup" /\ pc' = "release" /\ usbRxLen = 11
        /\ usbNewDeviceAddr' = IF IsStandard(rq, USBRQ_SET_ADDRESS) THEN rq.lo ELSE usbNewDeviceAddr
        /\ usbConfiguration' =
             IF IsStandard(rq, USBRQ_SET_CONFIGURATION) THEN rq.lo ELSE usbConfiguration
    BY <1>3 DEF Setup, At, HostInv, IInv, DeviceInv, RxHeld
  <2>2. PipeTaken = rq /\ PipeTaken # NoBody
    BY <2>1, TakenRequest DEF HostInv, RequestInv
  <2>3. PipeTaken' = NoBody
    BY <2>1 DEF PipeTaken
  <2>4. [configuration |-> usbConfiguration, address |-> usbNewDeviceAddr]' =
          EffectOf(rq, [configuration |-> usbConfiguration, address |-> usbNewDeviceAddr])
    BY <2>1 DEF EffectOf
  <2>5. Pipe!Perform
    BY <1>2, <2>2, <2>3, <2>4 DEF Pipe!Perform
  <2> QED
    BY <2>5 DEF PipeStep, Pipe!Next
<1>4. CASE Release
  <2>1. pc = "release" /\ usbRxLen' = 0 /\ UNCHANGED <<usbConfiguration, usbNewDeviceAddr>>
    BY <1>4 DEF Release, At, addrVars
  <2>2. PipeTaken' = NoBody /\ PipeTaken = NoBody
    BY <2>1 DEF PipeTaken
  <2> QED
    BY <1>2, <2>1, <2>2, Stutter DEF PipeSame
<1>5. CASE LineCheck
  <2>1. UNCHANGED <<usbRxLen, usbConfiguration>> /\ pc = "lineCheck" /\ pc' = "poll"
    BY <1>5 DEF LineCheck, At, rxVars
  <2>2. PipeTaken' = PipeTaken
    BY <1>1, <2>1 DEF PipeTaken
  <2>3. CASE lineSE0
    <3>1. usbNewDeviceAddr' = 0
      BY <1>5, <2>3 DEF LineCheck
    <3>2. Pipe!Reset
      BY <1>2, <2>1, <2>2, <3>1 DEF Pipe!Reset
    <3> QED
      BY <3>2 DEF PipeStep, Pipe!Next
  <2>4. CASE ~lineSE0
    <3>1. usbNewDeviceAddr' = usbNewDeviceAddr
      BY <1>5, <2>4 DEF LineCheck, addrVars
    <3> QED
      BY <1>2, <2>1, <2>2, <3>1, Stutter DEF PipeSame
  <2> QED
    BY <2>3, <2>4
<1>6. CASE MeasureTemp \/ PollSetup \/ PollNothing \/ InitToggle \/ AbortTx \/ TxCheck \/ Toggle
             \/ ReadBlock \/ Arm
  <2>1. /\ UNCHANGED <<usbRxLen, usbConfiguration, usbNewDeviceAddr>>
        /\ pc # "release" /\ pc' # "release"
    BY <1>6 DEF MeasureTemp, PollSetup, PollNothing, InitToggle, AbortTx, TxCheck, Toggle,
       ReadBlock, Arm, At, rxVars, addrVars
  <2>2. PipeTaken' = PipeTaken
    BY <1>1, <2>1 DEF PipeTaken
  <2> QED
    BY <1>2, <2>1, <2>2, Stutter DEF PipeSame
<1>7. ~PollOther
  BY MainFrame
<1> QED
  BY <1>3, <1>4, <1>5, <1>6, <1>7 DEF Main, usbPoll

-----------------------------------------------------------------------------
\* The host: a completed request has its whole answer.
DeviceKept == UNCHANGED <<usbConfiguration, usbNewDeviceAddr, PipeTaken>>

LEMMA WholeAnswer ==
  ASSUME NEW rq \in Requests, NEW b,
         WantedLen(rq) > 0 => /\ BodyLen(b) = Min2(8, WantedLen(rq) - 8 * (1 - 1))
                              /\ b # NoBody => b.src = WantedSrc(rq)
  PROVE  WantedAnswer(rq) =
           IF WantedLen(rq) > 0 THEN [src |-> b.src, n |-> WantedLen(rq)] ELSE NoBody
<1>1. WantedLen(rq) \in 0..254 /\ (WantedLen(rq) > 0 => IsIn(rq))
  BY TotalLen
<1>2. WantedLen(rq) > 0 => BodyLen(b) > 0
  BY <1>1 DEF Min2
<1>3. WantedLen(rq) > 0 => b # NoBody
  BY <1>2 DEF BodyLen
<1> QED
  BY <1>1, <1>3 DEF WantedAnswer

LEMMA CompletePipe ==
  ASSUME HostInv, RecvInv, KeptInv, HostInv', RecvInv', KeptInv', Attached, Attached',
         DeviceKept, PipeTaken = NoBody, hReq' = hReq,
         hStage \in {"statusOut", "statusIn"}, hStage' = "done"
  PROVE  PipeStep
<1>1. PipeState = "taken" /\ PipeState' = "done"
  BY DEF PipeState
<1>2. /\ hReq \in Requests /\ hCount' = WantedLen(hReq)
      /\ hRecv' \in Seq(Payloads \cup {NoBody})
      /\ hRecv' = <<>> => hCount' = 0
  BY DEF HostInv, HostTypes, RecvInv, KeptInv, Total
<1>3. WantedLen(hReq) > 0 => /\ BodyLen(hRecv'[1]) = Min2(8, WantedLen(hReq) - 8 * (1 - 1))
                             /\ hRecv'[1] # NoBody => hRecv'[1].src = WantedSrc(hReq)
  <2> SUFFICES ASSUME WantedLen(hReq) > 0
               PROVE  /\ BodyLen(hRecv'[1]) = Min2(8, WantedLen(hReq) - 8 * (1 - 1))
                      /\ hRecv'[1] # NoBody => hRecv'[1].src = WantedSrc(hReq)
    OBVIOUS
  <2>1. 1 \in 1..Len(hRecv')
    <3>1. hRecv' # <<>>
      BY <1>2
    <3> QED
      BY <1>2, <3>1
  <2>2. Right(hRecv[1], 8 * (1 - 1))'
    BY <2>1 DEF KeptInv
  <2> QED
    BY <2>2 DEF Right, Total
<1>4. PipeAnswer' = WantedAnswer(hReq)
  <2>1. WantedAnswer(hReq) =
          IF WantedLen(hReq) > 0 THEN [src |-> hRecv'[1].src, n |-> WantedLen(hReq)] ELSE NoBody
    BY <1>2, <1>3, WholeAnswer
  <2> QED
    BY <1>2, <2>1 DEF PipeAnswer
<1>5. Pipe!Complete
  BY <1>1, <1>4 DEF Pipe!Complete, DeviceKept
<1> QED
  BY <1>5 DEF PipeStep, Pipe!Next

LEMMA HostPipe ==
  ASSUME HostInv, RequestInv, ReplyInv, HostInv', ReplyInv', Host, Attached' = Attached,
         DeviceKept
  PROVE  PipeStep
<1> USE DEF ReplyInv
<1>1. CASE HostBegin
  <2>1. /\ hStage \in {"idle", "done"} /\ hStage' = "setup" /\ hPhase' = "token"
        /\ hReq' \in Requests
    BY <1>1 DEF HostBegin
  <2>2. PipeState \in {"idle", "done"} /\ PipeState' = "asked" /\ PipeAnswer' = NoBody
    BY <2>1 DEF PipeState, PipeAnswer
  <2>3. Pipe!Ask
    BY <2>1, <2>2 DEF Pipe!Ask, DeviceKept
  <2> QED
    BY <2>3 DEF PipeStep, Pipe!Next
<1>2. CASE HostToken \/ HostData \/ HostRetry \/ HostDiscard
  <2>1. /\ UNCHANGED <<hStage, hReq, hRecv, hCount>>
        /\ wire # Handshake(USBPID_ACK) \/ hPhase # "reply" \/ hStage # "setup"
        /\ wire' # Handshake(USBPID_ACK)
    BY <1>2, PacketFields, HandshakePids
       DEF HostToken, HostData, HostRetry, HostDiscard, HostPuts, DeviceSentData
  <2>2. PipeState' = PipeState /\ PipeAnswer' = PipeAnswer
    BY <2>1 DEF PipeState, PipeAnswer, Attached
  <2> QED
    BY <2>1, <2>2, Stutter DEF PipeSame, DeviceKept
<1>3. CASE HostAcceptData
  <2>1. /\ hStage = "data" /\ hStage' \in {"data", "statusOut"} /\ hReq' = hReq
    BY <1>3 DEF HostAcceptData
  <2>2. PipeState' = PipeState /\ PipeAnswer' = PipeAnswer
    BY <2>1 DEF PipeState, PipeAnswer, Attached
  <2> QED
    BY <2>1, <2>2, Stutter DEF PipeSame, DeviceKept
<1>4. CASE HostAcceptStatus
  <2>1. hStage = "statusIn" /\ hStage' = "done" /\ DeviceSentData /\ hReq' = hReq
    BY <1>4 DEF HostAcceptStatus
  <2>2. Attached /\ Attached'
    BY <2>1 DEF RecvInv, DeviceSentData
  <2>3. PipeTaken = NoBody
    BY <2>1, <2>2, NoneTaken DEF RequestInv, AnsweredInv
  <2> QED
    BY <2>1, <2>2, <2>3, CompletePipe
<1>5. CASE HostAcked
  <2>1. /\ hStage \in {"setup", "statusOut"} /\ wire = Handshake(USBPID_ACK) /\ hPhase = "reply"
        /\ hReq' = hReq
        /\ hStage = "setup" => hStage' \in {"data", "statusIn"}
        /\ hStage = "statusOut" => hStage' = "done"
    BY <1>5, AckedSends DEF HostAcked, SendsStages
  <2>2. Attached /\ Attached'
    BY <2>1, PacketFields DEF RecvInv
  <2>3. CASE hStage = "setup"
    <3>1. PipeState = "taken" /\ PipeState' = "taken" /\ PipeAnswer' = PipeAnswer
      BY <2>1, <2>2, <2>3 DEF PipeState, PipeAnswer
    <3> QED
      BY <2>1, <3>1, Stutter DEF PipeSame, DeviceKept
  <2>4. CASE hStage = "statusOut"
    <3>1. PipeTaken = NoBody
      BY <2>1, <2>2, <2>4, NoneTaken DEF RequestInv, AnsweredInv
    <3> QED
      BY <2>1, <2>2, <2>4, <3>1, CompletePipe
  <2> QED
    BY <2>1, <2>3, <2>4
<1> QED
  BY <1>1, <1>2, <1>3, <1>4, <1>5 DEF Host

LEMMA GivesUpPipe ==
  ASSUME HostInv, HostGivesUp, Attached' = Attached, DeviceKept
  PROVE  PipeStep
<1>1. CASE HostAbandon
  <2>1. hStage \notin {"idle", "done"} /\ hStage' = "idle" /\ hReq' = hReq
    BY <1>1 DEF HostAbandon
  <2>2. PipeState # "idle" /\ PipeState' = "idle" /\ PipeAnswer' = NoBody
    BY <2>1 DEF PipeState, PipeAnswer
  <2>3. Pipe!GiveUp
    BY <2>1, <2>2 DEF Pipe!GiveUp, DeviceKept
  <2> QED
    BY <2>3 DEF PipeStep, Pipe!Next
<1>2. CASE HostReset \/ HostResetEnd
  <2>1. hStage = "idle" /\ UNCHANGED <<hStage, hReq>>
    BY <1>2 DEF HostReset, HostResetEnd, hostVars, HostInv, LineInv
  <2>2. PipeState' = PipeState /\ PipeAnswer' = PipeAnswer
    BY <2>1 DEF PipeState, PipeAnswer
  <2> QED
    BY <2>1, <2>2, Stutter DEF PipeSame, DeviceKept
<1> QED
  BY <1>1, <1>2 DEF HostGivesUp

\* Losses, restarts, and what the host notices of them.
LEMMA LosePipe ==
  ASSUME HostInv, Lose
  PROVE  PipeStep
<1>1. /\ wire' = Silence /\ UNCHANGED <<hStage, hPhase, hReq, hRecv, hCount>>
      /\ Attached' = Attached
      /\ UNCHANGED <<usbConfiguration, usbNewDeviceAddr, PipeTaken>>
  BY DEF Lose, HostPuts, hostVars, bootVars, Attached, deviceVars, rxVars, addrVars, mainVars,
     PipeTaken, RxPacket
<1>2. PipeAnswer' = PipeAnswer
  BY <1>1 DEF PipeAnswer
<1>3. CASE PipeState = "taken" /\ hStage = "setup"
  <2>1. PipeState' = "asked"
    BY <1>1, <1>3, HandshakePids DEF PipeState
  <2>2. Pipe!Repeat
    BY <1>1, <1>2, <1>3, <2>1 DEF Pipe!Repeat
  <2> QED
    BY <2>2 DEF PipeStep, Pipe!Next
<1>4. CASE ~(PipeState = "taken" /\ hStage = "setup")
  <2>1. PipeState' = PipeState
    BY <1>1, <1>4, HandshakePids DEF PipeState, Attached
  <2> QED
    BY <1>1, <1>2, <2>1, Stutter DEF PipeSame
<1> QED
  BY <1>3, <1>4

LEMMA RestartPipe ==
  ASSUME HostInv, Restart
  PROVE  PipeStep
<1>1. /\ UNCHANGED <<hStage, hPhase, hReq, hRecv, hCount>> /\ ~Attached'
      /\ usbConfiguration' = 0 /\ usbNewDeviceAddr' = 0 /\ usbRxLen' = 0
  BY DEF Restart, Startup, hostVars, Attached, Disconnected
<1>2. PipeAnswer' = PipeAnswer /\ PipeTaken' = NoBody
  BY <1>1 DEF PipeAnswer, PipeTaken
<1>3. PipeState' = IF PipeState = "taken" THEN "asked" ELSE PipeState
  BY <1>1 DEF PipeState
<1>4. Pipe!Restart
  BY <1>1, <1>2, <1>3 DEF Pipe!Restart
<1> QED
  BY <1>4 DEF PipeStep, Pipe!Next

LEMMA NoticePipe ==
  ASSUME HostInv, Notice
  PROVE  PipeStep
<1>1. /\ hStage' = "idle" /\ hReq' = hReq
      /\ UNCHANGED <<usbConfiguration, usbNewDeviceAddr, PipeTaken>>
  BY DEF Notice, deviceVars, rxVars, addrVars, mainVars, PipeTaken, RxPacket
<1>2. PipeState' = "idle" /\ PipeAnswer' = NoBody
  BY <1>1 DEF PipeState, PipeAnswer
<1>3. CASE hStage = "idle"
  <2>1. PipeState = "idle" /\ PipeAnswer = NoBody
    BY <1>3 DEF PipeState, PipeAnswer
  <2> QED
    BY <1>1, <1>2, <2>1, Stutter DEF PipeSame
<1>4. CASE hStage # "idle"
  <2>1. PipeState # "idle"
    BY <1>4 DEF PipeState
  <2>2. Pipe!GiveUp
    BY <1>1, <1>2, <2>1 DEF Pipe!GiveUp
  <2> QED
    BY <2>2 DEF PipeStep, Pipe!Next
<1> QED
  BY <1>3, <1>4

LEMMA NextPipe ==
  ASSUME HostInv, RequestInv, ReplyInv, HostInv', ReplyInv', [SysNext]_sysVars
  PROVE  PipeStep
<1>1. CASE Device
  BY <1>1, IsrPipe, MainPipe DEF Device
<1>2. CASE HostRuns
  <2>1. DeviceKept
    BY <1>2 DEF HostRuns, Host, HostBegin, HostToken, HostData, HostAcked, HostRetry, HostDiscard,
       HostAcceptData, HostAcceptStatus, HostGivesUp, HostAbandon, HostReset, HostResetEnd,
       HostPuts, vars, deviceVars, rxVars, addrVars, mainVars, DeviceKept, PipeTaken, RxPacket
  <2>2. Attached' = Attached
    BY <1>2 DEF HostRuns, bootVars, Attached
  <2> QED
    BY <1>2, <2>1, <2>2, HostPipe, GivesUpPipe DEF HostRuns
<1>3. CASE Connect
  <2>1. hStage = "idle" /\ UNCHANGED <<hStage, hReq, usbConfiguration, usbNewDeviceAddr, PipeTaken>>
    BY <1>3 DEF Connect, vars, rxVars, addrVars, mainVars, hostVars, HostInv, LineInv, PipeTaken,
       RxPacket
  <2>2. PipeState' = PipeState /\ PipeAnswer' = PipeAnswer
    BY <2>1 DEF PipeState, PipeAnswer
  <2> QED
    BY <2>1, <2>2, Stutter DEF PipeSame
<1>4. CASE UNCHANGED sysVars
  <2>1. PipeSame
    BY <1>4 DEF sysVars, vars, rxVars, addrVars, mainVars, busVars, hostVars, bootVars, PipeSame,
       PipeState, PipeTaken, PipeAnswer, RxPacket, Attached
  <2> QED
    BY <2>1, Stutter
<1> QED
  BY <1>1, <1>2, <1>3, <1>4, LosePipe, RestartPipe, NoticePipe DEF SysNext

LEMMA InitPipe == SysInit => Pipe!Init
BY DEF SysInit, Init, Pipe!Init, PipeState, PipeTaken, PipeAnswer

\* The device with its host implements the control pipe: requests are taken,
\* take effect and are answered one at a time and in order, and a completed
\* request has its whole answer, whatever the interrupt and the main loop
\* (usbPoll) are doing when packets come, when the host gives up and when the
\* firmware starts again, as long as tokens and the device's data arrive.
THEOREM RefinesPipe ==
  ASSUME "token" \notin Lossy, "reply" \notin Lossy
  PROVE  SysSpec => ImplementsPipe
<1>1. HostInv /\ RequestInv /\ ReplyInv /\ HostInv' /\ ReplyInv' /\ [SysNext]_sysVars
        => [Pipe!Next]_(Pipe!pipeVars)
  BY NextPipe DEF PipeStep
<1> QED
  BY InitPipe, <1>1, ReplyInvariance, PTL DEF SysSpec, ImplementsPipe, Pipe!Spec
=============================================================================
