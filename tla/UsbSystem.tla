------------------------------ MODULE UsbSystem ------------------------------
(***************************************************************************)
(* The device of module VUsb on a bus with one host, which sends it one    *)
(* control transfer after the other: a setup stage, a data stage if bytes  *)
(* are asked for, and a status stage.  The host is not part of the         *)
(* repository: it is modelled from what the interrupt routine answers and  *)
(* from the requests that usbtherm-linux and usbtherm-libusb make, and it  *)
(* repeats a transaction that was not acknowledged.                        *)
(*                                                                         *)
(* What may go wrong on the bus is a parameter: packets of the kinds in    *)
(* Lossy may vanish, and with MayAbandon the host may give up a transfer   *)
(* between two transactions (a timeout), or reset the bus.  A reset is     *)
(* held until the main loop has seen it.  The firmware may start again at  *)
(* any time (a reset of the processor): it then keeps itself disconnected  *)
(* long enough for the host to notice.                                     *)
(***************************************************************************)
EXTENDS VUsb, Sequences

CONSTANTS
  Lossy,       \* the kinds of packets that may be lost
  MaxLost,     \* bound: how many of them
  MayAbandon,  \* the host may give up a transfer or reset the bus
  MaxRestarts  \* bound: how often the firmware starts again

PacketKinds == {"token", "hostData", "hostAck", "reply", "ack", "nak"}

ASSUME LossyAssumption   == Lossy \subseteq PacketKinds
ASSUME MaxLostAssumption == MaxLost \in Nat
ASSUME AbandonAssumption == MayAbandon \in BOOLEAN
ASSUME RestartAssumption == MaxRestarts \in Nat

VARIABLES
  hStage,    \* the stage of the current transfer
  hPhase,    \* what the host does next in the current transaction
  hReq,      \* the request of the current transfer
  hAddr,     \* the address the host uses
  hToggle,   \* the identifier it expects of the next data packet
  hRecv,     \* the contents received in the data stage
  hCount,    \* and the bytes in them
  hSince,    \* the measurements taken when the transfer began
  lost,      \* the packets lost so far
  port,      \* the host's port: "connected", "disconnected", or "noticed"
  restarts   \* the restarts of the firmware so far

hostVars == <<hStage, hPhase, hReq, hAddr, hToggle, hRecv, hCount, hSince>>
bootVars == <<port, restarts>>
sysVars  == <<vars, hostVars, lost, bootVars>>

SysInit ==
  /\ Init
  /\ hStage = "idle"
  /\ hPhase = "token"
  /\ hReq = NoBody
  /\ hAddr = 0
  /\ hToggle = USBPID_DATA1
  /\ hRecv = <<>>
  /\ hCount = 0
  /\ hSince = 0
  /\ lost = 0
  /\ port = "connected"
  /\ restarts = 0

-----------------------------------------------------------------------------
\* The bus is the host's when no packet of its own is on its way.
BusFree == wire.from # "host" /\ ~lineSE0

IsIn(rq) == rq.dir = "in" /\ rq.wLength > 0

\* The host may send the packet of a status stage, and assigns addresses that
\* it then uses, by a request without a data stage.
ASSUME StatusAssumption == 0 \in ShortLens
ASSUME SetAddressAssumption ==
  \A rq \in Requests :
    IsStandard(rq, USBRQ_SET_ADDRESS) => ~IsIn(rq) /\ rq.lo % 128 \in Addrs

\* It sends no data to the device, and asks the application only for what
\* usbFunctionSetup serves and in a length that usbMsgLen holds.
ASSUME ServedAssumption ==
  \A rq \in Requests :
    /\ rq.dir = "out" => rq.wLength = 0
    /\ rq.type = "vendor" =>
         rq.dir = "in" /\ rq.bRequest = CUSTOM_REQ_TEMP /\ rq.wLength < USB_NO_MSG

\* The data stage ends with the last byte asked for or with a short packet.
EndsData(n) == n < 8 \/ hCount + n >= hReq.wLength

HostPuts(p) == wire' = p /\ UNCHANGED <<deviceVars, lineSE0>>

HostBegin ==
  /\ hStage \in {"idle", "done"}
  /\ BusFree
  /\ hReq' \in Requests
  /\ hStage' = "setup"
  /\ hPhase' = "token"
  /\ hToggle' = USBPID_DATA1
  /\ hRecv' = <<>>
  /\ hCount' = 0
  /\ hSince' = sample
  /\ UNCHANGED <<vars, hAddr>>

StagePid ==
  CASE hStage = "setup"     -> USBPID_SETUP
    [] hStage = "statusOut" -> USBPID_OUT
    [] hStage \in {"data", "statusIn"} -> USBPID_IN

HostToken ==
  /\ hStage \notin {"idle", "done"}
  /\ hPhase = "token"
  /\ BusFree
  /\ HostPuts(Token(StagePid, hAddr))
  /\ hPhase' = IF StagePid = USBPID_IN THEN "reply" ELSE "data"
  /\ UNCHANGED <<hStage, hReq, hAddr, hToggle, hRecv, hCount, hSince>>

HostData ==
  /\ hPhase = "data"
  /\ BusFree
  /\ HostPuts(IF hStage = "setup" THEN Data(USBPID_DATA0, 8, hReq)
                                  ELSE Data(USBPID_DATA1, 0, NoBody))
  /\ hPhase' = "reply"
  /\ UNCHANGED <<hStage, hReq, hAddr, hToggle, hRecv, hCount, hSince>>

\* The device acknowledged a packet of the host.
HostAcked ==
  /\ hPhase = "reply"
  /\ wire = Handshake(USBPID_ACK)
  /\ HostPuts(Silence)
  /\ hPhase' = "token"
  /\ hStage' = CASE hStage = "setup" /\ IsIn(hReq)  -> "data"
                 [] hStage = "setup" /\ ~IsIn(hReq) -> "statusIn"
                 [] hStage = "statusOut"            -> "done"
  /\ UNCHANGED <<hReq, hAddr, hToggle, hRecv, hCount, hSince>>

\* The device has nothing to say, or the packet or its answer was lost: the
\* transaction is repeated.
HostRetry ==
  /\ hPhase = "reply"
  /\ wire \in {Silence, Handshake(USBPID_NAK)}
  /\ BusFree
  /\ HostPuts(Silence)
  /\ hPhase' = "token"
  /\ UNCHANGED <<hStage, hReq, hAddr, hToggle, hRecv, hCount, hSince>>

DeviceSentData == wire.from = "device" /\ wire.pid \in DataPids

\* A data packet with the identifier of the previous one is taken for a
\* repetition: acknowledged and dropped.
HostDiscard ==
  /\ hPhase = "reply"
  /\ DeviceSentData
  /\ wire.pid # hToggle
  /\ HostPuts(HostAck)
  /\ hPhase' = "token"
  /\ UNCHANGED <<hStage, hReq, hAddr, hToggle, hRecv, hCount, hSince>>

OtherToggle(pid) == IF pid = USBPID_DATA0 THEN USBPID_DATA1 ELSE USBPID_DATA0

HostAcceptData ==
  /\ hPhase = "reply"
  /\ hStage = "data"
  /\ DeviceSentData
  /\ wire.pid = hToggle
  /\ HostPuts(HostAck)
  /\ hRecv' = Append(hRecv, wire.body)
  /\ hCount' = hCount + wire.len
  /\ hToggle' = IF EndsData(wire.len) THEN USBPID_DATA1 ELSE OtherToggle(hToggle)
  /\ hStage' = IF EndsData(wire.len) THEN "statusOut" ELSE "data"
  /\ hPhase' = "token"
  /\ UNCHANGED <<hReq, hAddr, hSince>>

\* The status stage of a request without data.
HostAcceptStatus ==
  /\ hPhase = "reply"
  /\ hStage = "statusIn"
  /\ DeviceSentData
  /\ wire.pid = hToggle
  /\ HostPuts(HostAck)
  /\ hRecv' = IF wire.len = 0 THEN hRecv ELSE Append(hRecv, wire.body)
  /\ hCount' = hCount + wire.len
  /\ hStage' = "done"
  /\ hPhase' = "token"
  /\ hAddr' = IF IsStandard(hReq, USBRQ_SET_ADDRESS) THEN hReq.lo % 128 ELSE hAddr
  /\ UNCHANGED <<hReq, hToggle, hSince>>

HostAbandon ==
  /\ MayAbandon
  /\ hStage \notin {"idle", "done"}
  /\ hPhase = "token"
  /\ BusFree
  /\ hStage' = "idle"
  /\ UNCHANGED <<vars, hPhase, hReq, hAddr, hToggle, hRecv, hCount, hSince>>

HostReset ==
  /\ MayAbandon
  /\ hStage = "idle"
  /\ BusFree
  /\ wire' = Silence
  /\ lineSE0' = TRUE
  /\ hAddr' = 0
  /\ UNCHANGED <<deviceVars, hStage, hPhase, hReq, hToggle, hRecv, hCount, hSince>>

\* The host ends the reset once the main loop has seen it.
HostResetEnd ==
  /\ lineSE0
  /\ usbDeviceAddr = 0 /\ usbNewDeviceAddr = 0
  /\ lineSE0' = FALSE
  /\ UNCHANGED <<deviceVars, wire, hostVars>>

Host == \/ HostBegin \/ HostToken \/ HostData \/ HostAcked \/ HostRetry
        \/ HostDiscard \/ HostAcceptData \/ HostAcceptStatus

-----------------------------------------------------------------------------
\* A packet is lost on its way: the receiver sees nothing.
KindOf(p) ==
  CASE p.from = "host" /\ p.pid \in TokenPids -> "token"
    [] p.from = "host" /\ p.pid \in DataPids  -> "hostData"
    [] p = HostAck                            -> "hostAck"
    [] p = Handshake(USBPID_ACK)              -> "ack"
    [] p = Handshake(USBPID_NAK)              -> "nak"
    [] p.from = "device" /\ p.pid \in DataPids -> "reply"

Lose ==
  /\ wire # Silence
  /\ KindOf(wire) \in Lossy
  /\ lost < MaxLost
  /\ lost' = lost + 1
  /\ HostPuts(Silence)
  /\ UNCHANGED <<hostVars, bootVars>>

-----------------------------------------------------------------------------
\* The processor is reset.  The startup code sets the variables back (as in
\* Init), and main starts from the beginning.
Startup ==
  /\ usbRxBuf' = [i \in 0..1 |-> [len |-> 0, body |-> NoBody]]
  /\ usbMsgPtr' = [src |-> "none", pos |-> 0]
  /\ usbTxBuf' = [pid |-> 0, body |-> NoBody]
  /\ usbTxLen' = USBPID_NAK
  /\ usbMsgLen' = USB_NO_MSG
  /\ usbMsgFlags' = "RAM"
  /\ pc' = "poll"
  /\ usbInputBufOffset' = 0 /\ usbRxLen' = 0 /\ usbRxToken' = 0 /\ usbCurrentTok' = 0
  /\ usbDeviceAddr' = 0 /\ usbNewDeviceAddr' = 0 /\ usbConfiguration' = 0
  /\ len' = 0 /\ sample' = 0

\* initUSB disconnects the device for 255 ms; the interrupt is not enabled
\* yet.
StaysConnected == "connected"
Disconnected   == "disconnected"

Restart ==
  /\ restarts < MaxRestarts
  /\ restarts' = restarts + 1
  /\ Startup
  /\ wire' = Silence
  /\ port' = Disconnected
  /\ UNCHANGED <<lineSE0, hostVars, lost>>

\* The host notices: it drops its transfer, and the address.
Notice ==
  /\ port = "disconnected"
  /\ port' = "noticed"
  /\ wire' = Silence
  /\ lineSE0' = FALSE
  /\ hStage' = "idle"
  /\ hPhase' = "token"
  /\ hAddr' = 0
  /\ hRecv' = <<>>
  /\ hCount' = 0
  /\ UNCHANGED <<deviceVars, hReq, hToggle, hSince, lost, restarts>>

\* usbDeviceConnect, after the delay.
Connect ==
  /\ port = "noticed"
  /\ port' = "connected"
  /\ UNCHANGED <<vars, hostVars, lost, restarts>>

Attached == port = "connected"

-----------------------------------------------------------------------------
Device == Attached /\ (Isr \/ Main) /\ UNCHANGED <<hostVars, lost, bootVars>>

HostGivesUp == HostAbandon \/ HostReset \/ HostResetEnd

HostRuns == port # "noticed" /\ (Host \/ HostGivesUp) /\ UNCHANGED <<lost, bootVars>>

SysNext == Device \/ HostRuns \/ Lose \/ Restart \/ Notice \/ Connect

SysSpec == SysInit /\ [][SysNext]_sysVars

\* The interrupt has the highest priority, the main loop never waits, and a
\* host controller works through its transfers.  A restarted device does not
\* stay disconnected.
SysFair ==
  /\ WF_sysVars(Attached /\ Isr /\ UNCHANGED <<hostVars, lost, bootVars>>)
  /\ WF_sysVars(Attached /\ usbPoll /\ UNCHANGED <<hostVars, lost, bootVars>>)
  /\ WF_sysVars(port # "noticed" /\ Host /\ UNCHANGED <<lost, bootVars>>)
  /\ WF_sysVars(Notice)
  /\ WF_sysVars(Connect)

FairSysSpec == SysSpec /\ SysFair

-----------------------------------------------------------------------------
\* Type invariant of the host's variables.
SysTypeOK ==
  /\ TypeOK
  /\ hStage \in {"idle", "setup", "data", "statusOut", "statusIn", "done"}
  /\ hPhase \in {"token", "data", "reply"}
  /\ hReq \in Requests \cup {NoBody}
  /\ hAddr \in 0..127
  /\ hToggle \in DataPids
  /\ hRecv \in Seq(Payloads \cup {NoBody})
  /\ hCount \in Nat
  /\ hSince \in 0..MaxSample
  /\ lost \in 0..MaxLost
  /\ port \in {"connected", "disconnected", "noticed"}
  /\ restarts \in 0..MaxRestarts

\* What a request is for, independently of how usbProcessRx computes it: the
\* source of the reply and its whole length (the application provides as
\* many bytes as it is asked for).
WantedSrc(rq) ==
  CASE rq.type # "standard" -> "mVAvg"
    [] IsStandard(rq, USBRQ_GET_DESCRIPTOR)    -> DescriptorFor(rq)
    [] IsStandard(rq, USBRQ_GET_CONFIGURATION) -> "usbConfiguration"
    [] IsStandard(rq, USBRQ_GET_STATUS) \/ IsStandard(rq, USBRQ_GET_INTERFACE) -> "zero"
    [] OTHER -> "none"

WantedLen(rq) ==
  CASE rq.type # "standard" -> rq.wLength
    [] IsStandard(rq, USBRQ_GET_DESCRIPTOR) ->
         Min2(rq.wLength, DescriptorLen[WantedSrc(rq)])
    [] IsStandard(rq, USBRQ_GET_STATUS) -> Min2(rq.wLength, 2)
    [] IsStandard(rq, USBRQ_GET_CONFIGURATION) \/ IsStandard(rq, USBRQ_GET_INTERFACE) ->
         Min2(rq.wLength, 1)
    [] OTHER -> 0

\* The host gets what it asked for: the pieces received are consecutive and
\* of the right object, none of them is missing when the data stage is over,
\* a configuration value is the current one and a temperature was read after
\* the request was made, whatever the main loop was building before (the
\* rest of an abandoned transfer included).
ReplyMatchesRequest == Attached =>
  /\ \A i \in 1..Len(hRecv) : hRecv[i] # NoBody =>
       /\ hRecv[i].src = WantedSrc(hReq)
       /\ hRecv[i].n = Min2(8, WantedLen(hReq) - 8 * (i - 1))
       /\ hRecv[i].src \in Descriptors => hRecv[i].at = 8 * (i - 1)
       /\ hRecv[i].src = "usbConfiguration" => hRecv[i].at = usbConfiguration
       /\ hRecv[i].src = "mVAvg" => hRecv[i].at >= hSince
  /\ hStage \in {"statusOut", "done"} /\ IsIn(hReq) => hCount = WantedLen(hReq)

\* Once the status stage of a request has completed, the request has taken
\* effect.
StatusMeansDone ==
  Attached /\ hStage = "done" =>
    /\ IsStandard(hReq, USBRQ_SET_CONFIGURATION) => usbConfiguration = hReq.lo
    /\ IsStandard(hReq, USBRQ_SET_ADDRESS) => usbDeviceAddr = hReq.lo % 128

\* Between two transfers the host and the device agree on the address of the
\* device, so that the next request reaches it.
AddressAgreed ==
  Attached /\ hStage \in {"idle", "done"} => usbDeviceAddr = hAddr

\* The two sides agree on the alternation of DATA0 and DATA1: the host never
\* takes new data of the device for a repetition.
ToggleAgreement ==
  [][hPhase = "reply" /\ wire.from = "device" /\ wire.pid \notin {USBPID_ACK, USBPID_NAK}
       => wire.pid = hToggle]_sysVars

\* A SETUP is refused only when it is a repetition: "we must not NAK next
\* SETUP" (asmcommon.inc), so nothing else than the same request, whose
\* acknowledgement was lost, may fill the receive buffer then.  That takes a
\* host that gives no transfer up: the request of an abandoned one may wait.
SetupNakOnlyRepeated ==
  [][(hStage = "setup" /\ wire.from = "host" /\ wire.pid = USBPID_DATA0
        /\ wire' = Handshake(USBPID_NAK))
       => usbRxToken = USBPID_SETUP /\ RxPacket.body = hReq]_sysVars

\* The address changes after the status phase of a SET_ADDRESS request, or
\* by a reset or restart, and at no other time.
AddressAfterStatus ==
  [][usbDeviceAddr' # usbDeviceAddr =>
       lineSE0 \/ ~Attached' \/ (hStage = "statusIn" /\ IsStandard(hReq, USBRQ_SET_ADDRESS))]_sysVars

\* Every transfer ends: no NAK lasts for ever, and host and device never wait
\* for each other.
EveryTransferEnds == hStage = "setup" ~> hStage = "done"

\* A restart ends whatever the loss of packets did to the two sides, a reply
\* that is forgotten and waited for ever included: the host notices, and a
\* transfer completes again.
RestartHeals == ~Attached /\ lost = MaxLost ~> Attached /\ hStage = "done"

-----------------------------------------------------------------------------
\* The device and its host implement ControlPipe.  A request is taken from
\* the moment the interrupt acknowledges its packet, and is performed by the
\* Setup step of the main loop.
WantedAnswer(rq) ==
  IF IsIn(rq) /\ WantedLen(rq) > 0 THEN [src |-> WantedSrc(rq), n |-> WantedLen(rq)]
                                   ELSE NoBody

EffectOf(rq, s) ==
  [configuration |-> IF IsStandard(rq, USBRQ_SET_CONFIGURATION) THEN rq.lo ELSE s.configuration,
   address       |-> IF IsStandard(rq, USBRQ_SET_ADDRESS) THEN rq.lo ELSE s.address]

PipeState ==
  IF hStage \in {"idle", "done"} THEN hStage
  ELSE IF ~Attached \/ (hStage = "setup" /\ ~(hPhase = "reply" /\ wire = Handshake(USBPID_ACK)))
         THEN "asked" ELSE "taken"

PipeTaken ==
  IF usbRxLen = 11 /\ usbRxToken = USBPID_SETUP /\ pc # "release"
    THEN RxPacket.body ELSE NoBody

PipeAnswer ==
  IF hStage = "done" /\ hCount > 0
    THEN [src |-> hRecv[1].src, n |-> hCount] ELSE NoBody

Pipe == INSTANCE ControlPipe WITH
  NoRequest <- NoBody, NoAnswer <- NoBody,
  Answer <- WantedAnswer, Effect <- EffectOf,
  InitialSettings <- [configuration |-> 0, address |-> 0],
  ResetSettings <- LAMBDA s : [s EXCEPT !.address = 0],
  request <- hReq, state <- PipeState, taken <- PipeTaken,
  settings <- [configuration |-> usbConfiguration, address |-> usbNewDeviceAddr],
  answer <- PipeAnswer

\* Every behaviour of the device with its host is one of ControlPipe.
ImplementsPipe == Pipe!Spec
=============================================================================
