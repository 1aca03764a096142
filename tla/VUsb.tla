-------------------------------- MODULE VUsb --------------------------------
(***************************************************************************)
(* The USB device of the thermometer: the receive interrupt of V-USB       *)
(* (usbdrv/asmcommon.inc, usbdrv/usbdrvasm12.inc), the polled half of the  *)
(* driver (usbdrv/usbdrv.c) and the two callbacks of the application       *)
(* (usbFunctionSetup and usbFunctionRead in usbtherm.c).                   *)
(*                                                                         *)
(* The interrupt routine runs to completion over one packet, so each of    *)
(* its exits is one action.  The polled half is cut at every access to a   *)
(* variable it shares with the interrupt, and pc names the next access.    *)
(* The bus is arbitrary here: any packet may arrive at any time.  Module   *)
(* UsbSystem puts a host in its place.                                     *)
(*                                                                         *)
(* The device is built for 12 MHz with usbconfig.h as it stands: endpoint 0*)
(* only, usbFunctionRead but no usbFunctionWrite, no flow control, no CRC  *)
(* check, no toggle check, messages of at most 254 bytes.                  *)
(*                                                                         *)
(* A small definition followed by a variant of itself is there in two      *)
(* forms: the first one, which nothing uses, has a fault that such code    *)
(* could have and that the properties must reveal.                         *)
(***************************************************************************)
EXTENDS Integers

CONSTANTS
  Requests,    \* the 8-byte contents a data packet may have, as setup requests
  NoBody,      \* the contents of a packet that carries no request
  ShortLens,   \* the lengths below 8 of the data packets on the bus
  Addrs,       \* the device addresses that appear on the bus
  MaxSample    \* bound: measurements taken by the main loop

Word == 0..65535

RequestType ==
  [type : {"standard", "vendor"}, dir : {"in", "out"}, bRequest : 0..255,
   lo : 0..255, hi : 0..255, wLength : Word]

ASSUME RequestsAssumption == Requests \subseteq RequestType
ASSUME ShortAssumption    == ShortLens \subseteq 0..7
ASSUME AddrsAssumption    == Addrs \subseteq 0..127 /\ 0 \in Addrs
ASSUME SampleAssumption   == MaxSample \in Nat

-----------------------------------------------------------------------------
\* Packet identifiers, as usbdrv.h defines them.
USBPID_SETUP == 45
USBPID_OUT   == 225
USBPID_IN    == 105
USBPID_DATA0 == 195
USBPID_DATA1 == 75
USBPID_ACK   == 210
USBPID_NAK   == 90
USBPID_STALL == 30

DataPids  == {USBPID_DATA0, USBPID_DATA1}
TokenPids == {USBPID_SETUP, USBPID_OUT, USBPID_IN}

\* Standard requests, and the descriptors that one of them asks for.
USBRQ_GET_STATUS        == 0
USBRQ_SET_ADDRESS       == 5
USBRQ_GET_DESCRIPTOR    == 6
USBRQ_GET_CONFIGURATION == 8
USBRQ_SET_CONFIGURATION == 9
USBRQ_GET_INTERFACE     == 10

USBDESCR_DEVICE == 1
USBDESCR_CONFIG == 2
USBDESCR_STRING == 3

\* The one request of the application.
CUSTOM_REQ_TEMP == 0

\* The marker for "no message pending": the largest length that usbMsgLen_t
\* holds, so that a message has at most 254 bytes.
USB_CFG_LONG_TRANSFERS == FALSE
USB_NO_MSG == IF USB_CFG_LONG_TRANSFERS THEN 65535 ELSE 255

\* All handshake identifiers have bit 4 set, all lengths to send have not.
IsHandshake(x) == (x \div 16) % 2 = 1

Min2(a, b) == IF a < b THEN a ELSE b

VARIABLES
  usbRxBuf,           \* the two halves of the receive buffer
  usbInputBufOffset,  \* the half the interrupt receives into
  usbRxLen,           \* 0: free, else the length of the packet to process
  usbRxToken,         \* the token that came before that packet
  usbCurrentTok,      \* the last SETUP or OUT token, 0 if none is current
  usbTxLen,           \* a length to send on the next IN, or a handshake
  usbTxBuf,           \* [pid, body]: what is sent then
  usbMsgLen,          \* bytes of the reply still to build, or USB_NO_MSG
  usbMsgFlags,        \* where they come from
  usbMsgPtr,          \* and from which byte on
  usbDeviceAddr, usbNewDeviceAddr, usbConfiguration,
  pc,                 \* the next step of the main loop
  len,                \* local of usbBuildTxBlock
  sample,             \* the number of measurements averaged into mVAvg
  wire,               \* the packet last put on the bus
  lineSE0             \* both lines low: the host resets the bus

rxVars   == <<usbRxBuf, usbInputBufOffset, usbRxLen, usbRxToken, usbCurrentTok>>
txVars   == <<usbTxLen, usbTxBuf>>
msgVars  == <<usbMsgLen, usbMsgFlags, usbMsgPtr>>
addrVars == <<usbDeviceAddr, usbNewDeviceAddr>>
mainVars == <<pc, len, sample>>
busVars  == <<wire, lineSE0>>
vars     == <<rxVars, txVars, msgVars, addrVars, usbConfiguration, mainVars, busVars>>

-----------------------------------------------------------------------------
\* Packets on the bus.
Packet(from, pid, addr, n, body) ==
  [from |-> from, pid |-> pid, addr |-> addr, len |-> n, body |-> body]

Silence         == Packet("none", 0, 0, 0, NoBody)
Token(pid, a)   == Packet("host", pid, a, 0, NoBody)
Data(pid, n, b) == Packet("host", pid, 0, n, b)
HostAck         == Packet("host", USBPID_ACK, 0, 0, NoBody)
Handshake(pid)  == Packet("device", pid, 0, 0, NoBody)

HostPackets ==
  {Token(pid, a) : pid \in TokenPids, a \in Addrs}
    \cup {Data(pid, 8, r) : pid \in DataPids, r \in Requests}
    \cup {Data(pid, n, NoBody) : pid \in DataPids, n \in ShortLens}
    \cup {HostAck}

\* Where a reply is read from.  Payload(s, a, n): n bytes of s from byte a
\* on; of the temperature and of the configuration, the value read.
Descriptors == {"device", "config", "string0", "vendor", "product"}
Scalars     == {"zero", "usbConfiguration"}
Sources     == Descriptors \cup Scalars \cup {"none"}

Payload(src, at, n) == [src |-> src, at |-> at, n |-> n]
Payloads == [src : Sources \cup {"mVAvg"}, at : Nat, n : 1..8]

ASSUME NoBodyAssumption == NoBody \notin Requests /\ NoBody \notin Payloads

-----------------------------------------------------------------------------
\* usbDriverDescriptor: the descriptor asked for, "none" if there is none
\* (the serial number string, index 3, is not configured).
DescriptorFor(rq) ==
  CASE rq.hi = USBDESCR_DEVICE -> "device"
    [] rq.hi = USBDESCR_CONFIG -> "config"
    [] rq.hi = USBDESCR_STRING /\ rq.lo = 0 -> "string0"
    [] rq.hi = USBDESCR_STRING /\ rq.lo = 1 -> "vendor"
    [] rq.hi = USBDESCR_STRING /\ rq.lo = 2 -> "product"
    [] OTHER -> "none"

\* The low byte of USB_STRING_DESCRIPTOR_HEADER: a header and two bytes for
\* each character.
StringLen(n) == 2 * n + 2

USB_CFG_VENDOR_NAME_LEN == 4
USB_CFG_DEVICE_NAME_LEN == 8

\* GET_DESCRIPTOR
DescriptorLen ==
  [d \in Descriptors \cup {"none"} |->
     CASE d \in {"device", "config"} -> 18
       [] d = "vendor"  -> StringLen(USB_CFG_VENDOR_NAME_LEN)
       [] d = "product" -> StringLen(USB_CFG_DEVICE_NAME_LEN)
       [] d = "string0" -> 4
       [] d = "none"    -> 0]

IsStandard(rq, n) == rq.type = "standard" /\ rq.bRequest = n
GetsDescriptor(rq) == IsStandard(rq, USBRQ_GET_DESCRIPTOR)

\* usbDriverSetup: the length of the reply to a standard request and where
\* it is read from.
DriverSetupLen(rq) ==
  CASE rq.bRequest = USBRQ_GET_STATUS     -> 2
    [] rq.bRequest = USBRQ_GET_DESCRIPTOR -> DescriptorLen[DescriptorFor(rq)]
    [] rq.bRequest \in {USBRQ_GET_CONFIGURATION, USBRQ_GET_INTERFACE} -> 1
    [] OTHER -> 0

DriverSetupSrc(rq) ==
  IF rq.bRequest = USBRQ_GET_CONFIGURATION THEN "usbConfiguration" ELSE "zero"

usbFunctionSetup(rq) == IF rq.bRequest = CUSTOM_REQ_TEMP THEN USB_NO_MSG ELSE 0

SetupLen(rq) ==
  IF rq.type = "standard" THEN DriverSetupLen(rq) ELSE usbFunctionSetup(rq)

\* usbProcessRx: the reply is limited to the length the host asks for; an IN
\* message of the application has that length, of which only the low byte
\* is kept.
ReplyLen(rq) ==
  IF SetupLen(rq) = USB_NO_MSG
    THEN IF rq.dir = "in" THEN rq.wLength % 256 ELSE USB_NO_MSG
    ELSE IF rq.wLength < 256 THEN Min2(SetupLen(rq), rq.wLength) ELSE SetupLen(rq)

\* What usbProcessRx hands to the setup routines: the half of the receive
\* buffer that the interrupt is not receiving into.
RxPacket == usbRxBuf[1 - usbInputBufOffset]

-----------------------------------------------------------------------------
\* What the startup code leaves in the variables.
Init ==
  /\ usbRxBuf = [i \in 0..1 |-> [len |-> 0, body |-> NoBody]]
  /\ usbInputBufOffset = 0
  /\ usbRxLen = 0
  /\ usbRxToken = 0
  /\ usbCurrentTok = 0
  /\ usbTxLen = USBPID_NAK
  /\ usbTxBuf = [pid |-> 0, body |-> NoBody]
  /\ usbMsgLen = USB_NO_MSG
  /\ usbMsgFlags = "RAM"
  /\ usbMsgPtr = [src |-> "none", pos |-> 0]
  /\ usbDeviceAddr = 0
  /\ usbNewDeviceAddr = 0
  /\ usbConfiguration = 0
  /\ pc = "poll"
  /\ len = 0
  /\ sample = 0
  /\ wire = Silence
  /\ lineSE0 = FALSE

-----------------------------------------------------------------------------
\* The interrupt routine.  Whatever it receives goes to the current half of
\* the buffer first, and is looked at there.  It starts at the sync pattern of
\* a packet of the host.
Arrives == wire.from = "host"

Receive(pids) ==
  /\ Arrives
  /\ wire.pid \in pids
  /\ usbRxBuf' = [usbRxBuf EXCEPT ![usbInputBufOffset] =
                    [len |-> wire.len, body |-> wire.body]]

ForMe == wire.addr = usbDeviceAddr

\* handleData: the previous packet has been processed.
RxFreeIgnored == TRUE
RxFree == usbRxLen = 0

\* A zero sized packet is a status stage.
ZeroSizedKept == FALSE
ZeroSized == wire.len + 3 < 4

\* The halves of the receive buffer are swapped.
OffsetKept == usbInputBufOffset
OffsetSwapped == 1 - usbInputBufOffset

\* handleIn: the data in usbTxBuf goes out, but not before a packet that may
\* replace it has been processed.
SendsUnprocessed == ~IsHandshake(usbTxLen)
Sends == usbRxLen < 1 /\ ~IsHandshake(usbTxLen)

\* The end of every data packet sent assigns the pending device address,
\* shifted left by one bit in a byte; that of a handshake does not.
AddrNotAssigned == usbDeviceAddr
AddrAssigned == usbNewDeviceAddr % 128

AddrAccepted == usbNewDeviceAddr % 128
AddrAfterHandshake == usbDeviceAddr

Reply(p) == wire' = p /\ lineSE0' = lineSE0

\* A data packet that follows no token for this device is not answered.
HandleDataIgnored ==
  /\ Receive(DataPids)
  /\ usbCurrentTok = 0
  /\ Reply(Silence)
  /\ UNCHANGED <<usbInputBufOffset, usbRxLen, usbRxToken, usbCurrentTok,
                 txVars, msgVars, addrVars, usbConfiguration, mainVars>>

\* The previous packet is not processed yet.
HandleDataBusy ==
  /\ Receive(DataPids)
  /\ usbCurrentTok # 0
  /\ ~RxFree
  /\ Reply(Handshake(USBPID_NAK))
  /\ usbDeviceAddr' = AddrAfterHandshake
  /\ UNCHANGED <<usbInputBufOffset, usbRxLen, usbRxToken, usbCurrentTok, txVars, msgVars,
                 usbNewDeviceAddr, usbConfiguration, mainVars>>

\* A zero sized packet is acknowledged and not kept.
HandleDataStatus ==
  /\ Receive(DataPids)
  /\ usbCurrentTok # 0
  /\ RxFree
  /\ ZeroSized
  /\ Reply(Handshake(USBPID_ACK))
  /\ usbDeviceAddr' = AddrAfterHandshake
  /\ UNCHANGED <<usbInputBufOffset, usbRxLen, usbRxToken, usbCurrentTok, txVars, msgVars,
                 usbNewDeviceAddr, usbConfiguration, mainVars>>

\* Any other packet is kept for usbPoll.
HandleDataStore ==
  /\ Receive(DataPids)
  /\ usbCurrentTok # 0
  /\ RxFree
  /\ ~ZeroSized
  /\ usbRxLen' = wire.len + 3
  /\ usbRxToken' = usbCurrentTok
  /\ usbInputBufOffset' = OffsetSwapped
  /\ Reply(Handshake(USBPID_ACK))
  /\ usbDeviceAddr' = AddrAfterHandshake
  /\ UNCHANGED <<usbCurrentTok, txVars, msgVars, usbNewDeviceAddr, usbConfiguration,
                 mainVars>>

\* An IN token while there is a packet to process, or nothing to send.
HandleInBusy ==
  /\ Receive({USBPID_IN})
  /\ ForMe
  /\ ~Sends
  /\ Reply(Handshake(IF usbRxLen >= 1 THEN USBPID_NAK ELSE usbTxLen))
  /\ usbDeviceAddr' = AddrAfterHandshake
  /\ UNCHANGED <<usbInputBufOffset, usbRxLen, usbRxToken, usbCurrentTok, txVars, msgVars,
                 usbNewDeviceAddr, usbConfiguration, mainVars>>

\* An IN token while a data packet is ready: it is sent, and forgotten.
HandleInSend ==
  /\ Receive({USBPID_IN})
  /\ ForMe
  /\ Sends
  /\ Reply(Packet("device", usbTxBuf.pid, 0, usbTxLen - 4, usbTxBuf.body))
  /\ usbTxLen' = USBPID_NAK
  /\ usbDeviceAddr' = AddrAssigned
  /\ UNCHANGED <<usbInputBufOffset, usbRxLen, usbRxToken, usbCurrentTok, usbTxBuf,
                 msgVars, usbNewDeviceAddr, usbConfiguration, mainVars>>

HandleSetupOrOut ==
  /\ Receive({USBPID_SETUP, USBPID_OUT})
  /\ ForMe
  /\ usbCurrentTok' = wire.pid
  /\ Reply(Silence)
  /\ UNCHANGED <<usbInputBufOffset, usbRxLen, usbRxToken,
                 txVars, msgVars, addrVars, usbConfiguration, mainVars>>

\* A token for another device, or the host's handshake.
IgnorePacket ==
  /\ \/ Receive(TokenPids) /\ ~ForMe
     \/ Receive({USBPID_ACK})
  /\ usbCurrentTok' = 0
  /\ Reply(Silence)
  /\ UNCHANGED <<usbInputBufOffset, usbRxLen, usbRxToken,
                 txVars, msgVars, addrVars, usbConfiguration, mainVars>>

Isr == \/ HandleDataIgnored \/ HandleDataBusy \/ HandleDataStatus \/ HandleDataStore
       \/ HandleInBusy \/ HandleInSend \/ HandleSetupOrOut \/ IgnorePacket

-----------------------------------------------------------------------------
\* The main loop.
At(a, b) == pc = a /\ pc' = b

\* About every second a measurement is averaged into mVAvg.
MeasureTemp ==
  /\ At("poll", "poll")
  /\ sample < MaxSample
  /\ sample' = sample + 1
  /\ UNCHANGED <<rxVars, txVars, msgVars, addrVars, usbConfiguration, len, busVars>>

\* usbPoll: is there a packet to process, and is it a setup request?
PollSetup ==
  /\ At("poll", "initToggle")
  /\ usbRxToken = USBPID_SETUP
  /\ usbRxLen - 3 = 8
  /\ UNCHANGED <<rxVars, txVars, msgVars, addrVars, usbConfiguration, len, sample, busVars>>

PollOther ==
  /\ At("poll", "release")
  /\ usbRxLen - 3 >= 0
  /\ ~(usbRxToken = USBPID_SETUP /\ usbRxLen - 3 = 8)
  /\ UNCHANGED <<rxVars, txVars, msgVars, addrVars, usbConfiguration, len, sample, busVars>>

PollNothing ==
  /\ At("poll", "txCheck")
  /\ usbRxLen - 3 < 0
  /\ UNCHANGED <<rxVars, txVars, msgVars, addrVars, usbConfiguration, len, sample, busVars>>

\* usbProcessRx writes usbTxBuf[0] first, then usbTxLen.
PidKept == usbTxBuf.pid
InitialPid == USBPID_DATA0

InitToggle ==
  /\ At("initToggle", "abortTx")
  /\ usbTxBuf' = [usbTxBuf EXCEPT !.pid = InitialPid]
  /\ UNCHANGED <<rxVars, usbTxLen, msgVars, addrVars, usbConfiguration, len, sample, busVars>>

TxNotAborted == usbTxLen
TxAborted == USBPID_NAK

AbortTx ==
  /\ At("abortTx", "setup")
  /\ usbTxLen' = TxAborted
  /\ UNCHANGED <<rxVars, usbTxBuf, msgVars, addrVars, usbConfiguration, len, sample, busVars>>

\* SET_ADDRESS leaves the address in use alone.
AddrSetAtOnce(rq) == IF IsStandard(rq, USBRQ_SET_ADDRESS) THEN rq.lo % 128 ELSE usbDeviceAddr
AddrAfterSetup(rq) == usbDeviceAddr

\* The rest of usbProcessRx, with usbDriverSetup and usbFunctionSetup.
Setup ==
  LET rq == RxPacket.body
      desc == DescriptorFor(rq)
  IN
  /\ At("setup", "release")
  /\ usbMsgLen' = ReplyLen(rq)
  /\ usbMsgFlags' = CASE SetupLen(rq) = USB_NO_MSG -> "USER_RW"
                      [] GetsDescriptor(rq)        -> "ROM"
                      [] OTHER                     -> "RAM"
  /\ usbMsgPtr' =
       CASE rq.type # "standard" -> usbMsgPtr
         [] GetsDescriptor(rq) /\ desc = "none" -> usbMsgPtr
         [] GetsDescriptor(rq) /\ desc # "none" -> [src |-> desc, pos |-> 0]
         [] OTHER -> [src |-> DriverSetupSrc(rq), pos |-> 0]
  /\ usbNewDeviceAddr' = IF IsStandard(rq, USBRQ_SET_ADDRESS) THEN rq.lo ELSE usbNewDeviceAddr
  /\ usbConfiguration' = IF IsStandard(rq, USBRQ_SET_CONFIGURATION) THEN rq.lo ELSE usbConfiguration
  /\ usbDeviceAddr' = AddrAfterSetup(rq)
  /\ UNCHANGED <<rxVars, txVars, len, sample, busVars>>

Release ==
  /\ At("release", "txCheck")
  /\ usbRxLen' = 0
  /\ UNCHANGED <<usbRxBuf, usbInputBufOffset, usbRxToken, usbCurrentTok, txVars,
                 msgVars, addrVars, usbConfiguration, len, sample, busVars>>

MustBuild == IsHandshake(usbTxLen) /\ usbMsgLen # USB_NO_MSG

TxCheck ==
  /\ pc = "txCheck"
  /\ pc' = IF MustBuild THEN "toggle" ELSE "lineCheck"
  /\ UNCHANGED <<rxVars, txVars, msgVars, addrVars, usbConfiguration, len, sample, busVars>>

\* usbBuildTxBlock.  The exclusive or of DATA0 and DATA1 is 136.
ToggledPid(pid) ==
  CASE pid = USBPID_DATA0 -> USBPID_DATA1
    [] pid = USBPID_DATA1 -> USBPID_DATA0
    [] pid = 0            -> 136

Toggle ==
  /\ At("toggle", "read")
  /\ len' = Min2(usbMsgLen, 8)
  /\ usbMsgLen' = usbMsgLen - Min2(usbMsgLen, 8)
  /\ usbTxBuf' = [usbTxBuf EXCEPT !.pid = ToggledPid(usbTxBuf.pid)]
  /\ UNCHANGED <<rxVars, usbTxLen, usbMsgFlags, usbMsgPtr, addrVars, usbConfiguration,
                 sample, busVars>>

\* usbDeviceRead and usbFunctionRead.
ReadBytes ==
  CASE usbMsgFlags = "USER_RW" -> Payload("mVAvg", sample, len)
    [] usbMsgFlags # "USER_RW" /\ usbMsgPtr.src = "usbConfiguration" ->
         Payload("usbConfiguration", usbConfiguration, len)
    [] usbMsgFlags # "USER_RW" /\ usbMsgPtr.src # "usbConfiguration" ->
         Payload(usbMsgPtr.src, usbMsgPtr.pos, len)

\* The next bytes of a descriptor follow the ones read.
PtrKept == usbMsgPtr
PtrAdvanced == [usbMsgPtr EXCEPT !.pos = @ + len]

\* A packet of up to 8 bytes; a short one is the last of the message.
ReadBlock ==
  /\ At("read", "arm")
  /\ usbTxBuf' = [usbTxBuf EXCEPT !.body = IF len > 0 THEN ReadBytes ELSE NoBody]
  /\ usbMsgPtr' = IF len > 0 /\ usbMsgFlags # "USER_RW"
                    THEN PtrAdvanced ELSE usbMsgPtr
  /\ len' = IF len <= 8 THEN len + 4 ELSE USBPID_STALL
  /\ usbMsgLen' = IF len' < 12 \/ len' = USBPID_STALL THEN USB_NO_MSG ELSE usbMsgLen
  /\ UNCHANGED <<rxVars, usbTxLen, usbMsgFlags, addrVars, usbConfiguration, sample, busVars>>

Arm ==
  /\ At("arm", "lineCheck")
  /\ usbTxLen' = len
  /\ len' = 0
  /\ UNCHANGED <<rxVars, usbTxBuf, msgVars, addrVars, usbConfiguration, sample, busVars>>

\* The end of usbPoll: a reset of the bus takes the address away.
LineCheck ==
  /\ At("lineCheck", "poll")
  /\ IF lineSE0 THEN usbNewDeviceAddr' = 0 /\ usbDeviceAddr' = 0
                ELSE UNCHANGED addrVars
  /\ UNCHANGED <<rxVars, txVars, msgVars, usbConfiguration, len, sample, busVars>>

usbPoll == \/ PollSetup \/ PollOther \/ PollNothing
           \/ InitToggle \/ AbortTx \/ Setup \/ Release
           \/ TxCheck \/ Toggle \/ ReadBlock \/ Arm \/ LineCheck

Main == MeasureTemp \/ usbPoll

-----------------------------------------------------------------------------
\* The bus: any packet, at any time, and resets.
deviceVars == <<rxVars, txVars, msgVars, addrVars, usbConfiguration, mainVars>>

BusPacket ==
  /\ wire.from # "host"
  /\ ~lineSE0
  /\ wire' \in HostPackets
  /\ UNCHANGED <<deviceVars, lineSE0>>

BusReset ==
  /\ lineSE0' = ~lineSE0
  /\ wire' = Silence
  /\ UNCHANGED deviceVars

Next == Isr \/ Main \/ BusPacket \/ BusReset

Spec == Init /\ [][Next]_vars

-----------------------------------------------------------------------------
\* Type invariant: every variable holds what the code can store in it.  In
\* particular lengths stay in their bytes, usbTxLen is a length of a packet
\* of at most 8 bytes or a handshake, and the toggle is never applied to an
\* unset packet identifier.
RxContents == {[len |-> 8, body |-> r] : r \in Requests}
                \cup {[len |-> n, body |-> NoBody] : n \in ShortLens \cup {0}}

PollPcs  == {"poll", "initToggle", "abortTx", "setup", "release", "txCheck",
             "toggle", "read", "arm", "lineCheck"}

DevicePackets ==
  {Silence, Handshake(USBPID_ACK), Handshake(USBPID_NAK)}
    \cup [from : {"device"}, pid : DataPids, addr : {0}, len : 0..8,
          body : Payloads \cup {NoBody}]

WirePackets == HostPackets \cup DevicePackets

RxTypes ==
  /\ usbRxBuf \in [0..1 -> RxContents]
  /\ usbInputBufOffset \in 0..1
  /\ usbRxLen \in 0..11
  /\ usbRxToken \in {0, USBPID_SETUP, USBPID_OUT}
  /\ usbCurrentTok \in {0, USBPID_SETUP, USBPID_OUT}

TxTypes ==
  /\ usbTxLen \in {USBPID_NAK} \cup 4..12
  /\ usbTxBuf \in [pid : {0} \cup DataPids, body : Payloads \cup {NoBody}]

MsgTypes ==
  /\ usbMsgLen \in 0..255
  /\ usbMsgFlags \in {"USER_RW", "ROM", "RAM"}
  /\ usbMsgPtr \in [src : Sources, pos : Nat]

AddrTypes ==
  /\ usbDeviceAddr \in 0..127
  /\ usbNewDeviceAddr \in 0..255
  /\ usbConfiguration \in 0..255

MainTypes == pc \in PollPcs /\ len \in 0..12 /\ sample \in 0..MaxSample

BusTypes == wire \in WirePackets /\ lineSE0 \in BOOLEAN

TypeOK == RxTypes /\ TxTypes /\ MsgTypes /\ AddrTypes /\ MainTypes /\ BusTypes

\* What the interrupt and the main loop rely on, at every step of each: the
\* strengthening of TypeOK that the other properties follow from.
BodyLen(b) == IF b = NoBody THEN 0 ELSE b.n

\* A packet to process is complete in the half that is not received into.
RxComplete == usbRxLen # 0 => usbRxLen = RxPacket.len + 3

\* The main loop works on a packet only while the interrupt sees it as such.
RxHeld == /\ pc \in {"initToggle", "abortTx", "setup"} => usbRxLen = 11
          /\ pc = "release" => usbRxLen # 0

\* The toggle is set before it is ever turned over.
PidSet == (\/ usbMsgLen # USB_NO_MSG
           \/ usbTxLen # USBPID_NAK
           \/ pc \in {"abortTx", "setup", "toggle", "read", "arm"})
            => usbTxBuf.pid \in DataPids

\* The transmitter is idle while a packet is built, and what is built and
\* what is ready to be sent has the length announced.
TxHeld == /\ pc \in {"toggle", "read", "arm"} => usbTxLen = USBPID_NAK
          /\ pc = "read" => len \in 0..8
          /\ pc = "arm"  => len = 4 + BodyLen(usbTxBuf.body)
          /\ usbTxLen # USBPID_NAK => usbTxLen = 4 + BodyLen(usbTxBuf.body)

DeviceInv == RxComplete /\ RxHeld /\ PidSet /\ TxHeld

\* While usbProcessRx works on a received packet, and until usbRxLen is
\* cleared, the interrupt leaves that packet and its token alone, whatever
\* arrives: it receives into the other half and does not swap.
ProcessingRx == pc \in {"initToggle", "abortTx", "setup", "release"}

RxStable ==
  [][ProcessingRx =>
       /\ RxPacket' = RxPacket
       /\ usbRxToken' = usbRxToken
       /\ pc # "release" => usbRxLen' = usbRxLen]_vars

\* A data packet that goes out is one that usbBuildTxBlock finished: it
\* never leaves while the main loop is between the first write to usbTxBuf
\* and the write to usbTxLen (abandoned transfers leave usbTxLen set up to
\* then), and its length is that of the contents read for it.
WritingTx == pc \in {"abortTx", "setup", "read", "arm"}

SendsData == wire.from = "host" /\ wire'.from = "device" /\ wire'.pid \in DataPids

TxWhole ==
  [][SendsData => /\ ~WritingTx
                  /\ wire'.len = BodyLen(wire'.body)]_vars

\* An acknowledged packet is not lost in the device: the acknowledgement of
\* a packet that is not zero sized leaves exactly that packet, with the token
\* it followed, for usbPoll, and nothing unprocessed was there before.
AckedMeansKept ==
  [][(/\ wire.from = "host" /\ wire.pid \in DataPids /\ wire.len > 0
      /\ wire' = Handshake(USBPID_ACK)) =>
       /\ usbRxLen = 0 /\ usbRxLen' = wire.len + 3
       /\ usbRxBuf'[1 - usbInputBufOffset'] = [len |-> wire.len, body |-> wire.body]
       /\ usbRxToken' = usbCurrentTok]_vars

=============================================================================
