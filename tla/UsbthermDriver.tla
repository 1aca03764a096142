--------------------------- MODULE UsbthermDriver ---------------------------
(***************************************************************************)
(* The kernel driver (usbtherm-linux/usbtherm.c).  Devices come and go;    *)
(* processes open, read and close their device files.  Every open asks its *)
(* device for the temperature and prints the answer into one message that  *)
(* all files of all devices are read from; nothing locks it.               *)
(*                                                                         *)
(* External, as usb.h documents it: the reference that the USB core holds  *)
(* on a device from probe to the end of disconnect, and its table of       *)
(* minors.  The table is guarded by a lock: an open holds it shared, a     *)
(* device is registered and deregistered holding it exclusively, and no    *)
(* open begins while someone waits for that.                               *)
(***************************************************************************)
EXTENDS Integers, Sequences

CONSTANTS
  Procs,      \* processes
  Devs,       \* devices, each with the minor of its own
  DATA_LEN,   \* bytes asked for, 16 in the program
  MSG_LEN,    \* bytes of the message, 64 in the program
  ReadSizes,  \* sizes of the buffers that processes read into
  NUL         \* the byte that ends a text

ASSUME DataLenAssumption   == DATA_LEN \in Nat \ {0}
ASSUME MsgLenAssumption    == MSG_LEN \in Nat /\ MSG_LEN > DATA_LEN
ASSUME ReadSizesAssumption == ReadSizes \subseteq Nat \ {0}
ASSUME NulAssumption       == NUL \notin Procs \X Nat

VARIABLES
  \* of a device
  hub,       \* where probe or disconnect are, in the thread of its hub
  intfdata,  \* what the interface's data points to: "null" or "dev"
  dev,       \* the driver's record of it: "free" or "allocated"
  ref,       \* the driver's reference on it: "held" or "none"
  minor,     \* "registered" or "none"
  \* shared by all
  message,   \* bytes
  \* of a process
  pc,        \* where its system call is
  file,      \* the device it opens or has open
  n,         \* bytes printed by its open, not counting the NUL
  k,         \* index of the byte that it prints or measures next
  offset,    \* of its file
  got,       \* the bytes it has read
  mixed      \* processes that another one has printed over

hubVars == <<hub, intfdata, dev, ref, minor>>
fileVars == <<n, k, offset, got>>
vars == <<hubVars, message, pc, file, fileVars, mixed>>

\* Of the text that p reads and the newline, only their place and whose they
\* are matter.
Byte(p, j) == <<p, j>>

Init ==
  /\ hub = [d \in Devs |-> "unbound"]
  /\ intfdata = [d \in Devs |-> "null"]
  /\ dev = [d \in Devs |-> "free"]
  /\ ref = [d \in Devs |-> "none"]
  /\ minor = [d \in Devs |-> "none"]
  /\ message = [j \in 0..(MSG_LEN - 1) |-> NUL]
  /\ pc = [p \in Procs |-> "closed"]
  /\ file \in [Procs -> Devs]
  /\ n = [p \in Procs |-> 0]
  /\ k = [p \in Procs |-> 0]
  /\ offset = [p \in Procs |-> 0]
  /\ got = [p \in Procs |-> <<>>]
  /\ mixed = {}

-----------------------------------------------------------------------------
\* The lock of the USB core.
Opening(p) == pc[p] \in {"find", "send", "wait", "print"}

NoReader == \A p \in Procs : ~Opening(p)
NoWriter == \A d \in Devs : hub[d] # "waiting"

HubAt(d, from, to) ==
  /\ hub[d] = from
  /\ hub' = [hub EXCEPT ![d] = to]
  /\ UNCHANGED <<message, pc, file, fileVars, mixed>>

\* usbtherm_probe: without memory it fails.
ProbeAlloc(d) ==
  /\ HubAt(d, "unbound", "probed")
  /\ dev' = [dev EXCEPT ![d] = "allocated"]
  /\ ref' = [ref EXCEPT ![d] = "held"]
  /\ intfdata' = [intfdata EXCEPT ![d] = "dev"]
  /\ UNCHANGED minor

\* It succeeds even if the minor is refused.
ProbeRegister(d) ==
  /\ HubAt(d, "probed", "bound")
  /\ NoReader
  /\ minor' \in {[minor EXCEPT ![d] = "registered"], minor}
  /\ UNCHANGED <<intfdata, dev, ref>>

\* usbtherm_disconnect: the device is unplugged, or the driver unbound.
DisconnectForget(d) ==
  /\ HubAt(d, "bound", "forgotten")
  /\ intfdata' = [intfdata EXCEPT ![d] = "null"]
  /\ UNCHANGED <<dev, ref, minor>>

RefKept == "held"
RefAfterPut == "none"

DisconnectPut(d) ==
  /\ HubAt(d, "forgotten", "put")
  /\ ref' = [ref EXCEPT ![d] = RefAfterPut]
  /\ UNCHANGED <<intfdata, dev, minor>>

\* usb_deregister_dev does nothing if there is no minor, else it waits.
DeregisterBegin(d) ==
  /\ HubAt(d, "put", IF minor[d] = "none" THEN "deregistered" ELSE "waiting")
  /\ UNCHANGED <<intfdata, dev, ref, minor>>

MayDeregisterAnyTime(d) == hub[d] = "waiting"
MayDeregister(d) == hub[d] = "waiting" /\ NoReader

DeregisterEnd(d) ==
  /\ MayDeregister(d)
  /\ HubAt(d, "waiting", "deregistered")
  /\ minor' = [minor EXCEPT ![d] = "none"]
  /\ UNCHANGED <<intfdata, dev, ref>>

DisconnectFree(d) ==
  /\ HubAt(d, "deregistered", "unbound")
  /\ dev' = [dev EXCEPT ![d] = "free"]
  /\ UNCHANGED <<intfdata, ref, minor>>

Disconnect(d) ==
  \/ DisconnectPut(d) \/ DeregisterBegin(d) \/ DeregisterEnd(d) \/ DisconnectFree(d)

Hub(d) == ProbeAlloc(d) \/ ProbeRegister(d) \/ DisconnectForget(d) \/ Disconnect(d)

-----------------------------------------------------------------------------
\* device_open.
Goes(p, from, to) ==
  /\ pc[p] = from
  /\ pc' = [pc EXCEPT ![p] = to]
  /\ UNCHANGED hubVars

OpenBegin(p, d) ==
  /\ minor[d] = "registered"
  /\ NoWriter
  /\ Goes(p, "closed", "find")
  /\ file' = [file EXCEPT ![p] = d]
  /\ UNCHANGED <<message, fileVars, mixed>>

Found(p) == intfdata[file[p]] # "null"

\* ENODEV.
OpenNoDevice(p) ==
  /\ ~Found(p)
  /\ Goes(p, "find", "closed")
  /\ UNCHANGED <<message, file, fileVars, mixed>>

OpenFind(p) ==
  /\ Found(p)
  /\ Goes(p, "find", "send")
  /\ UNCHANGED <<message, file, fileVars, mixed>>

\* usb_control_msg, with the device found in the driver's record.
OpenSend(p) ==
  /\ Goes(p, "send", "wait")
  /\ UNCHANGED <<message, file, fileVars, mixed>>

WaitsForever == FALSE
TimesOut == TRUE

\* EIO, at the latest when the time is over.
OpenFails(p) ==
  /\ TimesOut
  /\ Goes(p, "wait", "closed")
  /\ UNCHANGED <<message, file, fileVars, mixed>>

\* strscpy leaves room for a NUL.  len is the length of the text in the
\* answer; an empty one will do.
CopiedWhole(len) == len
Copied(len) == IF len < DATA_LEN THEN len ELSE DATA_LEN - 1

OpenAnswered(p, len) ==
  /\ Goes(p, "wait", "print")
  /\ n' = [n EXCEPT ![p] = Copied(len) + 1]
  /\ k' = [k EXCEPT ![p] = 0]
  /\ UNCHANGED <<message, file, offset, got, mixed>>

\* snprintf, byte by byte, with the newline and the NUL.
Others(p) == Procs \ {p}

WriteByte(p, byte) ==
  /\ message' = [message EXCEPT ![k[p]] = byte]
  /\ mixed' = IF k[p] = 0 THEN Others(p) ELSE mixed \union Others(p)
  /\ UNCHANGED <<file, n, offset, got>>

PrintByte(p) ==
  /\ Goes(p, "print", "print")
  /\ k[p] < n[p]
  /\ WriteByte(p, Byte(p, k[p] + 1))
  /\ k' = [k EXCEPT ![p] = @ + 1]

PrintNul(p) ==
  /\ Goes(p, "print", "open")
  /\ k[p] = n[p]
  /\ WriteByte(p, NUL)
  /\ UNCHANGED k

\* device_read: strlen, and the end of the file if nothing is left.
ReadBegin(p) ==
  /\ pc[p] \in {"open", "end"}
  /\ Goes(p, pc[p], "strlen")
  /\ k' = [k EXCEPT ![p] = 0]
  /\ UNCHANGED <<message, file, n, offset, got, mixed>>

StrlenByte(p) ==
  /\ Goes(p, "strlen", "strlen")
  /\ message[k[p]] # NUL
  /\ k' = [k EXCEPT ![p] = @ + 1]
  /\ UNCHANGED <<message, file, n, offset, got, mixed>>

ReadNothing(p) ==
  /\ Goes(p, "strlen", "end")
  /\ message[k[p]] = NUL
  /\ offset[p] >= k[p]
  /\ UNCHANGED <<message, file, fileVars, mixed>>

\* From now on k is the index behind the last byte to be copied.
ReadLength(p, length) ==
  /\ Goes(p, "strlen", "copy")
  /\ message[k[p]] = NUL
  /\ offset[p] < k[p]
  /\ k' = [k EXCEPT ![p] = IF @ - offset[p] > length THEN offset[p] + length ELSE @]
  /\ UNCHANGED <<message, file, n, offset, got, mixed>>

\* copy_to_user, byte by byte, and the bytes it does not get to.
NextFromStart(p) == Len(got[p]) - offset[p]
NextByte(p) == Len(got[p])

CopyByte(p) ==
  /\ Goes(p, "copy", "copy")
  /\ Len(got[p]) < k[p]
  /\ got' = [got EXCEPT ![p] = Append(@, message[NextByte(p)])]
  /\ UNCHANGED <<message, file, n, k, offset, mixed>>

\* EFAULT.
ReadFaults(p) ==
  /\ Goes(p, "copy", "open")
  /\ Len(got[p]) < k[p]
  /\ got' = [got EXCEPT ![p] = SubSeq(@, 1, offset[p])]
  /\ UNCHANGED <<message, file, n, k, offset, mixed>>

ReadReturns(p) ==
  /\ Goes(p, "copy", "open")
  /\ Len(got[p]) = k[p]
  /\ offset' = [offset EXCEPT ![p] = k[p]]
  /\ UNCHANGED <<message, file, n, k, got, mixed>>

\* device_release.  The history of the file ends with it.
Release(p) ==
  /\ pc[p] \in {"open", "end"}
  /\ pc' = [pc EXCEPT ![p] = "closed"]
  /\ n' = [n EXCEPT ![p] = 0]
  /\ k' = [k EXCEPT ![p] = 0]
  /\ offset' = [offset EXCEPT ![p] = 0]
  /\ got' = [got EXCEPT ![p] = <<>>]
  /\ UNCHANGED <<hubVars, message, file, mixed>>

\* device_write: writing is refused.
Write(p) == pc[p] \in {"open", "end"} /\ UNCHANGED vars

OpenRuns(p) ==
  \/ OpenNoDevice(p) \/ OpenFind(p) \/ OpenSend(p) \/ OpenFails(p)
  \/ PrintByte(p) \/ PrintNul(p)

Answered(p) == \E len \in 0..DATA_LEN : OpenAnswered(p, len)

Read(p) ==
  \/ ReadBegin(p) \/ StrlenByte(p) \/ ReadNothing(p)
  \/ \E length \in ReadSizes : ReadLength(p, length)
  \/ CopyByte(p) \/ ReadFaults(p) \/ ReadReturns(p)

Proc(p) == (\E d \in Devs : OpenBegin(p, d)) \/ OpenRuns(p) \/ Answered(p) \/ Read(p)
           \/ Write(p) \/ Release(p)

Next == (\E d \in Devs : Hub(d)) \/ (\E p \in Procs : Proc(p))

Spec == Init /\ [][Next]_vars

\* The threads run.  Nobody has to plug a device, to open a file or to read
\* it, nor a device to answer.
Fairness ==
  /\ \A d \in Devs : WF_vars(Disconnect(d))
  /\ \A p \in Procs : WF_vars(OpenRuns(p))

FairSpec == Spec /\ Fairness

-----------------------------------------------------------------------------
\* Type invariant.  Every index of the message lies in it.
TypeOK ==
  /\ hub \in [Devs -> {"unbound", "probed", "bound", "forgotten", "put", "waiting",
                       "deregistered"}]
  /\ intfdata \in [Devs -> {"null", "dev"}]
  /\ dev \in [Devs -> {"free", "allocated"}]
  /\ ref \in [Devs -> {"none", "held"}]
  /\ minor \in [Devs -> {"none", "registered"}]
  /\ message \in [0..(MSG_LEN - 1) -> {NUL} \union (Procs \X (1..DATA_LEN))]
  /\ pc \in [Procs -> {"closed", "find", "send", "wait", "print", "open", "strlen",
                       "copy", "end"}]
  /\ file \in [Procs -> Devs]
  /\ n \in [Procs -> 0..DATA_LEN]
  /\ k \in [Procs -> 0..(MSG_LEN - 1)]
  /\ offset \in [Procs -> 0..(MSG_LEN - 1)]
  /\ got \in [Procs -> Seq({NUL} \union (Procs \X (1..DATA_LEN)))]
  /\ mixed \subseteq Procs

\* However opens and reads overlap, there is always a NUL within reach:
\* strlen stops, and nothing behind the longest text is copied.
MessageEnds ==
  /\ message[DATA_LEN] = NUL
  /\ \A p \in Procs : pc[p] = "copy" => k[p] <= DATA_LEN

\* An open that has found the driver's record may use it until it returns,
\* although disconnect gives everything up meanwhile: the record is freed
\* only after that, and the device is still there, because the driver's
\* reference or that of the core is.
OpenKeepsDevice ==
  \A p \in Procs :
    pc[p] \in {"send", "wait", "print"} =>
      /\ dev[file[p]] = "allocated"
      /\ hub[file[p]] # "unbound"

\* When a device is gone, so is all that was taken for it.
NothingLeft ==
  \A d \in Devs :
    hub[d] = "unbound" =>
      dev[d] = "free" /\ ref[d] = "none" /\ minor[d] = "none" /\ intfdata[d] = "null"

\* As long as no other open prints over the message, a file is the text that
\* its own open has asked for, whatever the sizes of the reads and although
\* longer texts were there before; it ends where that does.
ReadsOwnTemperature ==
  \A p \in Procs \ mixed :
    pc[p] \in {"open", "strlen", "copy", "end"} =>
      /\ Len(got[p]) <= n[p]
      /\ \A j \in 1..Len(got[p]) : got[p][j] = Byte(p, j)
      /\ pc[p] = "end" => Len(got[p]) = n[p]

\* A disconnect ends, although it waits for opens, and there may always be
\* someone who wants to open.
DisconnectEnds ==
  \A d \in Devs : hub[d] = "forgotten" ~> hub[d] = "unbound"

\* An open returns, even if the device does not answer.
OpenReturns ==
  \A p \in Procs : Opening(p) ~> ~Opening(p)
=============================================================================
