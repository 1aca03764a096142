------------------------ MODULE UsbthermDriverProof ------------------------
(***************************************************************************)
(* Proofs about module UsbthermDriver, for any number of processes and     *)
(* devices, any lengths of data and message, and any sizes of reads.       *)
(***************************************************************************)
EXTENDS UsbthermDriver, SequenceTheorems, TLAPS

-----------------------------------------------------------------------------
(***************************************************************************)
(* Devices.  Where the thread of its hub is tells what is held of a        *)
(* device, and an open under way holds the lock that keeps its minor       *)
(* registered.                                                             *)
(***************************************************************************)
DevTypes ==
  /\ hub \in [Devs -> {"unbound", "probed", "bound", "forgotten", "put", "waiting",
                       "deregistered"}]
  /\ intfdata \in [Devs -> {"null", "dev"}]
  /\ dev \in [Devs -> {"free", "allocated"}]
  /\ ref \in [Devs -> {"none", "held"}]
  /\ minor \in [Devs -> {"none", "registered"}]
  /\ pc \in [Procs -> {"closed", "find", "send", "wait", "print", "open", "strlen",
                       "copy", "end"}]
  /\ file \in [Procs -> Devs]

Kept(d) ==
  /\ dev[d] = "free" => hub[d] = "unbound"
  /\ hub[d] = "unbound" => dev[d] = "free"
  /\ ref[d] = "held" => hub[d] \in {"probed", "bound", "forgotten"}
  /\ intfdata[d] = "dev" => hub[d] \in {"probed", "bound"}
  /\ minor[d] = "registered" => hub[d] \in {"bound", "forgotten", "put", "waiting"}

OpenRegistered(p) == Opening(p) => minor[file[p]] = "registered"

DevInv ==
  /\ DevTypes
  /\ \A d \in Devs : Kept(d)
  /\ \A p \in Procs : OpenRegistered(p)

LEMMA InitDevInv == Init => DevInv
BY DEF Init, DevInv, DevTypes, Kept, OpenRegistered, Opening

\* What probe and disconnect do to one device.
LEMMA HubDevInv ==
  ASSUME DevInv, NEW d \in Devs, Hub(d) PROVE DevInv'
<1>1. UNCHANGED <<pc, file>>
  BY DEF Hub, Disconnect, ProbeAlloc, ProbeRegister, DisconnectForget, DisconnectPut,
     DeregisterBegin, DeregisterEnd, DisconnectFree, HubAt
<1> USE DEF DevInv
<1>2. CASE ProbeAlloc(d)
  BY <1>1, <1>2 DEF ProbeAlloc, HubAt, DevTypes, Kept, OpenRegistered, Opening
<1>3. CASE ProbeRegister(d)
  BY <1>1, <1>3 DEF ProbeRegister, HubAt, NoReader, DevTypes, Kept, OpenRegistered, Opening
<1>4. CASE DisconnectForget(d)
  BY <1>1, <1>4 DEF DisconnectForget, HubAt, DevTypes, Kept, OpenRegistered, Opening
<1>5. CASE DisconnectPut(d)
  BY <1>1, <1>5 DEF DisconnectPut, RefAfterPut, HubAt, DevTypes, Kept, OpenRegistered, Opening
<1>6. CASE DeregisterBegin(d)
  BY <1>1, <1>6 DEF DeregisterBegin, HubAt, DevTypes, Kept, OpenRegistered, Opening
<1>7. CASE DeregisterEnd(d)
  BY <1>1, <1>7 DEF DeregisterEnd, MayDeregister, NoReader, HubAt, DevTypes, Kept,
     OpenRegistered, Opening
<1>8. CASE DisconnectFree(d)
  BY <1>1, <1>8 DEF DisconnectFree, HubAt, DevTypes, Kept, OpenRegistered, Opening
<1> QED
  BY <1>2, <1>3, <1>4, <1>5, <1>6, <1>7, <1>8 DEF Hub, Disconnect

\* A process changes nothing of a device, and it holds the lock from the
\* beginning of an open, when the minor is registered, to its end.
LEMMA ProcDevInv ==
  ASSUME DevInv, NEW p \in Procs, Proc(p) PROVE DevInv'
<1> DEFINE Inside == {"find", "send", "wait", "print"}
<1>1. UNCHANGED hubVars
  BY DEF Proc, OpenRuns, Answered, Read, OpenBegin, OpenNoDevice, OpenFind, OpenSend, OpenFails,
     OpenAnswered, PrintByte, PrintNul, ReadBegin, StrlenByte, ReadNothing, ReadLength,
     CopyByte, ReadFaults, ReadReturns, Write, Release, Goes, vars
<1>2. ASSUME NEW d \in Devs, OpenBegin(p, d) PROVE DevInv'
  BY <1>1, <1>2 DEF OpenBegin, Goes, hubVars, DevInv, DevTypes, Kept, OpenRegistered, Opening
<1>3. CASE OpenRuns(p) \/ Answered(p)
  <2>1. PICK to \in {"send", "wait", "print", "closed", "open"} :
          pc[p] \in Inside /\ pc' = [pc EXCEPT ![p] = to] /\ UNCHANGED file
    BY <1>3 DEF OpenRuns, Answered, OpenNoDevice, OpenFind, OpenSend, OpenFails, OpenAnswered,
       PrintByte, PrintNul, WriteByte, Goes
  <2> QED
    BY <1>1, <2>1 DEF hubVars, DevInv, DevTypes, Kept, OpenRegistered, Opening
<1>4. CASE Read(p) \/ Release(p)
  <2>1. PICK to \in {"open", "strlen", "copy", "end", "closed"} :
          pc' = [pc EXCEPT ![p] = to] /\ UNCHANGED file
    BY <1>4 DEF Read, ReadBegin, StrlenByte, ReadNothing, ReadLength, CopyByte,
       ReadFaults, ReadReturns, Release, Goes
  <2> QED
    BY <1>1, <2>1 DEF hubVars, DevInv, DevTypes, Kept, OpenRegistered, Opening
<1>5. CASE Write(p)
  BY <1>5 DEF Write, vars, hubVars, DevInv, DevTypes, Kept, OpenRegistered, Opening
<1> QED
  BY <1>2, <1>3, <1>4, <1>5 DEF Proc

LEMMA NextDevInv == DevInv /\ [Next]_vars => DevInv'
<1> SUFFICES ASSUME DevInv, [Next]_vars PROVE DevInv'
  OBVIOUS
<1>1. CASE UNCHANGED vars
  BY <1>1 DEF vars, hubVars, DevInv, DevTypes, Kept, OpenRegistered, Opening
<1> QED
  BY <1>1, HubDevInv, ProcDevInv DEF Next

\* An open never uses a record that was freed or a device that is gone, and
\* a disconnect leaves nothing behind (device_open and usbtherm_disconnect).
THEOREM DeviceKept == Spec => [](OpenKeepsDevice /\ NothingLeft)
<1>1. DevInv => OpenKeepsDevice /\ NothingLeft
  BY DEF DevInv, DevTypes, Kept, OpenRegistered, Opening, OpenKeepsDevice, NothingLeft
<1> QED
  BY InitDevInv, NextDevInv, <1>1, PTL DEF Spec

-----------------------------------------------------------------------------
(***************************************************************************)
(* Files.  A text is never longer than the data, so the byte at that index *)
(* is only ever a NUL; everything a process counts stays below it.         *)
(***************************************************************************)
Bytes == {NUL} \union (Procs \X (1..DATA_LEN))

BufTypes ==
  /\ message \in [0..(MSG_LEN - 1) -> Bytes]
  /\ n \in [Procs -> 0..DATA_LEN]
  /\ k \in [Procs -> 0..DATA_LEN]
  /\ offset \in [Procs -> 0..DATA_LEN]
  /\ got \in [Procs -> Seq(Bytes)]
  /\ mixed \subseteq Procs

\* The place in the file: behind what was read, but for a read under way.
Counted(p) ==
  /\ pc[p] = "print" => 1 <= n[p] /\ k[p] <= n[p]
  /\ pc[p] = "copy" => offset[p] <= Len(got[p]) /\ Len(got[p]) <= k[p]
  /\ pc[p] # "copy" => Len(got[p]) = offset[p]
  /\ pc[p] \in {"closed", "find", "send", "wait", "print"} => offset[p] = 0

\* The part of the message that is p's own while p prints it, and after.
PrintedTo(p, last) == \A j \in 0..(last - 1) : message[j] = Byte(p, j + 1)

HasOwn(p) ==
  /\ message[n[p]] = NUL
  /\ PrintedTo(p, n[p])
  /\ pc[p] \in {"strlen", "copy"} => k[p] <= n[p]
  /\ Len(got[p]) <= n[p]
  /\ \A j \in 1..Len(got[p]) : got[p][j] = Byte(p, j)
  /\ pc[p] = "end" => Len(got[p]) = n[p]

Own(p) ==
  p \notin mixed =>
    /\ pc[p] = "print" => PrintedTo(p, k[p])
    /\ pc[p] \in {"open", "strlen", "copy", "end"} => HasOwn(p)

BufInv ==
  /\ DevTypes
  /\ BufTypes
  /\ message[DATA_LEN] = NUL
  /\ \A p \in Procs : Counted(p)
  /\ \A p \in Procs : Own(p)

LEMMA InitBufInv == Init => BufInv
<1> USE DataLenAssumption, MsgLenAssumption
<1> SUFFICES ASSUME Init PROVE BufInv
  OBVIOUS
<1>1. DevTypes
  BY InitDevInv DEF DevInv
<1>2. BufTypes
  BY DEF Init, BufTypes, Bytes
<1>3. message[DATA_LEN] = NUL
  BY DEF Init
<1> QED
  BY <1>1, <1>2, <1>3 DEF Init, BufInv, Counted, Own

\* A byte of a text is one that the message may hold, and not the NUL.
LEMMA ByteFacts ==
  ASSUME NEW p \in Procs, NEW j \in 1..DATA_LEN
  PROVE  Byte(p, j) \in Bytes /\ Byte(p, j) # NUL
BY NulAssumption, DataLenAssumption DEF Byte, Bytes

\* Only printing touches the message or what is known of its owners.  Any
\* other step of p need only be shown to preserve what is said of p.
OnlyOf(p) ==
  \A q \in Procs \ {p} :
    /\ pc'[q] = pc[q] /\ n'[q] = n[q] /\ k'[q] = k[q]
    /\ offset'[q] = offset[q] /\ got'[q] = got[q]

LEMMA SilentBufInv ==
  ASSUME BufInv, NEW p \in Procs, UNCHANGED <<message, mixed>>, OnlyOf(p),
         DevTypes', BufTypes', Counted(p)', Own(p)'
  PROVE  BufInv'
<1>1. ASSUME NEW q \in Procs, q # p PROVE Counted(q)' /\ Own(q)'
  BY <1>1 DEF OnlyOf, BufInv, Counted, Own, HasOwn, PrintedTo
<1> QED
  BY <1>1 DEF BufInv

\* The steps of an open up to the answer.
LEMMA OpenBufInv ==
  ASSUME BufInv, DevTypes', NEW p \in Procs,
         \/ \E d \in Devs : OpenBegin(p, d)
         \/ OpenNoDevice(p) \/ OpenFind(p) \/ OpenSend(p) \/ OpenFails(p)
  PROVE  BufInv'
<1>1. PICK to \in {"find", "send", "wait", "closed"} :
        /\ pc[p] \in {"closed", "find", "send", "wait"}
        /\ pc' = [pc EXCEPT ![p] = to]
        /\ UNCHANGED <<message, fileVars, mixed>>
  BY DEF OpenBegin, OpenNoDevice, OpenFind, OpenSend, OpenFails, Goes
<1>2. Counted(p)' /\ Own(p)'
  BY <1>1 DEF BufInv, DevTypes, Counted, Own, fileVars
<1>3. OnlyOf(p) /\ BufTypes'
  BY <1>1 DEF OnlyOf, BufInv, DevTypes, BufTypes, fileVars
<1> QED
  BY <1>1, <1>2, <1>3, SilentBufInv

LEMMA AnswerBufInv ==
  ASSUME BufInv, DevTypes', NEW p \in Procs, NEW len \in 0..DATA_LEN, OpenAnswered(p, len)
  PROVE  BufInv'
<1> USE DataLenAssumption
<1>1. /\ pc[p] = "wait" /\ pc' = [pc EXCEPT ![p] = "print"]
      /\ n' = [n EXCEPT ![p] = Copied(len) + 1] /\ Copied(len) + 1 \in 1..DATA_LEN
      /\ k' = [k EXCEPT ![p] = 0]
      /\ UNCHANGED <<message, offset, got, mixed>>
  BY DEF OpenAnswered, Goes, Copied
<1>2. Counted(p)' /\ Own(p)'
  BY <1>1 DEF BufInv, DevTypes, BufTypes, Counted, Own, PrintedTo
<1>3. OnlyOf(p) /\ BufTypes'
  BY <1>1 DEF OnlyOf, BufInv, DevTypes, BufTypes
<1> QED
  BY <1>1, <1>2, <1>3, SilentBufInv

\* Printing takes the message away from every other process.
LEMMA PrintBufInv ==
  ASSUME BufInv, DevTypes', NEW p \in Procs, PrintByte(p) \/ PrintNul(p)
  PROVE  BufInv'
<1> USE DataLenAssumption, MsgLenAssumption
<1>1. pc[p] = "print" /\ n[p] \in 1..DATA_LEN /\ k[p] \in 0..n[p]
  BY DEF PrintByte, PrintNul, Goes, BufInv, BufTypes, Counted
<1>2. UNCHANGED <<n, offset, got>>
  BY DEF PrintByte, PrintNul, WriteByte
<1>3. /\ mixed' \subseteq Procs
      /\ \A q \in Procs \ {p} : q \in mixed'
      /\ p \notin mixed' => k[p] = 0 \/ p \notin mixed
  BY DEF PrintByte, PrintNul, WriteByte, Others, BufInv, BufTypes
<1>4. ASSUME NEW q \in Procs, q # p PROVE Counted(q)' /\ Own(q)'
  <2>1. pc'[q] = pc[q] /\ k'[q] = k[q]
    BY <1>4 DEF PrintByte, PrintNul, Goes, BufInv, BufTypes, DevTypes
  <2> QED
    BY <1>2, <1>3, <1>4, <2>1 DEF BufInv, Counted, Own
<1>5. CASE PrintByte(p)
  <2>1. /\ k[p] < n[p] /\ pc' = [pc EXCEPT ![p] = "print"]
        /\ message' = [message EXCEPT ![k[p]] = Byte(p, k[p] + 1)]
        /\ k' = [k EXCEPT ![p] = k[p] + 1]
    BY <1>5 DEF PrintByte, WriteByte, Goes
  <2>2. Byte(p, k[p] + 1) \in Bytes
    BY <1>1, <2>1, ByteFacts
  <2>3. BufTypes'
    BY <1>1, <1>2, <1>3, <2>1, <2>2 DEF BufInv, BufTypes
  <2>4. message'[DATA_LEN] = NUL
    BY <1>1, <2>1 DEF BufInv, BufTypes
  <2>5. Counted(p)'
    BY <1>1, <1>2, <2>1 DEF BufInv, BufTypes, DevTypes, Counted
  <2>6. Own(p)'
    <3> SUFFICES ASSUME p \notin mixed' PROVE PrintedTo(p, k[p])'
      BY <2>1 DEF BufInv, DevTypes, Own
    <3>1. PrintedTo(p, k[p])
      BY <1>1, <1>3 DEF BufInv, Own, PrintedTo
    <3>2. ASSUME NEW j \in 0..k[p] PROVE message'[j] = Byte(p, j + 1)
      <4>1. j \in 0..(MSG_LEN - 1) /\ message'[j] = IF j = k[p] THEN Byte(p, k[p] + 1)
                                                               ELSE message[j]
        BY <1>1, <2>1 DEF BufInv, BufTypes
      <4>2. j # k[p] => message[j] = Byte(p, j + 1)
        BY <1>1, <3>1 DEF PrintedTo
      <4> QED
        BY <4>1, <4>2
    <3>3. k'[p] = k[p] + 1
      BY <2>1 DEF BufInv, BufTypes
    <3> QED
      BY <1>1, <3>2, <3>3 DEF PrintedTo
  <2> QED
    BY <1>4, <2>3, <2>4, <2>5, <2>6 DEF BufInv
<1>6. CASE PrintNul(p)
  <2>1. /\ k[p] = n[p] /\ pc' = [pc EXCEPT ![p] = "open"]
        /\ message' = [message EXCEPT ![k[p]] = NUL]
        /\ UNCHANGED k
    BY <1>6 DEF PrintNul, WriteByte, Goes
  <2>2. BufTypes'
    BY <1>1, <1>2, <1>3, <2>1 DEF BufInv, BufTypes, Bytes
  <2>3. message'[DATA_LEN] = NUL
    BY <1>1, <2>1 DEF BufInv, BufTypes
  <2>4. Counted(p)'
    BY <1>1, <1>2, <2>1 DEF BufInv, BufTypes, DevTypes, Counted
  <2>5. Own(p)'
    <3> SUFFICES ASSUME p \notin mixed' PROVE HasOwn(p)'
      BY <2>1 DEF BufInv, DevTypes, Own
    <3>1. PrintedTo(p, n[p])
      BY <1>1, <1>3, <2>1 DEF BufInv, Own
    <3>2. PrintedTo(p, n[p])' /\ message'[n[p]] = NUL
      BY <1>1, <1>2, <2>1, <3>1 DEF BufInv, BufTypes, PrintedTo
    <3>3. Len(got[p]) = 0
      BY <1>1 DEF BufInv, Counted
    <3> QED
      BY <1>1, <1>2, <2>1, <3>2, <3>3 DEF BufInv, DevTypes, HasOwn
  <2> QED
    BY <1>4, <2>2, <2>3, <2>4, <2>5 DEF BufInv
<1> QED
  BY <1>5, <1>6

\* device_read up to the copying.
LEMMA MeasureBufInv ==
  ASSUME BufInv, DevTypes', NEW p \in Procs,
         \/ ReadBegin(p) \/ StrlenByte(p) \/ ReadNothing(p)
         \/ \E length \in ReadSizes : ReadLength(p, length)
  PROVE  BufInv'
<1> USE DataLenAssumption, MsgLenAssumption, ReadSizesAssumption
<1>1. UNCHANGED <<message, n, offset, got, mixed>>
  BY DEF ReadBegin, StrlenByte, ReadNothing, ReadLength, fileVars
<1>2. \A j \in 0..(n[p] - 1) : Byte(p, j + 1) # NUL
  BY ByteFacts DEF BufInv, BufTypes
<1>3. CASE ReadBegin(p)
  <2>1. /\ pc[p] \in {"open", "end"} /\ pc' = [pc EXCEPT ![p] = "strlen"]
        /\ k' = [k EXCEPT ![p] = 0]
    BY <1>3 DEF ReadBegin, Goes
  <2>2. OnlyOf(p) /\ BufTypes'
    BY <1>1, <2>1 DEF OnlyOf, BufInv, DevTypes, BufTypes
  <2>3. Counted(p)' /\ Own(p)'
    BY <1>1, <2>1 DEF BufInv, DevTypes, BufTypes, Counted, Own, HasOwn, PrintedTo
  <2> QED
    BY <1>1, <2>2, <2>3, SilentBufInv
<1>4. CASE StrlenByte(p)
  <2>1. /\ pc[p] = "strlen" /\ pc' = [pc EXCEPT ![p] = "strlen"]
        /\ message[k[p]] # NUL
        /\ k' = [k EXCEPT ![p] = k[p] + 1]
    BY <1>4 DEF StrlenByte, Goes
  <2>2. OnlyOf(p) /\ BufTypes'
    BY <1>1, <2>1 DEF OnlyOf, BufInv, DevTypes, BufTypes
  <2>3. Counted(p)' /\ Own(p)'
    BY <1>1, <2>1 DEF BufInv, DevTypes, BufTypes, Counted, Own, HasOwn, PrintedTo
  <2> QED
    BY <1>1, <2>2, <2>3, SilentBufInv
<1>5. CASE ReadNothing(p)
  <2>1. /\ pc[p] = "strlen" /\ pc' = [pc EXCEPT ![p] = "end"]
        /\ message[k[p]] = NUL /\ offset[p] >= k[p]
        /\ UNCHANGED k
    BY <1>5 DEF ReadNothing, Goes, fileVars
  <2>2. OnlyOf(p) /\ BufTypes'
    BY <1>1, <2>1 DEF OnlyOf, BufInv, DevTypes, BufTypes
  <2>3. Counted(p)'
    BY <1>1, <2>1 DEF BufInv, DevTypes, BufTypes, Counted
  <2>4. ASSUME p \notin mixed PROVE HasOwn(p) /\ Len(got[p]) = n[p]
    <3>1. HasOwn(p) /\ Len(got[p]) = offset[p]
      BY <2>1, <2>4 DEF BufInv, Counted, Own
    <3>2. k[p] = n[p]
      <4>1. k[p] \in Nat /\ n[p] \in Nat /\ k[p] <= n[p]
        BY <2>1, <3>1 DEF BufInv, BufTypes, HasOwn
      <4>2. k[p] < n[p] => message[k[p]] # NUL
        BY <1>2, <3>1, <4>1 DEF HasOwn, PrintedTo
      <4> QED
        BY <2>1, <4>1, <4>2
    <3>3. Len(got[p]) <= n[p] /\ offset[p] \in Nat /\ n[p] \in Nat
      BY <3>1 DEF HasOwn, BufInv, BufTypes
    <3> QED
      BY <2>1, <3>1, <3>2, <3>3
  <2>5. Own(p)'
    BY <1>1, <2>1, <2>4 DEF BufInv, DevTypes, Own, HasOwn, PrintedTo
  <2> QED
    BY <1>1, <2>2, <2>3, <2>5, SilentBufInv
<1>6. ASSUME NEW length \in ReadSizes, ReadLength(p, length) PROVE BufInv'
  <2> DEFINE last == IF k[p] - offset[p] > length THEN offset[p] + length ELSE k[p]
  <2>0. last \in Nat /\ offset[p] <= last /\ last <= k[p]
    BY <1>6 DEF ReadLength, BufInv, BufTypes
  <2>1. /\ pc[p] = "strlen" /\ pc' = [pc EXCEPT ![p] = "copy"]
        /\ k' = [k EXCEPT ![p] = last]
    BY <1>6 DEF ReadLength, Goes
  <2> HIDE DEF last
  <2>2. OnlyOf(p) /\ BufTypes'
    BY <1>1, <2>0, <2>1 DEF OnlyOf, BufInv, DevTypes, BufTypes
  <2>3. Counted(p)'
    BY <1>1, <2>0, <2>1 DEF BufInv, DevTypes, BufTypes, Counted
  <2>4. Own(p)'
    BY <1>1, <2>0, <2>1 DEF BufInv, DevTypes, BufTypes, Own, HasOwn, PrintedTo
  <2> QED
    BY <1>1, <2>2, <2>3, <2>4, SilentBufInv
<1> QED
  BY <1>3, <1>4, <1>5, <1>6

\* copy_to_user: a copied byte goes behind those read before; a fault takes
\* the bytes of this read back.
LEMMA CopyBufInv ==
  ASSUME BufInv, DevTypes', NEW p \in Procs, CopyByte(p) \/ ReadFaults(p) \/ ReadReturns(p)
  PROVE  BufInv'
<1> USE DataLenAssumption, MsgLenAssumption
<1>1. UNCHANGED <<message, n, k, mixed>> /\ pc[p] = "copy"
  BY DEF CopyByte, ReadFaults, ReadReturns, Goes
<1>2. /\ got[p] \in Seq(Bytes) /\ Len(got[p]) \in Nat
      /\ offset[p] \in 0..Len(got[p]) /\ Len(got[p]) <= k[p] /\ k[p] <= DATA_LEN
  BY <1>1 DEF BufInv, BufTypes, Counted
<1>3. CASE CopyByte(p)
  <2> DEFINE byte == message[Len(got[p])]
  <2>1. /\ pc' = [pc EXCEPT ![p] = "copy"] /\ Len(got[p]) < k[p]
        /\ got' = [got EXCEPT ![p] = Append(got[p], byte)]
        /\ UNCHANGED offset
    BY <1>3 DEF CopyByte, NextByte, Goes
  <2>2. byte \in Bytes
    BY <1>2, <2>1 DEF BufInv, BufTypes
  <2>3. /\ Append(got[p], byte) \in Seq(Bytes)
        /\ Len(Append(got[p], byte)) = Len(got[p]) + 1
        /\ \A j \in 1..Len(got[p]) : Append(got[p], byte)[j] = got[p][j]
        /\ Append(got[p], byte)[Len(got[p]) + 1] = byte
    BY <1>2, <2>2, AppendProperties
  <2>4. OnlyOf(p) /\ BufTypes'
    BY <1>1, <2>1, <2>3 DEF OnlyOf, BufInv, DevTypes, BufTypes
  <2>5. Counted(p)'
    BY <1>1, <1>2, <2>1, <2>3 DEF BufInv, DevTypes, BufTypes, Counted
  <2>6. ASSUME p \notin mixed PROVE HasOwn(p)'
    <3>1. HasOwn(p)
      BY <1>1, <2>6 DEF BufInv, Own
    <3>2. n[p] \in Nat /\ Len(got[p]) \in 0..(n[p] - 1)
      BY <1>1, <1>2, <2>1, <3>1 DEF BufInv, BufTypes, HasOwn
    <3>3. byte = Byte(p, Len(got[p]) + 1) /\ Len(got[p]) + 1 <= n[p]
      BY <3>1, <3>2 DEF HasOwn, PrintedTo
    <3>4. /\ got'[p] = Append(got[p], byte) /\ pc'[p] = "copy"
      BY <2>1 DEF BufInv, BufTypes, DevTypes
    <3>5. \A j \in 1..(Len(got[p]) + 1) : got'[p][j] = Byte(p, j)
      BY <1>2, <2>3, <3>1, <3>3, <3>4 DEF HasOwn
    <3> QED
      BY <1>1, <2>3, <3>1, <3>3, <3>4, <3>5 DEF HasOwn, PrintedTo
  <2>7. Own(p)'
    BY <1>1, <2>1, <2>6 DEF BufInv, DevTypes, Own
  <2> QED
    BY <1>1, <2>4, <2>5, <2>7, SilentBufInv
<1>4. CASE ReadFaults(p)
  <2> DEFINE kept == SubSeq(got[p], 1, offset[p])
  <2>1. /\ pc' = [pc EXCEPT ![p] = "open"]
        /\ got' = [got EXCEPT ![p] = kept]
        /\ UNCHANGED offset
    BY <1>4 DEF ReadFaults, Goes
  <2>2. /\ kept \in Seq(Bytes) /\ Len(kept) = offset[p]
        /\ \A j \in 1..offset[p] : kept[j] = got[p][j]
    BY <1>2, SubSeqProperties
  <2>3. OnlyOf(p) /\ BufTypes'
    BY <1>1, <2>1, <2>2 DEF OnlyOf, BufInv, DevTypes, BufTypes
  <2>4. Counted(p)'
    BY <1>1, <1>2, <2>1, <2>2 DEF BufInv, DevTypes, BufTypes, Counted
  <2>5. Own(p)'
    BY <1>1, <1>2, <2>1, <2>2 DEF BufInv, DevTypes, BufTypes, Own, HasOwn, PrintedTo
  <2> QED
    BY <1>1, <2>3, <2>4, <2>5, SilentBufInv
<1>5. CASE ReadReturns(p)
  <2>1. /\ pc' = [pc EXCEPT ![p] = "open"] /\ Len(got[p]) = k[p]
        /\ offset' = [offset EXCEPT ![p] = k[p]]
        /\ UNCHANGED got
    BY <1>5 DEF ReadReturns, Goes
  <2>2. OnlyOf(p) /\ BufTypes'
    BY <1>1, <1>2, <2>1 DEF OnlyOf, BufInv, DevTypes, BufTypes
  <2>3. Counted(p)'
    BY <1>1, <1>2, <2>1 DEF BufInv, DevTypes, BufTypes, Counted
  <2>4. Own(p)'
    BY <1>1, <1>2, <2>1 DEF BufInv, DevTypes, BufTypes, Own, HasOwn, PrintedTo
  <2> QED
    BY <1>1, <2>2, <2>3, <2>4, SilentBufInv
<1> QED
  BY <1>3, <1>4, <1>5

LEMMA ReleaseBufInv ==
  ASSUME BufInv, DevTypes', NEW p \in Procs, Release(p)
  PROVE  BufInv'
<1> USE DataLenAssumption
<1>1. /\ pc' = [pc EXCEPT ![p] = "closed"]
      /\ n' = [n EXCEPT ![p] = 0] /\ k' = [k EXCEPT ![p] = 0]
      /\ offset' = [offset EXCEPT ![p] = 0] /\ got' = [got EXCEPT ![p] = <<>>]
      /\ UNCHANGED <<message, mixed>>
  BY DEF Release
<1>2. OnlyOf(p) /\ BufTypes'
  BY <1>1 DEF OnlyOf, BufInv, DevTypes, BufTypes
<1>3. Counted(p)' /\ Own(p)'
  BY <1>1 DEF BufInv, DevTypes, BufTypes, Counted, Own
<1> QED
  BY <1>1, <1>2, <1>3, SilentBufInv

\* Probe and disconnect do not touch files.
LEMMA NextBufInv == BufInv /\ DevTypes' /\ [Next]_vars => BufInv'
<1> SUFFICES ASSUME BufInv, DevTypes', [Next]_vars PROVE BufInv'
  OBVIOUS
<1>1. CASE (\E d \in Devs : Hub(d)) \/ UNCHANGED vars
  <2>1. UNCHANGED <<message, pc, fileVars, mixed>>
    BY <1>1 DEF vars, Hub, Disconnect, ProbeAlloc, ProbeRegister, DisconnectForget,
       DisconnectPut, DeregisterBegin, DeregisterEnd, DisconnectFree, HubAt
  <2> QED
    BY <2>1 DEF fileVars, BufInv, BufTypes, Counted, Own, HasOwn, PrintedTo
<1>2. ASSUME NEW p \in Procs, Proc(p) PROVE BufInv'
  <2>1. CASE (\E d \in Devs : OpenBegin(p, d)) \/ OpenRuns(p) \/ Answered(p)
    BY <2>1, OpenBufInv, AnswerBufInv, PrintBufInv DEF OpenRuns, Answered
  <2>2. CASE Read(p)
    BY <2>2, MeasureBufInv, CopyBufInv DEF Read
  <2>3. CASE Write(p)
    BY <2>3 DEF Write, vars, fileVars, BufInv, BufTypes, Counted, Own, HasOwn, PrintedTo
  <2> QED
    BY <1>2, <2>1, <2>2, <2>3, ReleaseBufInv DEF Proc
<1> QED
  BY <1>1, <1>2 DEF Next

LEMMA Invariance == Spec => [](DevInv /\ BufInv)
<1>1. DevInv /\ BufInv /\ [Next]_vars => (DevInv /\ BufInv)'
  BY NextDevInv, NextBufInv DEF DevInv
<1> QED
  BY InitDevInv, InitBufInv, <1>1, PTL DEF Spec

\* However many opens and reads overlap, the message has an end within its
\* array, and strlen and copy_to_user stay inside it (device_read).
THEOREM MessageInBounds == Spec => [](TypeOK /\ MessageEnds)
<1>1. DevInv /\ BufInv => TypeOK /\ MessageEnds
  BY DataLenAssumption, MsgLenAssumption
  DEF DevInv, BufInv, DevTypes, BufTypes, Bytes, TypeOK, MessageEnds
<1> QED
  BY Invariance, <1>1, PTL

\* A file reads as the text that its own open asked for, from the first byte
\* to the last, unless another open prints over it (device_open, device_read).
THEOREM OwnTemperature == Spec => []ReadsOwnTemperature
<1>1. BufInv => ReadsOwnTemperature
  BY DEF BufInv, Own, HasOwn, ReadsOwnTemperature
<1> QED
  BY Invariance, <1>1, PTL
=============================================================================
