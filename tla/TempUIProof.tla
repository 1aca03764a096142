----------------------------- MODULE TempUIProof -----------------------------
(***************************************************************************)
(* Proofs about module TempUI, for any number of readings and any size of  *)
(* the pool.                                                               *)
(***************************************************************************)
EXTENDS TempUI, TLAPS

\* A process has printed when it ends, and not before.
PrintedAtEnd == \A r \in Readings : printed[r] # "nothing" <=> tool[r] = "ended"

\* A worker has a process from the time it starts one.
ProcessFromStart == \A r \in Readings :
  /\ pc[r] \in {"none", "queued", "start"} => tool[r] = "none"
  /\ pc[r] \in {"submit", "wait", "output"} => tool[r] # "none"

\* A reading that has submitted the gobbler of its process, then or after it.
HasSubmitted(r) == tool[r] # "none" /\ pc[r] \in {"wait", "output", "posted", "shown"}

\* Workers read the file, or start processes, only if told so at the start.
FileWorkers == \A r \in Readings : pc[r] = "file" => accessMethod = "DEVICEFILE"
LibusbWorkers == \A r \in Readings :
  pc[r] = "start" \/ tool[r] # "none" => accessMethod = "LIBUSB"

\* The output of a reading is what its own process printed until its end, if
\* reading it did not fail.
OutputOwn == \A r \in Readings : output[r] # NotYet =>
  /\ HasSubmitted(r)
  /\ output[r].from = r
  /\ \/ output[r].text = "exception"
     \/ tool[r] = "ended" /\ output[r] = Text(r, printed[r])

\* A reading with the command line tool succeeds after its output was read.
OutputBehind == \A r \in Readings :
  accessMethod = "LIBUSB" /\ result[r].text = "temperature" => output[r] # NotYet

OwnInv == /\ PrintedAtEnd /\ ProcessFromStart /\ FileWorkers /\ LibusbWorkers
          /\ OutputOwn /\ OutputBehind /\ OwnReading

\* done() is due for workers that have ended.
EventsEnded == \A i \in 1..Len(events) : pc[events[i]] \in {"posted", "shown"}

\* The gobblers that wait for the single thread: each reading that submitted
\* one and has no output yet has one there, and has it once.
Queued ==
  /\ \A i \in 1..Len(gobblers) : HasSubmitted(gobblers[i]) /\ output[gobblers[i]] = NotYet
  /\ \A i, j \in 1..Len(gobblers) : gobblers[i] = gobblers[j] => i = j
  /\ \A r \in Readings : HasSubmitted(r) /\ output[r] = NotYet =>
       \E i \in 1..Len(gobblers) : gobblers[i] = r

\* A process left running was submitted before any that was started later: it
\* is in front of it, or the thread is done with it.
LeftFirst ==
  /\ \A r \in Readings : \A q \in leftBefore[r] :
       tool[q] # "none" /\ pc[q] \in {"posted", "shown"}
  /\ \A i, j \in 1..Len(gobblers) : i < j => gobblers[j] \notin leftBefore[gobblers[i]]
  /\ \A r \in Readings, i \in 1..Len(gobblers) :
       output[r] # NotYet => gobblers[i] \notin leftBefore[r]

QueueInv == EventsEnded /\ Queued /\ LeftFirst

IInv == TypeOK /\ OwnInv /\ QueueInv

-----------------------------------------------------------------------------
\* Nothing was read and nothing is queued at first.
LEMMA InitIInv == Init => IInv
<1> SUFFICES ASSUME Init PROVE IInv
  OBVIOUS
<1>1. TypeOK
  BY ReadingsAssumption DEF Init, TypeOK, Readings, NotYet
<1>2. OwnInv
  BY DEF Init, OwnInv, PrintedAtEnd, ProcessFromStart, FileWorkers, LibusbWorkers, OutputOwn,
    OutputBehind, OwnReading, HasSubmitted, NotYet
<1>3. QueueInv
  BY DEF Init, QueueInv, EventsEnded, Queued, HasSubmitted, LeftFirst
<1> QED
  BY <1>1, <1>2, <1>3 DEF IInv

\* A worker that is begun, gets a thread, or goes on inside read(), without
\* starting its process or submitting its gobbler, leaves the queues alone.
LEMMA WorkerMoves ==
  ASSUME IInv, NEW r \in Readings, Execute(r) \/ TakeThread(r) \/ Completed(r)
  PROVE  IInv'
<1> USE DEF IInv
<1>1. PICK to \in {"queued", "start", "file", "output"} :
        /\ pc' = [pc EXCEPT ![r] = to]
        /\ to = "file" => accessMethod = "DEVICEFILE"
        /\ to = "start" => accessMethod = "LIBUSB"
        /\ pc[r] \in {"none", "queued", "wait"}
        /\ to # "output" => pc[r] # "wait"
        /\ to = "output" => pc[r] = "wait" /\ tool[r] = "ended"
  <2>1. CASE Execute(r)
    BY <2>1 DEF Execute, Goes
  <2>2. CASE TakeThread(r)
    BY <2>2 DEF TakeThread, Goes, TypeOK
  <2>3. CASE Completed(r)
    BY <2>3 DEF Completed, Goes
  <2> QED
    BY <2>1, <2>2, <2>3
<1>2. UNCHANGED <<accessMethod, tool, printed, gobblers, output, result, events, label,
                  leftBefore>>
  BY DEF Execute, TakeThread, Completed, readVars
<1>3. TypeOK'
  BY <1>1, <1>2 DEF TypeOK
<1>4. OwnInv'
  BY <1>1, <1>2 DEF TypeOK, OwnInv, PrintedAtEnd, ProcessFromStart, FileWorkers, LibusbWorkers,
    OutputOwn, OutputBehind, OwnReading, HasSubmitted
<1>5. \A q \in Readings : HasSubmitted(q)' <=> HasSubmitted(q)
  BY <1>1, <1>2 DEF TypeOK, HasSubmitted, OwnInv, ProcessFromStart
<1>6. QueueInv'
  <2>1. \A q \in Readings : pc[q] \in {"posted", "shown"} => pc'[q] = pc[q]
    BY <1>1 DEF TypeOK
  <2>2. EventsEnded'
    BY <1>2, <2>1 DEF TypeOK, QueueInv, EventsEnded
  <2>3. Queued'
    BY <1>2, <1>5 DEF TypeOK, QueueInv, Queued
  <2>4. LeftFirst'
    BY <1>2, <2>1 DEF TypeOK, QueueInv, LeftFirst
  <2> QED
    BY <2>2, <2>3, <2>4 DEF QueueInv
<1> QED
  BY <1>3, <1>4, <1>6

\* A worker that starts its process has no gobbler yet, and no output.
LEMMA StartIInv == ASSUME IInv, NEW r \in Readings, Start(r) PROVE IInv'
<1> USE DEF IInv
<1>1. /\ pc[r] = "start" /\ pc' = [pc EXCEPT ![r] = "submit"]
      /\ tool[r] = "none" /\ tool' = [tool EXCEPT ![r] = "init"]
      /\ leftBefore' = [leftBefore EXCEPT ![r] = LeftRunning]
      /\ UNCHANGED <<accessMethod, printed, gobblers, output, result, events, label>>
  BY DEF Start, Goes, OwnInv, ProcessFromStart
<1>2. LeftRunning \subseteq Readings
  BY DEF LeftRunning
<1>3. TypeOK'
  BY <1>1, <1>2 DEF TypeOK
<1>4. OwnInv'
  BY <1>1 DEF TypeOK, OwnInv, PrintedAtEnd, ProcessFromStart, FileWorkers, LibusbWorkers,
    OutputOwn, OutputBehind, OwnReading, HasSubmitted
<1>5. \A q \in Readings : HasSubmitted(q)' <=> HasSubmitted(q)
  BY <1>1 DEF TypeOK, HasSubmitted
<1>6. QueueInv'
  <2>1. \A q \in Readings : q # r => pc'[q] = pc[q] /\ tool'[q] = tool[q]
    BY <1>1 DEF TypeOK
  <2>2. EventsEnded'
    BY <1>1, <2>1 DEF TypeOK, QueueInv, EventsEnded
  <2>3. Queued'
    BY <1>1, <1>5 DEF TypeOK, QueueInv, Queued
  <2>4. output[r] = NotYet /\ ~HasSubmitted(r)
    BY <1>1 DEF OwnInv, OutputOwn, HasSubmitted
  <2>5. \A i \in 1..Len(gobblers) : gobblers[i] \in Readings \ {r}
    BY <2>4 DEF TypeOK, QueueInv, Queued
  <2>6. \A p \in Readings : p # r => leftBefore'[p] = leftBefore[p]
    BY <1>1 DEF TypeOK
  <2>7. LeftFirst'
    <3>1. \A p \in Readings : \A q \in leftBefore'[p] :
            q \in Readings /\ q # r /\ tool[q] # "none" /\ pc[q] \in {"posted", "shown"}
      <4>1. leftBefore'[r] = LeftRunning
        BY <1>1 DEF TypeOK
      <4> QED
        BY <1>1, <2>6, <4>1 DEF TypeOK, QueueInv, LeftFirst, LeftRunning
    <3>2. \A p \in Readings : \A q \in leftBefore'[p] :
            tool'[q] # "none" /\ pc'[q] \in {"posted", "shown"}
      BY <2>1, <3>1
    <3>3. \A i, j \in 1..Len(gobblers) :
            i < j => gobblers[j] \notin leftBefore'[gobblers[i]]
      BY <2>5, <2>6 DEF QueueInv, LeftFirst
    <3>4. \A p \in Readings, i \in 1..Len(gobblers) :
            output[p] # NotYet => gobblers[i] \notin leftBefore'[p]
      BY <2>4, <2>6 DEF QueueInv, LeftFirst
    <3> QED
      BY <1>1, <3>2, <3>3, <3>4 DEF LeftFirst
  <2> QED
    BY <2>2, <2>3, <2>7 DEF QueueInv
<1> QED
  BY <1>3, <1>4, <1>6

\* A worker that submits its gobbler joins the end of the queue, and nobody
\* has left its process behind.
LEMMA SubmitIInv == ASSUME IInv, NEW r \in Readings, Submit(r) PROVE IInv'
<1> USE DEF IInv
<1>1. /\ pc[r] = "submit" /\ pc' = [pc EXCEPT ![r] = "wait"]
      /\ gobblers' = Append(gobblers, r)
      /\ UNCHANGED <<accessMethod, tool, printed, output, result, events, label, leftBefore>>
  BY DEF Submit, Goes
<1>2. /\ gobblers \in Seq(Readings) /\ Len(gobblers) \in Nat
      /\ gobblers' \in Seq(Readings) /\ Len(gobblers') = Len(gobblers) + 1
      /\ gobblers'[Len(gobblers) + 1] = r
      /\ \A i \in 1..Len(gobblers) : gobblers'[i] = gobblers[i] /\ gobblers[i] \in Readings
      /\ \A i \in 1..Len(gobblers') : i \in 1..Len(gobblers) \/ i = Len(gobblers) + 1
  BY <1>1 DEF TypeOK
<1>3. TypeOK'
  BY <1>1, <1>2 DEF TypeOK
<1>4. OwnInv'
  BY <1>1 DEF TypeOK, OwnInv, PrintedAtEnd, ProcessFromStart, FileWorkers, LibusbWorkers,
    OutputOwn, OutputBehind, OwnReading, HasSubmitted
<1>5. output[r] = NotYet /\ tool[r] # "none" /\ ~HasSubmitted(r)
  BY <1>1 DEF OwnInv, ProcessFromStart, OutputOwn, HasSubmitted
<1>6. \A q \in Readings : HasSubmitted(q)' <=> HasSubmitted(q) \/ q = r
  BY <1>1, <1>5 DEF TypeOK, HasSubmitted
<1>7. QueueInv'
  <2>1. \A q \in Readings : q # r => pc'[q] = pc[q]
    BY <1>1 DEF TypeOK
  <2>2. EventsEnded'
    BY <1>1, <2>1 DEF TypeOK, QueueInv, EventsEnded
  <2>3. \A i \in 1..Len(gobblers) : gobblers[i] # r
    BY <1>5 DEF QueueInv, Queued
  <2>4. Queued'
    <3>1. \A i \in 1..Len(gobblers'), q \in Readings :
            q = gobblers'[i] => HasSubmitted(q)' /\ output'[q] = NotYet
      BY <1>1, <1>2, <1>5, <1>6 DEF QueueInv, Queued
    <3>2. \A i, j \in 1..Len(gobblers') : gobblers'[i] = gobblers'[j] => i = j
      BY <1>2, <2>3 DEF QueueInv, Queued
    <3>3. \A q \in Readings : HasSubmitted(q)' /\ output'[q] = NotYet =>
            \E i \in 1..Len(gobblers') : gobblers'[i] = q
      <4> SUFFICES ASSUME NEW q \in Readings, HasSubmitted(q)', output'[q] = NotYet
                   PROVE  \E i \in 1..Len(gobblers') : gobblers'[i] = q
        OBVIOUS
      <4>1. CASE q = r
        BY <1>2, <4>1
      <4>2. CASE q # r
        <5>1. PICK i \in 1..Len(gobblers) : gobblers[i] = q
          BY <1>1, <1>6, <4>2 DEF QueueInv, Queued
        <5> QED
          BY <1>2, <5>1
      <4> QED
        BY <4>1, <4>2
    <3> QED
      BY <1>2, <3>1, <3>2, <3>3 DEF Queued, HasSubmitted
  <2>5. \A p \in Readings : r \notin leftBefore[p]
    BY <1>1 DEF QueueInv, LeftFirst
  <2>6. LeftFirst'
    <3>1. \A p \in Readings : \A q \in leftBefore[p] :
            tool'[q] # "none" /\ pc'[q] \in {"posted", "shown"}
      BY <1>1, <2>1, <2>5 DEF TypeOK, QueueInv, LeftFirst
    <3>2. \A i, j \in 1..Len(gobblers') :
            i < j => gobblers'[j] \notin leftBefore[gobblers'[i]]
      <4> SUFFICES ASSUME NEW i \in 1..Len(gobblers'), NEW j \in 1..Len(gobblers'), i < j
                   PROVE  gobblers'[j] \notin leftBefore[gobblers'[i]]
        OBVIOUS
      <4>1. i \in 1..Len(gobblers) /\ gobblers'[i] = gobblers[i] /\ gobblers[i] \in Readings
        BY <1>2
      <4>2. CASE j = Len(gobblers) + 1
        BY <1>2, <2>5, <4>1, <4>2
      <4>3. CASE j \in 1..Len(gobblers)
        BY <1>2, <4>1, <4>3 DEF QueueInv, LeftFirst
      <4> QED
        BY <1>2, <4>2, <4>3
    <3>3. \A p \in Readings, i \in 1..Len(gobblers') :
            output[p] # NotYet => gobblers'[i] \notin leftBefore[p]
      BY <1>2, <2>5 DEF QueueInv, LeftFirst
    <3> QED
      BY <1>1, <3>1, <3>2, <3>3 DEF LeftFirst
  <2> QED
    BY <2>2, <2>4, <2>6 DEF QueueInv
<1> QED
  BY <1>3, <1>4, <1>7

\* A worker that ends leaves its gobbler, and its process, where they are.
LEMMA WorkerEnds ==
  ASSUME IInv, NEW r \in Readings,
         FileRead(r) \/ StartFails(r) \/ TimeOut(r) \/ GetOutput(r)
  PROVE  IInv'
<1> USE DEF IInv
<1>1. PICK res \in {Failed(r), Text(r, "temperature")} :
         /\ EndsWith(r, res)
         /\ accessMethod = "LIBUSB" /\ res # Failed(r) =>
              printed[r] = "temperature" /\ output[r] # NotYet
  <2>1. CASE GetOutput(r)
    <3>1. /\ EndsWith(r, ResultOf(r))
          /\ output[r] # NotYet
          /\ output[r].text = "exception" \/ output[r] = Text(r, printed[r])
      BY <2>1 DEF GetOutput, OutputOf, OwnInv, OutputOwn
    <3>2. ResultOf(r) = Failed(r) \/ (ResultOf(r) = output[r] /\ output[r].text = "temperature")
      BY DEF ResultOf, OutputOf
    <3>3. output[r].text = "temperature" =>
            printed[r] = "temperature" /\ output[r] = Text(r, "temperature")
      BY <3>1 DEF Text
    <3> QED
      BY <3>1, <3>2, <3>3
  <2>2. CASE FileRead(r)
    <3>1. accessMethod # "LIBUSB"
      BY <2>2 DEF FileRead, OwnInv, FileWorkers
    <3> QED
      BY <2>2, <3>1 DEF FileRead
  <2>3. CASE StartFails(r) \/ TimeOut(r)
    BY <2>3 DEF StartFails, TimeOut
  <2> QED
    BY <2>1, <2>2, <2>3
<1>2. /\ pc[r] \in {"file", "start", "wait", "output"}
      /\ UNCHANGED readVars
  BY DEF FileRead, StartFails, TimeOut, GetOutput
<1>3. /\ pc' = [pc EXCEPT ![r] = "posted"]
      /\ result' = [result EXCEPT ![r] = res]
      /\ events' = Append(events, r)
      /\ UNCHANGED <<accessMethod, tool, printed, gobblers, output, label>>
      /\ \A p \in Readings : leftBefore'[p] \subseteq leftBefore[p]
      /\ leftBefore' \in [Readings -> SUBSET Readings]
  BY <1>1, <1>2 DEF EndsWith, readVars, TypeOK
<1>4. /\ Failed(r) # Text(r, "temperature")
      /\ res.from = r /\ res.text \in {"failure", "temperature"}
      /\ res.text = "temperature" => res # Failed(r)
      /\ res \in [from : 0..MaxReadings, text : {"none", "failure", "temperature"}]
  BY ReadingsAssumption DEF Failed, Text, Readings
<1>5. TypeOK'
  BY <1>3, <1>4 DEF TypeOK
<1>6. OwnInv'
  BY <1>1, <1>2, <1>3, <1>4 DEF TypeOK, OwnInv, PrintedAtEnd, ProcessFromStart, FileWorkers,
    LibusbWorkers, OutputOwn, OutputBehind, OwnReading, HasSubmitted
<1>7. tool[r] # "none" => HasSubmitted(r)
  BY <1>2 DEF HasSubmitted, OwnInv, ProcessFromStart, LibusbWorkers, FileWorkers
<1>8. \A q \in Readings : HasSubmitted(q)' <=> HasSubmitted(q)
  BY <1>3, <1>7 DEF TypeOK, HasSubmitted
<1>9. QueueInv'
  <2>1. \A q \in Readings : pc[q] \in {"posted", "shown"} => pc'[q] = pc[q]
    BY <1>2, <1>3 DEF TypeOK
  <2>2. EventsEnded'
    <3>1. pc'[r] = "posted" /\ \A i \in 1..Len(events) : events[i] \in Readings
      BY <1>3 DEF TypeOK
    <3>2. \A i \in 1..Len(events) : pc'[events[i]] \in {"posted", "shown"}
      BY <2>1, <3>1 DEF QueueInv, EventsEnded
    <3>3. \A i \in 1..Len(events') :
            events'[i] = r \/ (i \in 1..Len(events) /\ events'[i] = events[i])
      BY <1>3 DEF TypeOK
    <3> QED
      BY <3>1, <3>2, <3>3 DEF EventsEnded
  <2>3. Queued'
    BY <1>3, <1>8 DEF TypeOK, QueueInv, Queued
  <2>4. LeftFirst'
    <3>1. \A i \in 1..Len(gobblers) : gobblers[i] \in Readings
      BY DEF TypeOK
    <3>2. \A p \in Readings : \A q \in leftBefore'[p] :
            tool'[q] # "none" /\ pc'[q] \in {"posted", "shown"}
      BY <1>3, <2>1 DEF TypeOK, QueueInv, LeftFirst
    <3> QED
      BY <1>3, <3>1, <3>2 DEF QueueInv, LeftFirst
  <2> QED
    BY <2>2, <2>3, <2>4 DEF QueueInv
<1> QED
  BY <1>5, <1>6, <1>9

\* The event thread shows a worker that has ended.
LEMMA DoneIInv == ASSUME IInv, Done PROVE IInv'
<1> USE DEF IInv
<1>1. /\ Len(events) \in Nat /\ 1 \in 1..Len(events)
      /\ Head(events) = events[1]
      /\ \A i \in 1..Len(events) : events[i] \in Readings
      /\ \A i \in 1..Len(events') : events'[i] = events[i + 1] /\ i + 1 \in 1..Len(events)
      /\ events' \in Seq(Readings)
  BY DEF Done, TypeOK
<1>2. /\ pc' = [pc EXCEPT ![events[1]] = "shown"]
      /\ pc[events[1]] \in {"posted", "shown"}
      /\ label' = events[1]
      /\ UNCHANGED <<accessMethod, tool, printed, gobblers, output, result, leftBefore>>
  BY <1>1 DEF Done, readVars, QueueInv, EventsEnded
<1>3. TypeOK'
  BY <1>1, <1>2 DEF TypeOK, Readings
<1>4. OwnInv'
  BY <1>1, <1>2 DEF TypeOK, OwnInv, PrintedAtEnd, ProcessFromStart, FileWorkers, LibusbWorkers,
    OutputOwn, OutputBehind, OwnReading, HasSubmitted
<1>5. \A q \in Readings :
        /\ pc[q] \in {"posted", "shown"} <=> pc'[q] \in {"posted", "shown"}
        /\ HasSubmitted(q)' <=> HasSubmitted(q)
  BY <1>1, <1>2 DEF TypeOK, HasSubmitted
<1>6. QueueInv'
  <2>1. EventsEnded'
    <3> SUFFICES ASSUME NEW i \in 1..Len(events')
                 PROVE  pc'[events'[i]] \in {"posted", "shown"}
      BY DEF EventsEnded
    <3>1. i + 1 \in 1..Len(events) /\ events'[i] = events[i + 1] /\ events[i + 1] \in Readings
      BY <1>1
    <3> QED
      BY <1>5, <3>1 DEF QueueInv, EventsEnded
  <2>2. Queued'
    BY <1>2, <1>5 DEF TypeOK, QueueInv, Queued
  <2>3. LeftFirst'
    BY <1>2, <1>5 DEF TypeOK, QueueInv, LeftFirst
  <2> QED
    BY <2>1, <2>2, <2>3 DEF QueueInv
<1> QED
  BY <1>3, <1>4, <1>6

\* The thread that reads output is done with the first gobbler: what waits
\* behind it was not left running before its process was started.
LEMMA GobbleIInv == ASSUME IInv, Gobble \/ GobbleFails PROVE IInv'
<1> USE DEF IInv
<1> DEFINE h == Head(gobblers)
<1>0. gobblers \in Seq(Readings) /\ gobblers # <<>> /\ gobblers' = Tail(gobblers)
  BY DEF Gobble, GobbleFails, GobblerEnds, TypeOK
<1>1. /\ Len(gobblers) \in Nat /\ 1 \in 1..Len(gobblers)
      /\ h = gobblers[1] /\ h \in Readings
      /\ gobblers' \in Seq(Readings)
      /\ Len(gobblers') = Len(gobblers) - 1
      /\ \A i \in 1..Len(gobblers') :
           gobblers'[i] = gobblers[i + 1] /\ i + 1 \in 1..Len(gobblers)
  BY <1>0
<1>2. PICK text \in {"nothing", "message", "temperature", "exception"} :
        /\ output' = [output EXCEPT ![h] = Text(h, text)]
        /\ text = "exception" \/ (tool[h] = "ended" /\ text = printed[h])
        /\ UNCHANGED <<accessMethod, pc, tool, printed, result, events, label, leftBefore>>
  BY <1>1 DEF Gobble, GobbleFails, GobblerEnds, AtEnd, TypeOK
<1>3. /\ output'[h] = Text(h, text) /\ Text(h, text) # NotYet /\ Text(h, text).from = h
      /\ \A q \in Readings : q # h => output'[q] = output[q]
  BY <1>1, <1>2 DEF TypeOK, Text, NotYet, Readings
<1>4. TypeOK'
  <2>1. Text(h, text) \in [from : 0..MaxReadings,
                           text : {"none", "nothing", "message", "temperature", "exception"}]
    BY <1>1 DEF Text, Readings
  <2> QED
    BY <1>1, <1>2, <2>1 DEF TypeOK
<1>5. HasSubmitted(h) /\ output[h] = NotYet
  BY <1>1 DEF QueueInv, Queued
<1>6. OwnInv'
  <2>1. OutputOwn'
    <3>1. \/ Text(h, text).text = "exception"
          \/ tool[h] = "ended" /\ Text(h, text) = Text(h, printed[h])
      BY <1>2 DEF Text
    <3> QED
      BY <1>2, <1>3, <1>5, <3>1 DEF OwnInv, OutputOwn, HasSubmitted
  <2> QED
    BY <1>2, <1>3, <2>1 DEF OwnInv, PrintedAtEnd, ProcessFromStart, FileWorkers, LibusbWorkers,
      OutputBehind, OwnReading
<1>7. QueueInv'
  <2>1. EventsEnded'
    BY <1>2 DEF QueueInv, EventsEnded
  <2>2. \A i \in 1..Len(gobblers') : gobblers'[i] \in Readings /\ gobblers'[i] # h
    <3> SUFFICES ASSUME NEW i \in 1..Len(gobblers')
                 PROVE  gobblers'[i] \in Readings /\ gobblers'[i] # h
      OBVIOUS
    <3>1. /\ gobblers'[i] = gobblers[i + 1] /\ i + 1 \in 1..Len(gobblers) /\ i + 1 # 1
          /\ gobblers[i + 1] \in Readings
      BY <1>0, <1>1
    <3> QED
      BY <1>1, <3>1 DEF QueueInv, Queued
  <2>3. \A i \in 1..Len(gobblers'), q \in Readings :
          q = gobblers'[i] => HasSubmitted(q) /\ output[q] = NotYet
    BY <1>1 DEF QueueInv, Queued
  <2>4. \A i, j \in 1..Len(gobblers') : gobblers'[i] = gobblers'[j] => i = j
    <3> SUFFICES ASSUME NEW i \in 1..Len(gobblers'), NEW j \in 1..Len(gobblers'),
                        gobblers'[i] = gobblers'[j]
                 PROVE  i = j
      OBVIOUS
    <3>1. /\ i + 1 \in 1..Len(gobblers) /\ j + 1 \in 1..Len(gobblers)
          /\ gobblers[i + 1] = gobblers[j + 1]
      BY <1>1
    <3>2. i + 1 = j + 1
      BY <3>1 DEF QueueInv, Queued
    <3> QED
      BY <3>2
  <2>5. \A q \in Readings : HasSubmitted(q) /\ output'[q] = NotYet =>
          \E i \in 1..Len(gobblers') : gobblers'[i] = q
    <3> SUFFICES ASSUME NEW q \in Readings, HasSubmitted(q), output'[q] = NotYet
                 PROVE  \E i \in 1..Len(gobblers') : gobblers'[i] = q
      OBVIOUS
    <3>1. q # h /\ output[q] = NotYet
      BY <1>3
    <3>2. PICK i \in 1..Len(gobblers) : gobblers[i] = q
      BY <3>1 DEF QueueInv, Queued
    <3>3. i # 1
      BY <1>1, <3>1, <3>2
    <3>4. i - 1 \in 1..Len(gobblers') /\ (i - 1) + 1 = i
      BY <1>1, <3>2, <3>3
    <3>5. gobblers'[i - 1] = gobblers[i]
      BY <1>1, <3>4
    <3> QED
      BY <3>2, <3>4, <3>5
  <2>6. Queued'
    BY <1>2, <1>3, <2>2, <2>3, <2>4, <2>5 DEF Queued, HasSubmitted
  <2>7. LeftFirst'
    <3>1. \A i, j \in 1..Len(gobblers') : i < j => gobblers'[j] \notin leftBefore[gobblers'[i]]
      <4> SUFFICES ASSUME NEW i \in 1..Len(gobblers'), NEW j \in 1..Len(gobblers'), i < j
                   PROVE  gobblers'[j] \notin leftBefore[gobblers'[i]]
        OBVIOUS
      <4>1. i + 1 \in 1..Len(gobblers) /\ j + 1 \in 1..Len(gobblers) /\ i + 1 < j + 1
        BY <1>1
      <4> QED
        BY <1>1, <4>1 DEF QueueInv, LeftFirst
    <3>2. \A p \in Readings, i \in 1..Len(gobblers') :
            output'[p] # NotYet => gobblers'[i] \notin leftBefore[p]
      <4> SUFFICES ASSUME NEW p \in Readings, NEW i \in 1..Len(gobblers'), output'[p] # NotYet
                   PROVE  gobblers[i + 1] \notin leftBefore[p]
        BY <1>1
      <4>1. i + 1 \in 1..Len(gobblers) /\ 1 < i + 1
        BY <1>1
      <4>2. CASE p = h
        BY <1>1, <4>1, <4>2 DEF QueueInv, LeftFirst
      <4>3. CASE p # h
        BY <1>3, <4>1, <4>3 DEF QueueInv, LeftFirst
      <4> QED
        BY <4>2, <4>3
    <3> QED
      BY <1>2, <3>1, <3>2 DEF QueueInv, LeftFirst
  <2> QED
    BY <2>1, <2>6, <2>7 DEF QueueInv
<1> QED
  BY <1>4, <1>6, <1>7

\* The tool goes on, or prints and ends.
LEMMA ToolIInv == ASSUME IInv, NEW r \in Readings, Tool(r) PROVE IInv'
<1> USE DEF IInv
<1>1. PICK to \in {"open", "transfer", "ended"}, text \in {"nothing", "message", "temperature"} :
        /\ tool[r] \in {"init", "open", "transfer"}
        /\ tool' = [tool EXCEPT ![r] = to]
        /\ printed' = [printed EXCEPT ![r] = text]
        /\ text # "nothing" <=> to = "ended"
        /\ UNCHANGED toolUnchanged
  <2>1. CASE \E from \in {"init", "open", "transfer"}, text \in {"message", "temperature"} :
               ToolPrints(r, from, text)
    BY <2>1 DEF ToolPrints, ToolAt
  <2>2. CASE \E from \in {"init", "open"}, to \in {"open", "transfer"} : ToolGoesOn(r, from, to)
    <3>1. printed' = [printed EXCEPT ![r] = "nothing"]
      BY <2>2 DEF ToolGoesOn, ToolAt, TypeOK, OwnInv, PrintedAtEnd
    <3> QED
      BY <2>2, <3>1 DEF ToolGoesOn, ToolAt
  <2> QED
    BY <2>1, <2>2 DEF Tool, libusb_init, libusb_open_device, TransferFails, TransferAnswered
<1>2. UNCHANGED <<accessMethod, pc, gobblers, output, result, events, label, leftBefore>>
  BY <1>1 DEF toolUnchanged
<1>3. TypeOK'
  BY <1>1, <1>2 DEF TypeOK
<1>4. OwnInv'
  BY <1>1, <1>2 DEF TypeOK, OwnInv, PrintedAtEnd, ProcessFromStart, FileWorkers, LibusbWorkers,
    OutputOwn, OutputBehind, OwnReading, HasSubmitted
<1>5. \A q \in Readings : tool'[q] # "none" <=> tool[q] # "none"
  BY <1>1 DEF TypeOK
<1>6. QueueInv'
  BY <1>2, <1>5 DEF TypeOK, QueueInv, EventsEnded, Queued, LeftFirst, HasSubmitted
<1> QED
  BY <1>3, <1>4, <1>6

\* Every step preserves the invariant.
LEMMA NextIInv == IInv /\ [Next]_vars => IInv'
<1> SUFFICES ASSUME IInv, [Next]_vars PROVE IInv'
  OBVIOUS
<1>1. CASE UNCHANGED vars
  BY <1>1 DEF vars, readVars, IInv, TypeOK, OwnInv, PrintedAtEnd, ProcessFromStart, FileWorkers,
    LibusbWorkers, OutputOwn, OutputBehind, OwnReading, QueueInv, EventsEnded, Queued, LeftFirst,
    HasSubmitted
<1>2. CASE Done
  BY <1>2, DoneIInv
<1>3. CASE Gobble \/ GobbleFails
  BY <1>3, GobbleIInv
<1>4. ASSUME NEW r \in Readings, Tool(r) PROVE IInv'
  BY <1>4, ToolIInv
<1>5. ASSUME NEW r \in Readings, Execute(r) \/ Worker(r) PROVE IInv'
  BY <1>5, WorkerMoves, StartIInv, SubmitIInv, WorkerEnds DEF Worker, Read
<1> QED
  BY <1>1, <1>2, <1>3, <1>4, <1>5 DEF Next

\* A process that was left running has submitted its gobbler, in front of that
\* of the reading that succeeds: the thread is done with both.
LEMMA IInvGivenUpGone == IInv => GivenUpGone
<1> SUFFICES ASSUME IInv, NEW r \in Readings, result[r].text = "temperature",
                    NEW q \in leftBefore[r]
             PROVE  tool[q] = "ended" \/ output[q].text = "exception"
  BY DEF GivenUpGone
<1>1. q \in Readings /\ HasSubmitted(q) /\ accessMethod = "LIBUSB"
  BY DEF IInv, TypeOK, QueueInv, LeftFirst, HasSubmitted, OwnInv, LibusbWorkers
<1>2. output[r] # NotYet
  BY <1>1 DEF IInv, OwnInv, OutputBehind
<1>3. output[q] # NotYet
  BY <1>1, <1>2 DEF IInv, QueueInv, Queued, LeftFirst
<1> QED
  BY <1>1, <1>3 DEF IInv, OwnInv, OutputOwn

\* For any number of readings and threads, what a reading puts on the label
\* was printed by its own process.
THEOREM ReadingsOwn == Spec => [](TypeOK /\ OwnReading)
<1>1. IInv => TypeOK /\ OwnReading
  BY DEF IInv, OwnInv
<1> QED
  BY InitIInv, NextIInv, <1>1, PTL DEF Spec

\* And a reading succeeds only after every process that was left running
\* before its own was started has ended, or its output could not be read.
THEOREM NoneLeftBehind == Spec => []GivenUpGone
BY InitIInv, NextIInv, IInvGivenUpGone, PTL DEF Spec
=============================================================================
