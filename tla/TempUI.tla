------------------------------- MODULE TempUI -------------------------------
(***************************************************************************)
(* The desktop application (usbtherm-ui): once a second the scheduler      *)
(* starts a worker, which reads the temperature and puts it on the label.  *)
(* The reader is one of two: TempReaderDeviceFile reads the device file of *)
(* the kernel driver; TempReaderLibusb runs the command line tool          *)
(* (usbtherm-libusb/usbtherm.c) in a process of its own, waits for it for  *)
(* 500 ms and has a single thread read what it prints.                     *)
(*                                                                         *)
(* There is no clock here: a timeout may come at any time while what is    *)
(* waited for has not happened, and the next reading may begin at any time.*)
(* A reading is the number of its worker; readings carry no temperature,   *)
(* but whose they are.                                                     *)
(***************************************************************************)
EXTENDS Integers, Sequences, FiniteSets

CONSTANTS
  MaxReadings,   \* bound: the readings begun
  Threads        \* threads of the pool that runs workers, 10 in the program

ASSUME ReadingsAssumption == MaxReadings \in Nat
ASSUME ThreadsAssumption  == Threads \in Nat \ {0}

Readings == 1..MaxReadings

VARIABLES
  accessMethod,   \* "LIBUSB" or "DEVICEFILE"
  pc,             \* where each worker is
  tool,           \* where its process of the command line tool is
  printed,        \* what that printed before it ended
  gobblers,       \* the StreamGobblers that the single thread has to run
  output,         \* the results of those that ran
  result,         \* what a worker read, or that it failed
  events,         \* the workers that the event thread has to call done() for
  label,          \* the reading whose result the label shows, 0 at first
  leftBefore      \* history: the processes left running when that of a reading
                  \* started, kept until the reading fails

readVars == <<tool, printed, gobblers, output>>
vars == <<accessMethod, pc, readVars, result, events, label, leftBefore>>

\* The result of a gobbler, which is the text of a process, or of a worker.
NotYet      == [from |-> 0, text |-> "none"]
Text(r, t)  == [from |-> r, text |-> t]
Failed(r)   == Text(r, "failure")

Init ==
  /\ accessMethod \in {"LIBUSB", "DEVICEFILE"}
  /\ pc = [r \in Readings |-> "none"]
  /\ tool = [r \in Readings |-> "none"]
  /\ printed = [r \in Readings |-> "nothing"]
  /\ gobblers = <<>>
  /\ output = [r \in Readings |-> NotYet]
  /\ result = [r \in Readings |-> NotYet]
  /\ events = <<>>
  /\ label = 0
  /\ leftBefore = [r \in Readings |-> {}]

Goes(r, from, to) == pc[r] = from /\ pc' = [pc EXCEPT ![r] = to]

\* read() leaves a process that outlives its timeout to itself.
LeftRunning == {r \in Readings : /\ pc[r] \in {"posted", "shown"}
                                /\ tool[r] \notin {"none", "ended"}}

-----------------------------------------------------------------------------
\* The scheduler: a new worker for the pool.
Execute(r) ==
  /\ \A s \in 1..(r - 1) : pc[s] # "none"
  /\ Goes(r, "none", "queued")
  /\ UNCHANGED <<accessMethod, readVars, result, events, label, leftBefore>>

\* The pool runs its workers in the order of their creation.
Running == {r \in Readings : pc[r] \in {"start", "submit", "wait", "output", "file"}}

TakeThread(r) ==
  /\ \A s \in 1..(r - 1) : pc[s] # "queued"
  /\ Cardinality(Running) < Threads
  /\ Goes(r, "queued", IF accessMethod = "LIBUSB" THEN "start" ELSE "file")
  /\ UNCHANGED <<accessMethod, readVars, result, events, label, leftBefore>>

\* doInBackground ends, with the temperature or an exception, and done() is
\* due on the event thread.
EndsWith(r, res) ==
  /\ pc' = [pc EXCEPT ![r] = "posted"]
  /\ result' = [result EXCEPT ![r] = res]
  /\ events' = Append(events, r)
  /\ leftBefore' = [leftBefore EXCEPT ![r] = IF res.text = "temperature" THEN @ ELSE {}]
  /\ UNCHANGED <<accessMethod, label>>

\* done()
Done ==
  /\ events # <<>>
  /\ pc' = [pc EXCEPT ![Head(events)] = "shown"]
  /\ label' = Head(events)
  /\ events' = Tail(events)
  /\ UNCHANGED <<accessMethod, readVars, result, leftBefore>>

-----------------------------------------------------------------------------
\* TempReaderDeviceFile: the driver answers, or its timeout ends the wait.
FileRead(r) ==
  /\ pc[r] = "file"
  /\ EndsWith(r, Text(r, "temperature")) \/ EndsWith(r, Failed(r))
  /\ UNCHANGED readVars

-----------------------------------------------------------------------------
\* TempReaderLibusb.  The reader is shared by all workers; process and
\* output are locals of each call.
StartFails(r) ==
  /\ pc[r] = "start"
  /\ EndsWith(r, Failed(r))
  /\ UNCHANGED readVars

Start(r) ==
  /\ Goes(r, "start", "submit")
  /\ tool' = [tool EXCEPT ![r] = "init"]
  /\ leftBefore' = [leftBefore EXCEPT ![r] = LeftRunning]
  /\ UNCHANGED <<accessMethod, printed, gobblers, output, result, events, label>>

Submit(r) ==
  /\ Goes(r, "submit", "wait")
  /\ gobblers' = Append(gobblers, r)
  /\ UNCHANGED <<accessMethod, tool, printed, output, result, events, label, leftBefore>>

TimeOut(r) ==
  /\ pc[r] = "wait"
  /\ tool[r] # "ended"
  /\ EndsWith(r, Failed(r))
  /\ UNCHANGED readVars

Completed(r) ==
  /\ tool[r] = "ended"
  /\ Goes(r, "wait", "output")
  /\ UNCHANGED <<accessMethod, readVars, result, events, label, leftBefore>>

\* output.get() has no timeout.  Float.valueOf refuses what is no number.
Submitted == {r \in Readings : pc[r] \in {"wait", "output", "posted", "shown"}}

OutputOfLatest(r) == output[CHOOSE s \in Submitted : \A t \in Submitted : t <= s]
OutputOf(r) == output[r]

ExitValue(r) == IF printed[r] = "message" THEN 255 ELSE 0

ResultUnchecked(r) == OutputOf(r)
ResultOf(r) ==
  IF ExitValue(r) = 0 /\ OutputOf(r).text = "temperature" THEN OutputOf(r) ELSE Failed(r)

GetOutput(r) ==
  /\ pc[r] = "output"
  /\ OutputOf(r) # NotYet
  /\ EndsWith(r, ResultOf(r))
  /\ UNCHANGED readVars

\* The single thread: readLine finds the end when the process has ended, and
\* may fail before that.  (AtEndWhenEmpty would take what there is.)
AtEndWhenEmpty(r) == TRUE
AtEnd(r) == tool[r] = "ended"

GobblerEnds(text) ==
  /\ output' = [output EXCEPT ![Head(gobblers)] = Text(Head(gobblers), text)]
  /\ gobblers' = Tail(gobblers)
  /\ UNCHANGED <<accessMethod, pc, tool, printed, result, events, label, leftBefore>>

Gobble ==
  /\ gobblers # <<>>
  /\ AtEnd(Head(gobblers))
  /\ GobblerEnds(printed[Head(gobblers)])

GobbleFails == gobblers # <<>> /\ GobblerEnds("exception")

-----------------------------------------------------------------------------
\* The tool: main of usbtherm-libusb/usbtherm.c.  It prints one line, and
\* has an exit status other than 0 after each failure.
ToolAt(r, from, to) == tool[r] = from /\ tool' = [tool EXCEPT ![r] = to]

toolUnchanged == <<accessMethod, pc, gobblers, output, result, events, label, leftBefore>>

ToolGoesOn(r, from, to) ==
  /\ ToolAt(r, from, to)
  /\ UNCHANGED <<printed, toolUnchanged>>

ToolPrints(r, from, text) ==
  /\ ToolAt(r, from, "ended")
  /\ printed' = [printed EXCEPT ![r] = text]
  /\ UNCHANGED toolUnchanged

libusb_init(r) == ToolPrints(r, "init", "message") \/ ToolGoesOn(r, "init", "open")

libusb_open_device(r) ==
  ToolPrints(r, "open", "message") \/ ToolGoesOn(r, "open", "transfer")

\* The transfer fails after 1000 ms at the latest.
TransferWaits(r) == ToolGoesOn(r, "transfer", "transfer")
TransferFails(r) == ToolPrints(r, "transfer", "message")

TransferAnswered(r) == ToolPrints(r, "transfer", "temperature")

Tool(r) == \/ libusb_init(r) \/ libusb_open_device(r)
           \/ TransferFails(r) \/ TransferAnswered(r)

-----------------------------------------------------------------------------
Read(r) == \/ FileRead(r) \/ StartFails(r) \/ Start(r) \/ Submit(r)
           \/ TimeOut(r) \/ Completed(r) \/ GetOutput(r)

Worker(r) == TakeThread(r) \/ Read(r)

Next == \/ \E r \in Readings : Execute(r) \/ Worker(r) \/ Tool(r)
        \/ Gobble \/ GobbleFails \/ Done

Spec == Init /\ [][Next]_vars

\* Threads run, and the transfer of the tool ends: the device need not
\* answer.  A worker chooses by itself between a timeout and the end of what
\* it waits for.
Fairness ==
  /\ \A r \in Readings : WF_vars(Worker(r)) /\ WF_vars(TransferFails(r))
  /\ WF_vars(Gobble)
  /\ WF_vars(Done)

\* What the tool asks of its library before the transfer has no timeout.
LibraryFairness ==
  \A r \in Readings : WF_vars(libusb_init(r) \/ libusb_open_device(r))

HangSpec == Spec /\ Fairness
FairSpec == HangSpec /\ LibraryFairness

-----------------------------------------------------------------------------
\* Type invariant.
TypeOK ==
  /\ accessMethod \in {"LIBUSB", "DEVICEFILE"}
  /\ pc \in [Readings -> {"none", "queued", "start", "submit", "wait", "output", "file",
                          "posted", "shown"}]
  /\ tool \in [Readings -> {"none", "init", "open", "transfer", "ended"}]
  /\ printed \in [Readings -> {"nothing", "message", "temperature"}]
  /\ gobblers \in Seq(Readings)
  /\ output \in [Readings -> [from : 0..MaxReadings,
                             text : {"none", "nothing", "message", "temperature", "exception"}]]
  /\ result \in [Readings -> [from : 0..MaxReadings, text : {"none", "failure", "temperature"}]]
  /\ events \in Seq(Readings)
  /\ label \in 0..MaxReadings
  /\ leftBefore \in [Readings -> SUBSET Readings]

\* Whatever the label shows came from the reading it stands for, although all
\* readings share the reader and the thread that reads the output: a
\* temperature is one that the process of that reading printed, not that of
\* a reading before or after it.
OwnReading ==
  \A r \in Readings : pc[r] \in {"posted", "shown"} =>
    /\ result[r].from = r
    /\ (accessMethod = "LIBUSB" /\ result[r].text = "temperature")
         => printed[r] = "temperature"

\* Processes left to themselves do not pile up behind a label that shows
\* temperatures: when a reading succeeds, the processes that were left running
\* before its own was started have ended, unless reading their output failed.
GivenUpGone ==
  \A r \in Readings : result[r].text = "temperature" =>
    \A q \in leftBefore[r] : tool[q] = "ended" \/ output[q].text = "exception"

\* Every reading reaches the label, as long as processes end: the workers of
\* the pool and the thread that reads output never wait for each other.
ReadingShown ==
  \A r \in Readings : pc[r] = "queued" ~> pc[r] = "shown"

\* read() returns or fails if "there is a problem with the device"
\* (TempReaderLibusb): once its process has ended, it does.
ReadReturns ==
  \A r \in Readings : pc[r] = "output" ~> pc[r] \in {"posted", "shown"}
=============================================================================
