# USBTherm: specifications

USBTherm is a USB thermometer: an AVR microcontroller that measures a TMP36
sensor and speaks USB in software (V-USB), a Linux kernel driver, a libusb
command line tool and a small Java desktop application that shows the
temperature.  This directory holds TLA+ modules that model the program, TLC
configurations that check them on small instances, and proofs checked by TLAPS.

## The system

| component | code | state it keeps | operations |
|---|---|---|---|
| interrupt routine | `usbtherm-avr/usbdrv/asmcommon.inc`, `usbdrvasm12.inc` | the two halves of `usbRxBuf`, `usbInputBufOffset`, `usbRxLen`, `usbRxToken`, `usbCurrentTok`; reads `usbTxBuf`, `usbTxLen`; assigns `usbDeviceAddr` | one run per packet on the bus: receive, then `handleData`, `handleIn`, `handleSetupOrOut` or `ignorePacket`, and transmit |
| polled half of the driver | `usbtherm-avr/usbdrv/usbdrv.c`, `usbdrv.h`, `usbconfig.h` | `usbMsgLen`, `usbMsgFlags`, `usbMsgPtr`, `usbNewDeviceAddr`, `usbConfiguration`; writes `usbTxBuf`, `usbTxLen`; clears `usbRxLen` | `usbPoll`: `usbProcessRx`, `usbDriverSetup`, `usbBuildTxBlock`, `usbDeviceRead`, the check for a bus reset |
| firmware application | `usbtherm-avr/usbtherm.c` | `ints`, `mVAvg` | main loop, `measureTemp`, `printTemp`, `usbFunctionSetup`, `usbFunctionRead`, timer and ADC interrupts |
| serial output | `usbtherm-avr/usart.c` | the transmitter's data register; `usartData`, `usartReceived` (receiving is never enabled) | `printString` |
| host and bus | not in the repository | the transfer under way | control transfers |
| kernel driver | `usbtherm-linux/usbtherm.c` | the static `message`, the interface's data, open files | probe, disconnect, open, read, write, release |
| libusb tool | `usbtherm-libusb/usbtherm.c` | none between runs | one transfer, printed |
| user interface | `usbtherm-ui/src/main/java` | the label, thread pool of workers, process of the tool | a reading every second |

The host sends packets; the interrupt routine answers each within the bus
timeout, from buffers alone, and leaves what it received to the main loop.  The
main loop polls those buffers, performs requests and prepares the next packet to
send.  Nothing is locked: the two sides share single bytes and agree on who may
write what by the values of `usbRxLen` and `usbTxLen`.  The application is called
back by the polled half.  On the host, the kernel driver or the tool makes one
control transfer per reading, and the user interface reads the driver's device
file or the tool's output.

What is hard here, and what makes each part correct:

* **Interrupt against main loop.** A packet can arrive at any instruction of
  `usbPoll`.  A packet that is being processed must not be overwritten
  (`RxStable`), one that was acknowledged must not be lost (`AckedMeansKept`),
  one that is half built must not be sent (`TxWhole`).
* **Transfers against transfers.** A host repeats what was not acknowledged, and
  gives up.  What is left of one transfer (a packet ready to be sent, the
  toggle, a reply half built, a new address) must not leak into the next
  (`ReplyMatchesRequest`, `ToggleAgreement`, `AddressAgreed`, `StatusMeansDone`,
  `ImplementsPipe`).
* **Restarts.** A reset of the processor takes the device back to address 0 in the
  middle of whatever the host was doing; only the 255 ms for which the firmware
  disconnects tell the host (`AddressAgreed`, `StatusMeansDone`, `RestartHeals`).
* **Progress.** NAK is the device's only way to say "not yet"; every transfer
  must end all the same (`EveryTransferEnds`).
* **The measurement.** It runs between two calls of `usbPoll` and takes about
  10 ms; it changes the value that a reply is being read from.  It sleeps while
  the converter works, and any interrupt may end that sleep, or come before it
  (`MissingOnlyByStrays`, `MeasurementEnds`).
* **The arithmetic.** The average is kept in fixed point and shifted; it must not
  overflow, drift or stop short (`AverageWithinMeasured`, `TowardsMeasured`,
  `ComesToRest`), and the sign must survive (`PrintedRightElsewhere`).
* **The kernel driver.** All opens share one message that nothing locks
  (`ReadsOwnTemperature`, `MessageEnds`); the device may be pulled out during any
  of them (`OpenKeepsDevice`, `NothingLeft`, `DisconnectEnds`, `OpenReturns`).
* **The user interface.** Workers of a pool, a child process that may outlive its
  timeout, and one thread that reads the output of all processes: a reading must
  show what its own process printed (`OwnReading`), processes that were given up
  must not pile up while the label shows temperatures (`GivenUpGone`), and no
  reading may wait for ever (`ReadingShown`).  An older reading may replace a newer
  one on the label: workers overtake each other, and nothing in the code prevents it.

`PROJECT.json` lists these hazards line by line with the properties that cover
them, and the ones that no property covers yet.

## The modules

| module | what it is |
|---|---|
| `VUsb` | the device: interrupt routine, polled half, callbacks; on a bus where anything may happen |
| `UsbSystem` | `VUsb` with a host, losses, abandoned transfers, resets of the bus and restarts of the firmware; extends `VUsb` |
| `ControlPipe` | what the two promise together: an abstract specification with no packets in it |
| `Sampling` | how the firmware takes and prints a measurement: timer, converter, sleep, transmitter |
| `Temperature` | what it makes of one: voltage, average, degrees, text |
| `UsbthermDriver` | the kernel driver: devices that come and go, processes that open and read |
| `TempUI` | the desktop application with the process of the libusb tool |
| `VUsbProof`, `UsbSystemProof`, `SamplingProof`, `TemperatureProof`, `UsbthermDriverProof`, `TempUIProof` | theorems about the module of that name |
| `UsbReplyProof` | more about `UsbSystem`: replies and toggles; extends `UsbSystemProof` |
| `UsbPipeProof` | that `UsbSystem` implements `ControlPipe`; extends `UsbReplyProof` |
| `MCVUsb`, `MCUsbSystem`, `MCTemperature` | constants for TLC |

### VUsb

The interrupt cannot be interrupted by anything that touches its variables, so
one packet is one step, and every exit of `asmcommon.inc` is one action
(`HandleDataIgnored`, `HandleDataBusy`, `HandleDataStatus`, `HandleDataStore`,
`HandleInBusy`, `HandleInSend`, `HandleSetupOrOut`, `IgnorePacket`).  In each,
the packet is first written to the current half of the buffer (`Receive`), as in
the code, and whether the exit assigns the device address or skips that is kept
apart (`AddrAssigned`, `AddrAfterHandshake`: `usbdrvasm12.inc:366-377`).

The main loop is cut at each access to a variable that it shares with the
interrupt; `pc` names the next one:

    poll -> initToggle -> abortTx -> setup -> release -> txCheck -> toggle -> read -> arm -> lineCheck -> poll

`initToggle` and `abortTx` are the two writes at `usbdrv.c:442-443`, `setup` is
the rest of `usbProcessRx` with what it calls (it touches nothing the interrupt
writes), `release` is `usbdrv.c:584`, `txCheck` is `usbdrv.c:587`, `toggle`,
`read` and `arm` are the three writes of `usbBuildTxBlock` to the transmit buffer
and length, `lineCheck` is the reset check.  A packet can arrive between any two
of them.

Data is abstracted to what the properties tell apart.  The contents of a packet
from the host are a request or `NoBody`; the contents of a reply are a record
that says where its bytes were read, from which position and how many.  A
measurement is a counter, so that replies read before and after one differ.  No
integer is cut short: lengths keep their byte (`wLength % 256`), addresses their
seven bits, and packet identifiers their values, because the code computes with
them (bit 4 tells a handshake from a length; the toggle is an exclusive or).

### UsbSystem

One host, from idle through setup, data and status stage, one transaction at a
time.  It retries what was not acknowledged or answered NAK, drops data whose
toggle is not the expected one, and takes up the new address after the status
stage of SET_ADDRESS.  It keeps what it received in `hRecv`, packet by packet, and
counts the bytes in `hCount`.  It stands for the host controller and is external code:
its requests are those that Linux makes on enumeration and those that the driver
and the tool make.  `ServedAssumption`
says the rest of what is asked of them: no request brings data for the device, and
the application is asked only for what `usbFunctionSetup` serves, in a length that
`usbMsgLen` can hold (255 is its mark for "no message").  `Lossy` says which kinds
of packet may vanish.

The firmware may start again at any time (`Restart`): the startup code sets all
variables back, and `initUSB` disconnects the device before interrupts are enabled
(`Attached` guards every step of the device).  The host notices (`Notice`), drops
its transfer and goes on with address 0 once the device is back (`Connect`).
Until it notices it goes on talking to nobody.

### ControlPipe

A request is asked, taken, performed and completed.  Only one request waits in
the device; completing means that nothing waits any more and that the answer is
the whole answer to the request asked last.  A restart forgets the request that
waits, which must then be taken again.  `UsbSystem` is shown to implement
it (`ImplementsPipe`) with a refinement mapping that reads `taken` off the
receive buffer and `settings` off `usbConfiguration` and `usbNewDeviceAddr`: a
request takes effect at the `Setup` step of the main loop.

### Sampling

The timer interrupt counts to `INTS_SEC` in one byte; then `measureTemp` takes 16
readings, for each of which it starts the converter and sleeps.  The step between
starting and falling asleep is a step of its own, as are the test and the reset of
the counter, and an interrupt can come between any two.  `fresh` says whether the
converter's register holds a conversion that was not read before, `used` counts
the readings of which that was so, `strays` the sleeps that another interrupt
ended.  Values are left to `Temperature`.  Then `printTemp` gives the line to the
USART, character by character, waiting for the data register each time
(`PutChar`); the transmitter empties it by itself (`Transmit`).

### Temperature

The integer arithmetic of `measureTemp`, `printTemp` and `usbFunctionRead`, with
real numbers for constants.  A shift to the right is `\div`, which rounds down; C's
division rounds towards zero and is written out (`Quot`).  `low` and `high`
remember the extremes measured, for the properties only.

### UsbthermDriver

Two kinds of actors.  The thread of a hub runs probe and disconnect of one device,
statement by statement:

    unbound -> probed -> bound -> forgotten -> put -> waiting -> deregistered -> unbound

A process opens a device file, reads from it with buffers of any size, and closes
it:

    closed -> find -> send -> wait -> print -> open -> strlen -> copy -> open ... end -> closed

The message is an array of bytes.  `snprintf` writes it, `strlen` runs over it and
`copy_to_user` copies it one byte at a time, so that any mixture can be seen that
the unlocked accesses can produce.  A byte of a text is the process that printed
it and its place: the digits do not matter, but whose they are does.  `mixed`
records who was printed over.  The lock of the USB core, which the driver relies
on without naming it, is external: opens hold it shared (`Opening`),
`usb_register_dev` and `usb_deregister_dev` take it exclusively (`NoReader`), and
whoever waits for it keeps new opens out (`NoWriter`).  So is the core's own
reference on a device, held while `hub` is not `"unbound"`.

### TempUI

Once a second the scheduler creates a worker (`Execute`), and the pool of SwingWorker
runs it when a thread is free (`TakeThread`).  With the libusb reader a worker goes
through

    queued -> start -> submit -> wait -> output -> posted -> shown

and may fail at `start` (no executable), at `wait` (the timeout of 500 ms) and at
`output` (an exit status other than 0, or no number).  Its process goes through the
three calls of `usbtherm-libusb/usbtherm.c`, each of which may fail and end it with
a message.  `gobblers` is the queue of the executor with its one thread, which
reads the head's output to its end.  With the device file a worker only reads it.
`posted` workers wait in the queue of the event thread for `done()`, which sets the
label.

There is no clock: a timeout may come at any time before the process has ended.
A reading is the number of its worker, and what it read says whose it is.
Reading an output may fail at any time (`GobbleFails`: the `IOException` of
`StreamGobbler`, which `read()` passes on), and so does the reading then.
`leftBefore` is a history variable, for `GivenUpGone` only: the processes that had
been left running when that of a reading was started.  It is forgotten when the
reading fails.

### Definitions in two forms

A small definition that a property depends on is preceded by a faulty twin
(`SendsUnprocessed` before `Sends`, `TxNotAborted` before `TxAborted`, ...).
Nothing uses the twin; it documents the fault that the property reveals when it
stands in for the real one (`mutants` in `PROJECT.json`).

## The runs

| run | what is asked | result |
|---|---|---|
| `device_any_bus` | Do interrupt and main loop share their buffers correctly for every sequence of packets and resets? `TypeOK`, `DeviceInv`, `RxStable`, `TxWhole`, `AckedMeansKept` | holds, 1.6 million states |
| `host_lossy` | Are transfers correct, and do they end, when data packets of the host and handshakes of either side are lost? | holds, 690 thousand states |
| `host_abandons` | Does a transfer that is given up at any point, or a reset, leave anything behind? | holds, 1.1 million states |
| `restarts` | What still holds when data packets of the device are lost too, and the firmware restarts at any point? | `StatusMeansDone`, `AddressAgreed`, `SetupNakOnlyRepeated`, `RestartHeals` hold, 367 thousand states |
| `sampling` | Does a measurement end although its wake-up may come too early, and what do stray interrupts cost it? | holds, 190 thousand states |
| `temperature` | Does the average follow what is measured, and come to rest? | holds, 401 thousand states |
| `driver` | What do overlapping opens and reads of one message yield?  Is anything used after it was given up, or left behind?  Do opens return and disconnects end? | holds, 184 thousand states |
| `user_interface` | Does a reading show its own temperature, can a reading succeed while processes left behind before it still run, does every reading end? | holds, 264 thousand states |
| `address_abandoned` | The address is "set after status phase" | violated after an abandoned SET_ADDRESS |
| `fully_oversampled` | "16x oversampling" | violated when the timer or a packet ends a sleep |
| `printed_sign` | "translates the averaged voltage to degrees Celsius and prints the result" | violated between -1 and 0 degrees |
| `read_returns` | `read()` returns, or fails if "there is a problem with the device" | violated when an earlier process of the tool hangs |

The last four are disagreements of the code with its own comments; they are
described in `PROJECT.json` under `findings`.  The first needs a fault of the host
and costs an enumeration; the second makes one reading of 16 an old one; the third
prints -0.5 degrees as 0.5 on the serial line.  The fourth needs a process that
hangs before its transfer, whose timeout would end it: `output.get()` has no
timeout, so one hanging process stops every reading after it.

Two comments of V-USB look like more than they are, and are modelled as what they
are.  "We must not NAK next SETUP" (`asmcommon.inc:117`) holds of every SETUP but a
repetition of the one that fills the buffer, which is harmless
(`SetupNakOnlyRepeated`), as long as no transfer is given up and no token is lost:
a SETUP that waits for `usbPoll` when its transfer is given up makes the device
refuse the first one of the next transfer, whose host then has to try again.  "Short enough to be read at once" (`usbtherm.c:152`) is
true of the text, not of the 16 bytes that are asked for; the second half of the
reply lies behind the terminating NUL.

### Bounds

* **Requests.** `MCUsbSystem` names them: the vendor string (10 bytes: two
  packets, the last one short), SET_ADDRESS, SET_CONFIGURATION,
  GET_CONFIGURATION and the temperature (16 bytes: two packets, then the empty
  one that nobody asks for).  They take the paths of `usbProcessRx` that differ
  in anything but a length.  `device_any_bus` does with two of them, the
  temperature and SET_ADDRESS, because any packet may follow any other there;
  `host_abandons` does with three.
* **Addresses.** 0 and one other: the device compares an address with its own.
* **`ShortLens`.** 0 (a status stage), and in `device_any_bus` a short packet
  that is not one.
* **`MaxLost` = 2.** Two losses can hit the same transaction twice, or the two
  directions of one; the counter is not reset, so they can fall in different
  transfers.  The number of transfers is not bounded.
* **`MaxRestarts` = 1.** A restart sets every variable of the device back, so a
  second one finds what the first one found, but for the losses that are left.
* **`MaxSample` = 1**, and 0 in `address_abandoned`, where no temperature matters: one
  measurement at any point is enough to tell a reply of one reading from a reply of
  two.
* **`Sampling`.** `Readings` has its real value, 16.  The counter has 8 values
  instead of 256 and a second has 3 interrupts instead of 45: what matters is that
  the counter can pass the threshold and wrap while the main loop is elsewhere.
  `LineLength` is 2 characters instead of a dozen: every wait for the transmitter is
  the same, and the second one can come before the first character has gone.
* **`Temperature`.** Five sums of 16 readings: both ends of the scale, the sums of
  -0.5 and 0 degrees, and one of 25 degrees.  The sensor may change between any two
  measurements, so the average takes all values that mixtures of these lead to.
  The theorems hold for all sums.
* **`UsbthermDriver`.** Two processes, one device, texts of up to one character and
  a newline (`DATA_LEN` = 2), the smallest message that they fit into (`MSG_LEN` =
  3), and reads of one byte or of everything: a shorter text can follow a longer
  one, and a read can end anywhere in both.  Two processes are enough for every
  overlap, since a third can only print over the message once more.  One device is
  enough for what a disconnect waits for, since the lock does not tell devices
  apart; the theorems hold for any number of both.

* **`TempUI`.** `MaxReadings` = 3 and `Threads` = 2 instead of 10: one reading can be
  late, one overtake it, and one wait for a thread.  In `read_returns` two readings
  are enough.

No run but those of `TempUI`, which end with the last reading, bounds the length of a behaviour: the state spaces are finite and explored
in full.

### Fairness

`SysFair` asks for weak fairness of the interrupt, of `usbPoll` and of the host.
An interrupt is served once its packet is there; the main loop has no branch that
waits (`usbtherm.c:195-212`; measuring is bounded and is not asked to happen);
a host controller works through its queue.  Losses and abandoned transfers are
not fair, and are bounded or switched off where liveness is checked: a bus that
loses every packet ends no transfer.  A restarted device comes back after 255 ms,
and the host notices that it was gone (`Notice`, `Connect`); restarts themselves
are not fair.

`Sampling` asks for weak fairness of the timer, which is never stopped and runs on
in the idle sleep mode, of the converter, whose conversions take a fixed time, of the main loop, and of the transmitter, which shifts its character out.  Packets
are not fair: a silent bus is legal, and then only the
timer rescues a sleep whose wake-up came before it.  `Temperature` asks that
measurements are taken, which `Sampling` shows.

`UsbthermDriver` asks that threads run: an open under way goes on, and its transfer
ends, with an answer or at the latest after the timeout of 1000 ms that it passes
(`OpenFails`); a disconnect that was begun goes on.  Nobody has to plug a device,
open or read a file, and no device has to answer.

`TempUI` asks that threads run, that the tool's transfer ends (with a failure after
1000 ms at the latest, `TransferFails`), and, in `user_interface` only, that the two
calls before it end (`LibraryFairness`).  That they have no timeout is what
`read_returns` is about.

### What the bus may do, and why not more

V-USB checks neither CRC nor toggles, so its promises depend on the bus.  The
losses allowed in `host_lossy` are those that the code recovers from.  The others
break it, as its authors say: `usbdrv.h:40` lists what is not implemented, and
`asmcommon.inc:157` forgets a packet when it is sent "assuming that no error
occurs".  Letting replies vanish breaks `ReplyMatchesRequest`, `ToggleAgreement`
and `EveryTransferEnds` (the packet is not sent again), and letting tokens vanish
breaks `ReplyMatchesRequest`, `StatusMeansDone`, `AddressAgreed` and
`EveryTransferEnds` (the data packet behind a lost token is taken for part of the
transaction before).  `restarts` states what survives the first of these, and that
a restart of the device ends the wait.

## The proofs

`VUsbProof` proves, for all values of the constants that satisfy the assumptions
in `VUsb` (any set of requests, any addresses, any short lengths, any number of
measurements), and with no assumption on the bus:

| theorem | says |
|---|---|
| `Invariance` | `Spec => [](TypeOK /\ DeviceInv)` |
| `ReceivedPacketStable` | `Spec => RxStable` |
| `TransmittedPacketWhole` | `Spec => TxWhole` |
| `AcknowledgedPacketKept` | `Spec => AckedMeansKept` |

`TypeOK` is not inductive: that `usbTxLen` is a length or a NAK depends on `len`
between the steps of `usbBuildTxBlock`, and that the toggle is never applied to
an unset identifier depends on a SETUP having come first.  `DeviceInv` says what
the two sides rely on at every step: a packet to process is complete in the half
that is not received into (`RxComplete`); while the main loop works on a packet,
`usbRxLen` keeps the interrupt from storing another (`RxHeld`); the identifier is
set before it is turned over (`PidSet`); the transmitter is idle while a packet
is built, and what it may send has the length announced (`TxHeld`).  The two
together are inductive.  One lemma per action shows that the action preserves
them, the theorem `Invariance` puts them together, and the action properties
follow from the invariant in the state before the step: `RxStable` from `RxHeld`
(the packet is there, so `RxFree` is false and the halves are not swapped),
`TxWhole` from `TxHeld` and `RxHeld` (between the two writes either `usbRxLen` is
set or `usbTxLen` is a NAK).

`UsbSystemProof`, for any requests, any number of losses and any number of restarts
of the firmware:

| theorem | says | if |
|---|---|---|
| `SysTypes` | `SysSpec => []SysTypeOK` | |
| `StatusDone` | `SysSpec => []StatusMeansDone` | tokens are not lost |
| `OneAddressBetween` | `SysSpec => []AddressAgreed` | nor transfers given up |
| `RefusesOnlyRepeated` | `SysSpec => SetupNakOnlyRepeated` | nor transfers given up |
| `AddressKept` | `SysSpec => AddressAfterStatus` | nor transfers given up |

The conditions are those on the bus that the section above is about, and
`address_abandoned` shows what happens without the last one.  Two assumptions about
the host's requests are used and stated in `UsbSystem`: a status packet is empty
(`StatusAssumption`), and SET_ADDRESS has no data stage and assigns an address that
appears on the bus (`SetAddressAssumption`).  The invariants are built in three
layers, each of which needs one condition more than the one below it:

* `HostInv`, always: what may be on the wire in each phase of a transaction, and in
  which stages a line reset or a lost connection finds the host.  It reduces the
  steps of the interrupt to four (`Drops`, `Refuses`, `Acknowledges`, `Answers`,
  lemma `IsrEffect`) and tells for each which stage the host is in
  (`HeardPacket`).
* `RequestInv`, if tokens arrive: the token that the device remembers is the one of
  the host's stage (`TokenInv`), so a packet that is kept is the request of a setup
  stage (`RxSetup`); from its acknowledgement to the end of the transfer that
  request is either still to be processed or has taken effect (`TakenInv`); and data
  is answered only when it has, with the address assigned (`AnsweredInv`).
  `TakenInv` is needed because a SETUP can be repeated: the request may be performed
  twice, and the second time must change nothing.
* `AddressInv`, if no transfer is given up: between two transfers nothing is left to
  process (`OwnRequest`), and the two addresses of the device are the host's but for
  the status stage of SET_ADDRESS, where each changes on its own (`OneAddress`).

`UsbReplyProof`, on top of it, for any requests that meet `ServedAssumption`:

| theorem | says | if |
|---|---|---|
| `ReplyMatches` | `SysSpec => []ReplyMatchesRequest` | neither tokens nor data packets of the device are lost |
| `TogglesAgree` | `SysSpec => ToggleAgreement` | the same |

Everything else may happen, for any values of the bounds: data packets of the host and
handshakes are lost, transfers are given up between any two packets, the bus is
reset, the firmware restarts, the main loop is anywhere in `usbPoll`, and
measurements change the value that is sent.  The condition on the device's packets
is that of the code (`asmcommon.inc:157`); the section on the bus says what breaks
without it.  One position, the number of bytes that the host has, is what all parts
of the invariant (`ReplyInv`) count from:

* `RecvInv` is what the host knows by itself: full packets so far, none before the
  data stage, and the toggle it begins with.
* `KeptInv`: the packets received are the pieces of the reply, in order; the whole
  of it when the data stage has ended.  While any was received, no other packet
  waits in the buffer.
* `WireRight`: a data packet on its way is the next piece, with the toggle that the
  host expects.
* `BuildInv` is the order of the writes: the identifier is set back before the
  transmitter is stopped, and that before the request is performed.
* `ServingInv` is about the device while it serves the host's own request.  The next
  packet is not begun (`Waiting`: the identifier is that of the packet before it,
  `usbMsgLen` what is left), its length is taken (`Reading`), or it is filled
  (`Built`); and the source is the right one, at the right position (`FromSource`).

`ReplyMatchesRequest` follows from `KeptInv` alone, but nothing in that says that the
next packet is the next piece; so the position is followed back through the wire
and the transmit buffer to `usbMsgPtr`.  `ServingInv` promises nothing while an
abandoned request is still in the device or its reply half built: that a SETUP
clears it all away before it counts is a step of the proof (`SetupServing`), and
that an old packet does not reach the host before is the interrupt's doing: it answers
NAK as long as a request waits (`handleIn`, `Sends`), and the host asks for data only
after its request was acknowledged (`HeardPacket`).

`UsbPipeProof`:

| theorem | says | if |
|---|---|---|
| `RefinesPipe` | `SysSpec => ImplementsPipe` | neither tokens nor data packets of the device are lost |

The initial states map to those of `ControlPipe`, and every step to one of its
actions or to a stutter:

| step of `UsbSystem` | of `ControlPipe` |
|---|---|
| `HostBegin` | `Ask` |
| `HandleDataStore` of a request | `Take` |
| `Setup` | `Perform` |
| `HostAcked` of a status stage, `HostAcceptStatus` | `Complete` |
| `HostAbandon`, `Notice` | `GiveUp` |
| loss of the acknowledgement of a SETUP | `Repeat` |
| `LineCheck` during a reset | `Reset` |
| `Restart` | `Restart` |
| all others | none |

`Complete` is where the invariants are needed: that nothing waits in the device is
`AnsweredInv`, that the answer is the whole answer is `KeptInv`.  `Take` needs
`RxSetup`: what is kept is what was asked.

`SamplingProof`, for any number of readings, any counter and any second:

| theorem | says |
|---|---|
| `SamplingCorrect` | `Spec => [](TypeOK /\ MissingOnlyByStrays)` |

That a reading is either fresh or was caused by a stray interrupt depends on what
ended the sleep before it, so the invariant is strengthened with `WakeAccounted`
(in `"read"`, a fresh value is waiting or a stray was counted) and `StraysBounded`
(no more strays than sleeps).

`TemperatureProof`, for any sums that 16 readings can have:

| theorem | says |
|---|---|
| `AverageCorrect` | `Spec => [](TypeOK /\ AverageWithinMeasured /\ PrintedRightElsewhere)` |
| `AverageMovesTowardsMeasured` | `Spec => TowardsMeasured` |
| `NearerUntilAtRest` | `Spec => [][...]_vars`: a measurement brings an average that is not at rest strictly nearer to the voltage measured, and leaves one at rest there |

The inductive invariant states the range of the average in its own unit, quarters
of a millivolt, between four times the lowest and four times the highest voltage
measured plus the rounding; one step of the average is a lemma about integers.
`NearerUntilAtRest` is the part of `ComesToRest` that is no question of fairness: the
distance is a natural number that every measurement lowers, until the average is at
rest.

`UsbthermDriverProof`, for any number of processes and devices, any `DATA_LEN`, any
`MSG_LEN` greater than it, and any sizes of reads:

| theorem | says |
|---|---|
| `DeviceKept` | `Spec => [](OpenKeepsDevice /\ NothingLeft)` |
| `MessageInBounds` | `Spec => [](TypeOK /\ MessageEnds)` |
| `OwnTemperature` | `Spec => []ReadsOwnTemperature` |

`DevInv` ties what is held of a device to where its hub's thread is, and an open to
the registration of its minor, which deregistering waits to withdraw.  `BufInv`
says which part of the message is still a process's own while it prints and after
(`Own`), and where each process is in its file (`Counted`).  The byte at `DATA_LEN`
is a NUL for ever: only a text of full length is printed up to it, and what it
gets then is the NUL.  A step that does not print needs to be looked at for the
process that takes it only (`SilentBufInv`).

`TempUIProof`, for any number of readings and of threads:

| theorem | says |
|---|---|
| `ReadingsOwn` | `Spec => [](TypeOK /\ OwnReading)` |
| `NoneLeftBehind` | `Spec => []GivenUpGone` |

`OwnReading` rests on where each worker, its process and its gobbler are together:
a gobbler that ran has read what its own process printed, which does not change
after that (`OutputOwn`).  `GivenUpGone` rests on the order in which the single thread
works: a process that was left running was submitted before any that was started
later, so it is in front of it or done with (`LeftFirst`); every reading that has
submitted a gobbler and has no output is in the queue (`Queued`); and a reading
succeeds only when its own output was read (`OutputBehind`).  Whatever the thread is
done with has ended, or could not be read.  The price is that a reading waits as
long as such a process runs, which `read_returns` shows may be for ever.

### Left to TLC

Liveness, which TLAPS cannot reason about, since it takes fairness and ENABLED:
`EveryTransferEnds`, `RestartHeals`, `MeasurementEnds`, `ComesToRest`,
`DisconnectEnds`, `OpenReturns` and `ReadingShown`.  Every other property of a run
that passes is stated by a theorem.  The theorems about `UsbSystem` carry the
conditions in their tables; the runs `host_lossy`, `host_abandons` and `restarts`
check the same properties where these conditions hold.

## Not modelled, and why

* **Bit timing**: synchronisation, bit stuffing, the cycle budget of the
  interrupt.  A packet that fails there is a packet that was lost.
* **Corrupted contents**: the 12 MHz receiver checks no CRC and would act on
  them.
* **Short bus resets**: the driver sees a reset only if `usbPoll` runs while it
  lasts; `HostResetEnd` waits for that.
* **The wait for the line** in `usbPoll` (`usbdrv.c:592-596`) is one step with the
  reset it decides on.
* **Interrupt and bulk endpoints, halt, `usbFunctionWrite`, flow control, long
  transfers, receivers for other clock rates**: not compiled in this
  configuration.
* **Serial input**: its interrupt is never enabled (`usbtherm.c:185`), so nothing is
  ever received.
* **Restarts short of the disconnect**: the model restarts the firmware with all its
  delays; a restart that the host does not notice is left out, since `initUSB`
  cannot be left before the delay is over.
* **The end of the desktop application**: it ends with its window, its processes by
  themselves.  Its own arguments and configuration choose one of two readers, which
  is the choice of `accessMethod` here.
* **A failed allocation of the transfer buffer** in `device_open`: the code does not
  look for it.
* **Unloading the kernel module**: `fops.owner` keeps it loaded while files are
  open, and unbinding a device is modelled.
* **Fonts, layout and the text of messages**; temperatures in `TempUI`.
* **The board and the build files**: no behaviour.

## The plan

What is still worth writing, in the order of importance:

1. `ControlPipe` against the driver: an open of `UsbthermDriver` is a request of the
   pipe, so that what a file holds is a temperature measured since the open.
2. The steps of the liveness properties that need no fairness, as
   `NearerUntilAtRest` is for `ComesToRest`: for `EveryTransferEnds`, what an
   unanswered transaction leaves unchanged until it is answered; for `OpenReturns`,
   that a process that waits is waited for by nobody it waits for.
3. What is kept when the device's data packets are lost as well: `restarts` checks
   it, and `StatusDone`, `OneAddressBetween` and `RefusesOnlyRepeated` prove it; a
   weaker form of `ReplyMatchesRequest` (pieces in order, some missing) may hold too.
