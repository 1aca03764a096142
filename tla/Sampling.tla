------------------------------ MODULE Sampling ------------------------------
(***************************************************************************)
(* How the firmware takes a measurement (main and measureTemp in           *)
(* usbtherm.c): a timer counts the time between two measurements, and each *)
(* measurement starts the analog-digital converter several times, sleeping *)
(* while it converts.  Any interrupt ends the sleep: the converter's, the  *)
(* timer's, and that of V-USB.  The result is printed through the USART    *)
(* (printString in usart.c), which sends one character at a time by itself.*)
(*                                                                         *)
(* What is measured is left to module Temperature.  Here a value read from *)
(* the converter is one of a conversion that was not read before, or not.  *)
(***************************************************************************)
EXTENDS Integers

CONSTANTS
  INTS_SEC,      \* timer interrupts per second, 45 in the program
  CounterSize,   \* the number of values of the timer's counter, a byte
  Readings,      \* readings per measurement, 16 in the program
  LineLength     \* bound: the characters of a line that is printed

ASSUME IntsSecAssumption  == INTS_SEC \in Nat \ {0}
ASSUME CounterAssumption  == CounterSize \in Nat /\ CounterSize > INTS_SEC
ASSUME ReadingsAssumption == Readings \in Nat \ {0}
ASSUME LineAssumption     == LineLength \in Nat \ {0}

VARIABLES
  ints,         \* timer interrupts since the last measurement
  pc,           \* where main, measureTemp and printTemp are
  i,            \* readings taken in this measurement
  adc,          \* the converter, "idle" or "converting"
  fresh,        \* 1 if its data register holds a conversion not read yet
  used,         \* readings of this measurement that were fresh
  strays,       \* sleeps of this measurement ended by another interrupt
  left,         \* characters still to be given to the USART
  udr           \* its data register, "empty" or "full"

usartVars == <<left, udr>>
vars == <<ints, pc, i, adc, fresh, used, strays, usartVars>>

Init ==
  /\ ints = 0
  /\ pc = "loop"
  /\ i = 0
  /\ adc = "idle"
  /\ fresh = 0
  /\ used = 0
  /\ strays = 0
  /\ left = 0
  /\ udr = "empty"

-----------------------------------------------------------------------------
\* Interrupts.  One that comes while the processor sleeps wakes it up.
Wake == IF pc = "asleep" THEN "read" ELSE pc

StrayWake ==
  /\ pc' = Wake
  /\ strays' = IF pc = "asleep" THEN strays + 1 ELSE strays

\* The timer runs on in the idle sleep mode, and in no deeper one.
TimerStopped ==
  /\ ints' = IF pc = "asleep" THEN ints ELSE (ints + 1) % CounterSize
  /\ UNCHANGED <<pc, strays>>
TimerRuns ==
  /\ ints' = (ints + 1) % CounterSize
  /\ StrayWake

TIMER0_COMPA_vect ==
  /\ TimerRuns
  /\ UNCHANGED <<i, adc, fresh, used, usartVars>>

\* A packet on the bus.
USB_INTR_VECTOR ==
  /\ StrayWake
  /\ UNCHANGED <<ints, i, adc, fresh, used, usartVars>>

\* A conversion ends.  If main is not asleep yet, nothing is left of the
\* interrupt that could wake it later.
ADC_vect ==
  /\ adc = "converting"
  /\ adc' = "idle"
  /\ fresh' = 1
  /\ pc' = Wake
  /\ UNCHANGED <<ints, i, used, strays, usartVars>>

\* The USART moves a character on to the line, and has no interrupt.
Transmit ==
  /\ udr = "full"
  /\ udr' = "empty"
  /\ UNCHANGED <<ints, pc, i, adc, fresh, used, strays, left>>

-----------------------------------------------------------------------------
\* The main loop; rounds of it that only call usbPoll change nothing here.
SecondPassed ==
  /\ pc = "loop"
  /\ ints >= INTS_SEC
  /\ pc' = "restart"
  /\ UNCHANGED <<ints, i, adc, fresh, used, strays, usartVars>>

\* The counter is set back in a step of its own: a timer interrupt between
\* the two is not counted.  A conversion left over is not one of this
\* measurement.
BeginMeasurement ==
  /\ pc = "restart"
  /\ ints' = 0
  /\ i' = 0
  /\ used' = 0
  /\ strays' = 0
  /\ fresh' = 0
  /\ pc' = "start"
  /\ UNCHANGED <<adc, usartVars>>

OneReadingMore == i <= Readings
AnotherReading == i < Readings

\* ADSC: starts a conversion, unless there is one under way.
StartConversion ==
  /\ pc = "start"
  /\ AnotherReading
  /\ adc' = "converting"
  /\ pc' = "sleep"
  /\ UNCHANGED <<ints, i, fresh, used, strays, usartVars>>

\* sleep_mode
SleepLeftOut == "read"
FallAsleep == "asleep"

SleepMode ==
  /\ pc = "sleep"
  /\ pc' = FallAsleep
  /\ UNCHANGED <<ints, i, adc, fresh, used, strays, usartVars>>

ReadADC ==
  /\ pc = "read"
  /\ i' = i + 1
  /\ used' = used + fresh
  /\ fresh' = 0
  /\ pc' = "start"
  /\ UNCHANGED <<ints, adc, strays, usartVars>>

\* The voltage is computed and averaged, and becomes a line of text.
PrintTemp ==
  /\ pc = "start"
  /\ ~AnotherReading
  /\ left' \in 1..LineLength
  /\ pc' = "print"
  /\ UNCHANGED <<ints, i, adc, fresh, used, strays, udr>>

\* printString: loop_until_bit_is_set, for each character.
PutChar ==
  /\ pc = "print"
  /\ left > 0
  /\ udr = "empty"
  /\ udr' = "full"
  /\ left' = left - 1
  /\ UNCHANGED <<ints, pc, i, adc, fresh, used, strays>>

LinePrinted ==
  /\ pc = "print"
  /\ left = 0
  /\ pc' = "loop"
  /\ UNCHANGED <<ints, i, adc, fresh, used, strays, usartVars>>

main == \/ SecondPassed \/ BeginMeasurement \/ StartConversion
        \/ SleepMode \/ ReadADC \/ PrintTemp \/ PutChar \/ LinePrinted

Next == TIMER0_COMPA_vect \/ USB_INTR_VECTOR \/ ADC_vect \/ Transmit \/ main

Spec == Init /\ [][Next]_vars

\* The timer never stops, the converter and the USART need a fixed time, and
\* the main loop waits for nothing but the end of its sleep and the USART.
Fairness ==
  /\ WF_vars(TIMER0_COMPA_vect)
  /\ WF_vars(ADC_vect)
  /\ WF_vars(Transmit)
  /\ WF_vars(main)

FairSpec == Spec /\ Fairness

-----------------------------------------------------------------------------
\* Type invariant: in particular the counter stays in its byte, and no more
\* readings are added up than the sum is divided by.
TypeOK ==
  /\ ints \in 0..(CounterSize - 1)
  /\ pc \in {"loop", "restart", "start", "sleep", "asleep", "read", "print"}
  /\ i \in 0..Readings
  /\ (pc \in {"sleep", "asleep", "read"} => i < Readings)
  /\ adc \in {"idle", "converting"}
  /\ fresh \in 0..1
  /\ used \in 0..i
  /\ strays \in 0..Readings
  /\ left \in 0..LineLength
  /\ udr \in {"empty", "full"}

\* The number of times an interrupt other than the converter's ended a sleep
\* bounds the conversions missing from a measurement: as long as the timer
\* and the bus are silent, every reading is a conversion of its own.
MissingOnlyByStrays == i <= used + strays

\* Every measurement uses as many conversions as it takes readings ("16x
\* oversampling", measureTemp).
FullyOversampled == pc = "start" /\ i = Readings => used = Readings

\* A measurement that was begun ends and is printed, although a conversion
\* may end before main falls asleep and so wake nobody (the timer does then):
\* V-USB is polled again.
MeasurementEnds == pc = "start" ~> pc = "loop"
=============================================================================
