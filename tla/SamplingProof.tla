---------------------------- MODULE SamplingProof ----------------------------
(***************************************************************************)
(* Proofs about module Sampling, for any number of readings and any length *)
(* of the second.                                                          *)
(***************************************************************************)
EXTENDS Sampling, TLAPS

\* A sleep that is over was ended by the converter, whose value then waits
\* to be read, or by a stray interrupt, which was counted.
WakeAccounted ==
  pc = "read" => i + 1 <= used + strays + fresh

\* No measurement has more sleeps than readings, so strays are bounded.
StraysBounded == strays <= (IF pc = "read" THEN i + 1 ELSE i)

IInv == TypeOK /\ MissingOnlyByStrays /\ WakeAccounted /\ StraysBounded

\* Nothing has been read before the first measurement.
LEMMA InitIInv == Init => IInv
BY IntsSecAssumption, CounterAssumption, ReadingsAssumption, LineAssumption DEF Init, IInv, TypeOK, MissingOnlyByStrays, WakeAccounted, StraysBounded

\* Interrupts and the main loop preserve the invariant.
LEMMA NextIInv == IInv /\ [Next]_vars => IInv'
<1> USE DEF IInv, TypeOK, MissingOnlyByStrays, WakeAccounted, StraysBounded, usartVars
<1> SUFFICES ASSUME IInv, [Next]_vars PROVE IInv'
  OBVIOUS
<1>1. CASE TIMER0_COMPA_vect
  BY <1>1, IntsSecAssumption, CounterAssumption, ReadingsAssumption DEF TIMER0_COMPA_vect, TimerRuns, StrayWake, Wake
<1>2. CASE USB_INTR_VECTOR
  BY <1>2, ReadingsAssumption DEF USB_INTR_VECTOR, StrayWake, Wake
<1>3. CASE ADC_vect
  BY <1>3, ReadingsAssumption DEF ADC_vect, Wake
<1>4. CASE SecondPassed
  BY <1>4 DEF SecondPassed
<1>5. CASE BeginMeasurement
  BY <1>5, IntsSecAssumption, CounterAssumption, ReadingsAssumption DEF BeginMeasurement
<1>6. CASE StartConversion
  BY <1>6, ReadingsAssumption DEF StartConversion, AnotherReading
<1>7. CASE SleepMode
  BY <1>7 DEF SleepMode, FallAsleep
<1>8. CASE ReadADC
  BY <1>8, ReadingsAssumption DEF ReadADC
<1>9. CASE PrintTemp
  BY <1>9, ReadingsAssumption, LineAssumption DEF PrintTemp, AnotherReading
<1>10. CASE PutChar
  BY <1>10, LineAssumption DEF PutChar
<1>11. CASE LinePrinted
  BY <1>11 DEF LinePrinted
<1>12. CASE Transmit
  BY <1>12 DEF Transmit
<1>13. CASE UNCHANGED vars
  BY <1>13 DEF vars, usartVars
<1> QED
  BY <1>1, <1>2, <1>3, <1>4, <1>5, <1>6, <1>7, <1>8, <1>9, <1>10, <1>11, <1>12, <1>13
     DEF Next, main

\* However interrupts and the main loop interleave, the counters of a
\* measurement stay in range, and only an interrupt other than the
\* converter's makes a reading repeat an earlier one.
THEOREM SamplingCorrect == Spec => [](TypeOK /\ MissingOnlyByStrays)
<1>1. IInv => TypeOK /\ MissingOnlyByStrays
  BY DEF IInv
<1> QED
  BY InitIInv, NextIInv, <1>1, PTL DEF Spec

\* The counters of interrupts, readings and characters stay in range.
THEOREM SamplingTypeOK == Spec => []TypeOK
BY SamplingCorrect, PTL
=============================================================================
