----------------------------- MODULE Temperature -----------------------------
(***************************************************************************)
(* What the firmware makes of a measurement (usbtherm.c): the sum of 16    *)
(* readings of the converter becomes a voltage, voltages are averaged, and *)
(* the average is printed as degrees and sent to the host in tenths of a   *)
(* degree.  All of it is integer arithmetic; shifts to the right are       *)
(* divisions that round down, also of negative numbers, and div rounds     *)
(* towards zero.                                                           *)
(***************************************************************************)
EXTENDS Integers

CONSTANT Sums   \* the sums of 16 readings of 10 bits that may be measured

ASSUME SumsAssumption == Sums \subseteq 0..(16 * 1023)

AREF_MV       == 5000
EWMA_BS       == 2
TMP36_MV_0C   == 500
TMP36_MV_20C  == 700

VARIABLES
  mVAvg,      \* the average, in quarters of a millivolt
  printed,    \* the number last printed: [sign, whole, tenth]
  sensor,     \* the sum that a measurement finds now
  low, high   \* the lowest and the highest sum measured so far

vars == <<mVAvg, printed, sensor, low, high>>

Abs(n) == IF n < 0 THEN -n ELSE n

-----------------------------------------------------------------------------
\* measureTemp: oversampling gains two bits, 4096 steps of the reference.
MilliVolts(overValue) == ((overValue \div 4) * AREF_MV) \div 4096

\* The average keeps three quarters of itself.  The subtraction before the
\* shift rounds to the nearest (EWMA_BS is half of the divisor, too).
EwmaOtherWeight(avg, mV) == mV + avg - ((avg - EWMA_BS) \div 8)
EwmaRoundedUp(avg, mV)   == mV + avg - ((avg + EWMA_BS) \div 4)
Ewma(avg, mV)            == mV + avg - ((avg - EWMA_BS) \div 4)

\* The temperature in tenths of a degree, as usbFunctionRead sends it.
TenthsOf(avg) == (avg \div 4) - TMP36_MV_0C

\* printTemp: the quotient is printed with its sign, then the remainder
\* without one.
QuotRoundedDown(t) == t \div 10
Quot(t) == IF t < 0 THEN -((-t) \div 10) ELSE t \div 10

PrintTemp(t) ==
  [sign |-> IF Quot(t) < 0 THEN "minus" ELSE "none", whole |-> Abs(Quot(t)), tenth |-> Abs(t - 10 * Quot(t))]

\* The number that is read there, in tenths.
ValueOf(p) ==
  LET n == 10 * p.whole + p.tenth IN IF p.sign = "minus" THEN -n ELSE n

-----------------------------------------------------------------------------
\* The average starts at 20 degrees, which 2294 would be the sum of.
StartSum == 2294

Init ==
  /\ mVAvg = TMP36_MV_20C * 4
  /\ printed = PrintTemp(TenthsOf(mVAvg))
  /\ sensor \in Sums
  /\ low = StartSum
  /\ high = StartSum

\* One measurement, averaged and printed.
Measure ==
  /\ mVAvg' = Ewma(mVAvg, MilliVolts(sensor))
  /\ printed' = PrintTemp(TenthsOf(mVAvg'))
  /\ low' = IF sensor < low THEN sensor ELSE low
  /\ high' = IF sensor > high THEN sensor ELSE high
  /\ UNCHANGED sensor

\* It gets warmer or colder.
Change ==
  /\ sensor' \in Sums
  /\ UNCHANGED <<mVAvg, printed, low, high>>

Next == Measure \/ Change

Spec == Init /\ [][Next]_vars

\* A measurement is taken every second (module Sampling).
FairSpec == Spec /\ WF_vars(Measure)

-----------------------------------------------------------------------------
\* Type invariant: the voltage and the temperature fit into the 16 bits they
\* are kept in, and the text of the temperature has at most four characters,
\* which leaves room for the NUL in the 8 bytes that usbFunctionRead fills.
TypeOK ==
  /\ mVAvg \in Nat
  /\ 0 <= MilliVolts(sensor) /\ MilliVolts(sensor) <= 32767
  /\ -500 <= TenthsOf(mVAvg) /\ TenthsOf(mVAvg) <= 4999
  /\ printed \in [sign : {"minus", "none"}, whole : Nat, tenth : 0..9]
  /\ sensor \in 0..(16 * 1023)

\* The exact temperature of a sum s is s * 5000 / 16384 - 500 tenths.  The
\* average never leaves the range of the temperatures measured (and the 20
\* degrees it starts with) by more than the rounding of two divisions: two
\* tenths below and one above.
AverageWithinMeasured ==
  LET scaled == 16384 * (TenthsOf(mVAvg) + TMP36_MV_0C)
  IN  /\ low * AREF_MV - 2 * 16384 <= scaled
      /\ scaled <= high * AREF_MV + 16384

\* A measurement moves the average towards the temperature measured and not
\* past it: what is shown never rises above both the old value and the
\* measured one, nor falls below both, but for the tenth that the average
\* may rest above it.
TowardsMeasured ==
  [][LET was == mVAvg \div 4
         is  == mVAvg' \div 4
         mV  == MilliVolts(sensor)
     IN  /\ was > mV => mV <= is /\ is <= was
         /\ was < mV => was <= is /\ is <= mV]_vars

\* If the same voltage is measured from some time on, the average comes to
\* rest, at that voltage or one millivolt above it: rounding neither lets it
\* stop short nor makes it drift or oscillate.
ComesToRest ==
  \A s \in Sums :
    <>[](sensor = s) => <>[](mVAvg \div 4 \in MilliVolts(s)..(MilliVolts(s) + 1))

\* What is printed is the temperature ("translates the averaged voltage to
\* degrees Celsius and prints the result", printTemp).
PrintedIsTemperature ==
  TenthsOf(mVAvg) = ValueOf(printed)

\* It is so for all temperatures but those between -1 and 0 degrees.
PrintedRightElsewhere ==
  TenthsOf(mVAvg) \notin -9..-1 => PrintedIsTemperature
=============================================================================
