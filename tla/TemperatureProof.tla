-------------------------- MODULE TemperatureProof --------------------------
(***************************************************************************)
(* Proofs about module Temperature, for every sequence of measurements the *)
(* converter can make.                                                     *)
(***************************************************************************)
EXTENDS Temperature, TLAPS

Readable == 0..(16 * 1023)

\* The voltage of a sum fits into its 16 bits and is the exact one, less a
\* rounding error below two millivolts.
LEMMA MilliVoltsExact ==
  ASSUME NEW s \in Readable
  PROVE  /\ MilliVolts(s) \in Nat /\ MilliVolts(s) <= 4995
         /\ 16384 * MilliVolts(s) <= s * 5000
         /\ s * 5000 - 32768 <= 16384 * MilliVolts(s)
<1> DEFINE q == s \div 4
           m == (q * 5000) \div 4096
<1>1. s \in 0..16368
  BY DEF Readable
<1>2. q \in Int /\ 4 * q <= s /\ s <= 4 * q + 3
  BY <1>1
<1> HIDE DEF q
<1>3. m \in Int /\ 4096 * m <= q * 5000 /\ q * 5000 <= 4096 * m + 4095
  BY <1>2
<1>4. MilliVolts(s) = m
  BY DEF MilliVolts, AREF_MV, q
<1> HIDE DEF m
<1>5. m \in Nat /\ m <= 4995 /\ 16384 * m <= s * 5000 /\ s * 5000 - 32768 <= 16384 * m
  BY <1>1, <1>2, <1>3
<1> QED
  BY <1>4, <1>5

\* A higher sum is not a lower voltage.
LEMMA MilliVoltsMonotone ==
  ASSUME NEW s \in Readable, NEW t \in Readable, s <= t
  PROVE  MilliVolts(s) <= MilliVolts(t)
<1> DEFINE p == s \div 4
           q == t \div 4
<1>1. s \in Int /\ t \in Int
  BY DEF Readable
<1>2. p \in Int /\ q \in Int /\ p <= q
  BY <1>1
<1> HIDE DEF p, q
<1>3. (p * 5000) \div 4096 <= (q * 5000) \div 4096
  BY <1>2
<1> QED
  BY <1>3 DEF MilliVolts, AREF_MV, p, q

\* Averaging keeps the average between the bounds of what is averaged.
LEMMA EwmaWithin ==
  ASSUME NEW lo \in Nat, NEW hi \in Nat, NEW avg \in Nat, NEW mV \in Nat,
         4 * lo <= avg, avg <= 4 * hi + 5, lo <= mV, mV <= hi
  PROVE  /\ Ewma(avg, mV) \in Nat
         /\ 4 * lo <= Ewma(avg, mV)
         /\ Ewma(avg, mV) <= 4 * hi + 5
BY DEF Ewma, EWMA_BS

\* Averaging moves towards the value averaged, and not past it.
LEMMA EwmaTowards ==
  ASSUME NEW avg \in Nat, NEW mV \in Nat
  PROVE  /\ avg \div 4 > mV => /\ mV <= Ewma(avg, mV) \div 4
                               /\ Ewma(avg, mV) \div 4 <= avg \div 4
         /\ avg \div 4 < mV => /\ avg \div 4 <= Ewma(avg, mV) \div 4
                               /\ Ewma(avg, mV) \div 4 <= mV
BY DEF Ewma, EWMA_BS

\* What printTemp prints consists of digits, and is the number it is given
\* unless that is between -9 and -1.
LEMMA PrintTempRight ==
  ASSUME NEW t \in Int
  PROVE  /\ PrintTemp(t) \in [sign : {"minus", "none"}, whole : Nat, tenth : 0..9]
         /\ t \notin -9..-1 => t = ValueOf(PrintTemp(t))
<1> DEFINE p == PrintTemp(t)
<1>1. p.sign = (IF Quot(t) < 0 THEN "minus" ELSE "none") /\ p.whole = Abs(Quot(t))
       /\ p.tenth = Abs(t - 10 * Quot(t))
  BY DEF PrintTemp
<1>2. CASE t >= 0
  <2>1. Quot(t) \in Nat /\ t - 10 * Quot(t) \in 0..9
    BY <1>2 DEF Quot
  <2>2. p.sign = "none" /\ p.whole = Quot(t) /\ p.tenth = t - 10 * Quot(t)
    BY <1>1, <2>1 DEF Abs
  <2>3. ValueOf(p) = t
    BY <2>1, <2>2 DEF ValueOf
  <2> QED
    BY <2>1, <2>2, <2>3 DEF PrintTemp
<1>3. CASE t < 0
  <2>1. /\ Quot(t) \in Int /\ Quot(t) <= 0
        /\ 10 * Quot(t) - t \in 0..9
    BY <1>3 DEF Quot
  <2>2. p.whole = -Quot(t) /\ p.tenth = 10 * Quot(t) - t
    BY <1>1, <2>1 DEF Abs
  <2>3. p.sign \in {"minus", "none"}
    BY <1>1
  <2>4. t \notin -9..-1 => ValueOf(p) = t
    <3> SUFFICES ASSUME t \notin -9..-1 PROVE ValueOf(p) = t
      OBVIOUS
    <3>1. Quot(t) < 0
      BY <2>1, <1>3
    <3>2. p.sign = "minus"
      BY <1>1, <3>1
    <3> QED
      BY <2>1, <2>2, <3>2 DEF ValueOf
  <2> QED
    BY <2>1, <2>2, <2>3, <2>4 DEF PrintTemp
<1> QED
  BY <1>2, <1>3

-----------------------------------------------------------------------------
\* The average lies between the voltages of the lowest and the highest sum,
\* and what was printed last is that average.
IInv ==
  /\ low \in Readable /\ high \in Readable /\ sensor \in Readable
  /\ low <= high
  /\ mVAvg \in Nat
  /\ 4 * MilliVolts(low) <= mVAvg
  /\ mVAvg <= 4 * MilliVolts(high) + 5
  /\ printed = PrintTemp(TenthsOf(mVAvg))

\* The average starts at 20 degrees.
LEMMA InitIInv == Init => IInv
<1> SUFFICES ASSUME Init PROVE IInv
  OBVIOUS
<1>1. MilliVolts(StartSum) = 699
  BY DEF MilliVolts, StartSum, AREF_MV
<1> QED
  BY <1>1, SumsAssumption DEF Init, IInv, Readable, StartSum, TMP36_MV_20C

\* A measurement preserves the invariant.
LEMMA MeasureIInv ==
  ASSUME IInv, Measure
  PROVE  IInv'
<1> DEFINE s == sensor
<1>1. s \in Readable /\ s \in Int /\ low \in Int /\ high \in Int
  <2>1. Readable \subseteq Int
    BY DEF Readable
  <2>2. s \in Readable /\ low \in Readable /\ high \in Readable
    BY DEF IInv
  <2> QED
    BY <2>1, <2>2
<1>2. low' = (IF s < low THEN s ELSE low) /\ high' = (IF s > high THEN s ELSE high)
  BY DEF Measure
<1> HIDE DEF s
<1>3. low' <= low /\ low' <= s /\ high <= high' /\ s <= high'
  BY <1>1, <1>2
<1>4. low' \in Readable /\ high' \in Readable
  <2>1. low' \in {s, low} /\ high' \in {s, high}
    BY <1>2
  <2> QED
    BY <1>1, <2>1 DEF IInv
<1>5. /\ MilliVolts(low') <= MilliVolts(low) /\ MilliVolts(low') <= MilliVolts(s)
      /\ MilliVolts(high) <= MilliVolts(high') /\ MilliVolts(s) <= MilliVolts(high')
  BY <1>1, <1>3, <1>4, MilliVoltsMonotone DEF IInv
<1>6. /\ MilliVolts(s) \in Nat
      /\ MilliVolts(low) \in Nat /\ MilliVolts(high) \in Nat
      /\ MilliVolts(low') \in Nat /\ MilliVolts(high') \in Nat
  BY <1>1, <1>4, MilliVoltsExact DEF IInv
<1>7. 4 * MilliVolts(low') <= mVAvg /\ mVAvg <= 4 * MilliVolts(high') + 5
  BY <1>5, <1>6 DEF IInv
<1>8. /\ mVAvg' \in Nat
      /\ 4 * MilliVolts(low') <= mVAvg'
      /\ mVAvg' <= 4 * MilliVolts(high') + 5
  BY <1>5, <1>6, <1>7, EwmaWithin DEF IInv, Measure, s
<1>9. low' <= high'
  <2>1. low' \in Int /\ high' \in Int
    BY <1>4 DEF Readable
  <2> QED
    BY <1>1, <1>3, <2>1
<1>10. printed' = PrintTemp(TenthsOf(mVAvg')) /\ sensor' \in Readable
  BY <1>1 DEF Measure, s
<1> QED
  BY <1>4, <1>8, <1>9, <1>10 DEF IInv, MilliVolts, PrintTemp, TenthsOf

\* So does every step.
LEMMA NextIInv == IInv /\ [Next]_vars => IInv'
<1> SUFFICES ASSUME IInv, [Next]_vars PROVE IInv'
  OBVIOUS
<1>1. CASE Measure
  BY <1>1, MeasureIInv
<1>2. CASE Change
  <2>1. sensor' \in Readable
    BY <1>2, SumsAssumption DEF Change, Readable
  <2> QED
    BY <1>2, <2>1 DEF Change, IInv, MilliVolts, PrintTemp, TenthsOf
<1>3. CASE UNCHANGED vars
  BY <1>3 DEF vars, IInv, MilliVolts, PrintTemp, TenthsOf
<1> QED
  BY <1>1, <1>2, <1>3 DEF Next

\* In quarters of a millivolt, the average is within its bounds; so are the
\* tenths that are shown.
LEMMA ShownWithin ==
  ASSUME IInv
  PROVE  /\ mVAvg \div 4 \in Nat
         /\ MilliVolts(low) <= mVAvg \div 4
         /\ mVAvg \div 4 <= MilliVolts(high) + 1
         /\ TenthsOf(mVAvg) \in Int
         /\ TenthsOf(mVAvg) + TMP36_MV_0C = mVAvg \div 4
<1>1. MilliVolts(low) \in Nat /\ MilliVolts(high) \in Nat
  BY MilliVoltsExact DEF IInv
<1> QED
  BY <1>1 DEF IInv, TenthsOf, TMP36_MV_0C

\* Whatever is measured, the average stays within the temperatures measured
\* but for rounding, all values fit into the integers that hold them, and
\* temperatures that are not between -1 and 0 degrees are printed right.
THEOREM AverageCorrect ==
  Spec => [](TypeOK /\ AverageWithinMeasured /\ PrintedRightElsewhere)
<1>1. IInv => TypeOK
  <2> SUFFICES ASSUME IInv PROVE TypeOK
    OBVIOUS
  <2>1. /\ MilliVolts(sensor) \in Nat /\ MilliVolts(sensor) <= 4995
        /\ MilliVolts(high) \in Nat /\ MilliVolts(high) <= 4995
        /\ MilliVolts(low) \in Nat
    BY MilliVoltsExact DEF IInv
  <2>2. -500 <= TenthsOf(mVAvg) /\ TenthsOf(mVAvg) <= 4999
    <3>1. /\ mVAvg \div 4 \in Nat /\ mVAvg \div 4 <= MilliVolts(high) + 1
          /\ TenthsOf(mVAvg) + 500 = mVAvg \div 4 /\ TenthsOf(mVAvg) \in Int
      BY ShownWithin DEF TMP36_MV_0C
    <3>2. TenthsOf(mVAvg) >= -500
      BY <3>1
    <3>3. TenthsOf(mVAvg) <= 4999
      BY <2>1, <3>1
    <3> QED
      BY <3>2, <3>3
  <2>3. printed \in [sign : {"minus", "none"}, whole : Nat, tenth : 0..9]
    BY ShownWithin, PrintTempRight DEF IInv
  <2>4. 0 <= MilliVolts(sensor) /\ MilliVolts(sensor) <= 32767
    BY <2>1
  <2>5. mVAvg \in Nat /\ sensor \in 0..(16 * 1023)
    BY DEF IInv, Readable
  <2> QED
    BY <2>2, <2>3, <2>4, <2>5 DEF TypeOK
<1>2. IInv => AverageWithinMeasured
  <2> SUFFICES ASSUME IInv PROVE AverageWithinMeasured
    OBVIOUS
  <2>1. /\ MilliVolts(low) \in Nat /\ MilliVolts(high) \in Nat
        /\ low * 5000 - 32768 <= 16384 * MilliVolts(low)
        /\ 16384 * MilliVolts(high) <= high * 5000
    BY MilliVoltsExact DEF IInv
  <2>2. low \in Int /\ high \in Int
    BY DEF IInv, Readable
  <2> DEFINE shown == TenthsOf(mVAvg) + TMP36_MV_0C
  <2>3. shown \in Int /\ MilliVolts(low) <= shown /\ shown <= MilliVolts(high) + 1
    BY ShownWithin
  <2> HIDE DEF shown
  <2>4. low * 5000 - 32768 <= 16384 * shown /\ 16384 * shown <= high * 5000 + 16384
    BY <2>1, <2>2, <2>3
  <2>5. low * 5000 - 2 * 16384 <= 16384 * shown
    BY <2>2, <2>3, <2>4
  <2> QED
    BY <2>4, <2>5 DEF AverageWithinMeasured, AREF_MV, shown
<1>3. IInv => PrintedRightElsewhere
  <2> SUFFICES ASSUME IInv, TenthsOf(mVAvg) \notin -9..-1 PROVE PrintedIsTemperature
    BY DEF PrintedRightElsewhere
  <2>1. TenthsOf(mVAvg) \in Int
    BY ShownWithin
  <2> QED
    BY <2>1, PrintTempRight DEF IInv, PrintedIsTemperature
<1> QED
  BY InitIInv, NextIInv, <1>1, <1>2, <1>3, PTL DEF Spec

\* No measurement makes the average overshoot or move the wrong way.
THEOREM AverageMovesTowardsMeasured == Spec => TowardsMeasured
<1>1. IInv /\ [Next]_vars =>
        [LET was == mVAvg \div 4
             is  == mVAvg' \div 4
             mV  == MilliVolts(sensor)
         IN  /\ was > mV => mV <= is /\ is <= was
             /\ was < mV => was <= is /\ is <= mV]_vars
  <2> DEFINE Towards ==
        LET was == mVAvg \div 4
            is  == mVAvg' \div 4
            mV  == MilliVolts(sensor)
        IN  /\ was > mV => mV <= is /\ is <= was
            /\ was < mV => was <= is /\ is <= mV
  <2>1. ASSUME IInv, Measure PROVE Towards
    <3>1. MilliVolts(sensor) \in Nat
      BY <2>1, MilliVoltsExact DEF IInv
    <3>2. mVAvg \in Nat /\ mVAvg' = Ewma(mVAvg, MilliVolts(sensor))
      BY <2>1 DEF IInv, Measure
    <3> QED
      BY <3>1, <3>2, EwmaTowards
  <2>2. ASSUME IInv, Change PROVE Towards
    <3>1. MilliVolts(sensor) \in Nat /\ mVAvg \in Nat /\ mVAvg' = mVAvg
      BY <2>2, MilliVoltsExact DEF IInv, Change
    <3> QED
      BY <3>1
  <2> QED
    BY <2>1, <2>2 DEF Next
<1> QED
  BY InitIInv, NextIInv, <1>1, PTL DEF Spec, TowardsMeasured

-----------------------------------------------------------------------------
\* At rest the average is at the voltage measured or one millivolt above it.
AtRest(avg, mV) == avg \div 4 \in mV..(mV + 1)

\* How far the average is from the voltage, in its quarters of a millivolt.
Distance(avg, mV) == Abs(avg - 4 * mV)

\* Averaging keeps an average that is at rest there, and brings any other
\* one nearer by at least a quarter of a millivolt.
LEMMA EwmaNearer ==
  ASSUME NEW avg \in Nat, NEW mV \in Nat
  PROVE  /\ Distance(avg, mV) \in Nat
         /\ AtRest(avg, mV) => AtRest(Ewma(avg, mV), mV)
         /\ ~AtRest(avg, mV) => Distance(Ewma(avg, mV), mV) < Distance(avg, mV)
<1> DEFINE d == avg - 4 * mV
           step == (d - EWMA_BS) \div 4
<1>1. d \in Int /\ step \in Int /\ 4 * step <= d - 2 /\ d - 2 <= 4 * step + 3
  BY DEF EWMA_BS
<1>2. Ewma(avg, mV) = 4 * mV + d - step
  BY DEF Ewma, EWMA_BS
<1>3. \A n \in Int : AtRest(4 * mV + n, mV) <=> n \in 0..7
  BY DEF AtRest
<1>4. AtRest(avg, mV) <=> d \in 0..7
  BY DEF AtRest
<1>5. Distance(avg, mV) = Abs(d) /\ Distance(Ewma(avg, mV), mV) = Abs(d - step)
  BY <1>1, <1>2 DEF Distance
<1> HIDE DEF d, step
<1>6. d \in 0..7 => d - step \in 0..7
  BY <1>1
<1>7. d \notin 0..7 => Abs(d - step) < Abs(d)
  BY <1>1 DEF Abs
<1>8. AtRest(Ewma(avg, mV), mV) <=> d - step \in 0..7
  <2>1. Ewma(avg, mV) = 4 * mV + (d - step) /\ d - step \in Int
    BY <1>1, <1>2
  <2> QED
    BY <2>1, <1>3
<1> QED
  BY <1>1, <1>4, <1>5, <1>6, <1>7, <1>8 DEF Abs

\* The part of ComesToRest that is no question of fairness (measureTemp):
\* every measurement brings an average that is not at rest strictly nearer to
\* the voltage measured, and one that is at rest stays so; nothing but a
\* measurement moves the average.  As the distance is a natural number, the
\* average comes to rest when the same voltage is measured often enough.
THEOREM NearerUntilAtRest ==
  Spec => [][LET mV == MilliVolts(sensor)
             IN  /\ AtRest(mVAvg, mV) => AtRest(mVAvg', mV)
                 /\ ~AtRest(mVAvg, mV) =>
                      \/ Distance(mVAvg', mV) < Distance(mVAvg, mV)
                      \/ Change /\ mVAvg' = mVAvg]_vars
<1> DEFINE Nearer ==
      LET mV == MilliVolts(sensor)
      IN  /\ AtRest(mVAvg, mV) => AtRest(mVAvg', mV)
          /\ ~AtRest(mVAvg, mV) =>
               \/ Distance(mVAvg', mV) < Distance(mVAvg, mV)
               \/ Change /\ mVAvg' = mVAvg
<1>1. IInv /\ [Next]_vars => [Nearer]_vars
  <2>1. ASSUME IInv, Measure PROVE Nearer
    <3>1. MilliVolts(sensor) \in Nat /\ mVAvg \in Nat
      BY <2>1, MilliVoltsExact DEF IInv
    <3>2. mVAvg' = Ewma(mVAvg, MilliVolts(sensor))
      BY <2>1 DEF Measure
    <3> QED
      BY <3>1, <3>2, EwmaNearer
  <2>2. ASSUME Change PROVE Nearer
    BY <2>2 DEF Change
  <2> QED
    BY <2>1, <2>2 DEF Next
<1> QED
  BY InitIInv, NextIInv, <1>1, PTL DEF Spec
=============================================================================
