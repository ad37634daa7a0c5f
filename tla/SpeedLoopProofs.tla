-------------------------- MODULE SpeedLoopProofs --------------------------
(***************************************************************************)
(* Proofs about SpeedLoop for every width of the counter, every speed of   *)
(* the web, every delay of the PID thread and every setting of the         *)
(* regulator that SpeedAssumption allows.                                  *)
(***************************************************************************)
EXTENDS SpeedLoop, TLAPS

----------------------------------------------------------------------------
(* Arithmetic.                                                             *)

\* Division rounds down.
LEMMA Division ==
    ASSUME NEW a \in Int, NEW b \in Nat \ {0}
    PROVE  /\ a \div b \in Int
           /\ b * (a \div b) <= a
           /\ a < b * (a \div b) + b
OBVIOUS

\* A position on the counter is the position before plus the way, up to
\* turns of the counter.
LEMMA Turns ==
    ASSUME NEW c \in Int, NEW n \in Nat \ {0}
    PROVE  /\ c % n \in 0 .. n - 1
           /\ \E q \in Int : c % n = c + n * q
<1>1. c % n \in 0 .. n - 1
  OBVIOUS
<1>2. c = n * (c \div n) + (c % n) /\ -(c \div n) \in Int
  OBVIOUS
<1>3. c % n = c + n * (-(c \div n))
  BY <1>1, <1>2
<1> QED BY <1>1, <1>2, <1>3

\* The wrap correction finds the way between two readings if it is shorter
\* than half a turn.
LEMMA UnwrappedIsTrue ==
    ASSUME NEW way \in Int, NEW delta \in Int, NEW q \in Int, Half \in Nat \ {0},
           -2 * Half < delta, delta < 2 * Half, delta = way + 2 * Half * q,
           -Half < way, way < Half
    PROVE  Unwrapped(delta) = way
<1>1. q \in {-1, 0, 1}
  <2>1. CASE q >= 2
    <3>1. Half * q >= Half * 2
      BY <2>1
    <3> QED BY <3>1
  <2>2. CASE q <= -2
    <3>1. Half * q <= Half * (-2)
      BY <2>2
    <3> QED BY <3>1
  <2> QED BY <2>1, <2>2
<1>2. CASE q = -1
  BY <1>2 DEF Unwrapped
<1>3. CASE q = 0
  BY <1>3 DEF Unwrapped
<1>4. CASE q = 1
  BY <1>4 DEF Unwrapped
<1> QED BY <1>1, <1>2, <1>3, <1>4

\* The filtered value lies between the new sample and the old value, and is
\* at most half as far from the sample as the old one, up to rounding.
LEMMA FilterBetween ==
    ASSUME NEW raw \in Int, NEW old \in Int
    PROVE  /\ Filter(raw, old) \in Int
           /\ \A a, b \in Int : a <= raw /\ raw <= b /\ (old # 0 => a <= old /\ old <= b) =>
                  a <= Filter(raw, old) /\ Filter(raw, old) <= b
           /\ 2 * Abs(Filter(raw, old) - raw) <= Abs(old - raw) + 1
           /\ Abs(Filter(raw, old) - raw) <= Abs(old - raw)
BY DEF Filter, Abs

\* The PID sum is the error plus the integral's share, rounded down.
LEMMA PidSumIsError ==
    ASSUME NEW error \in Int, NEW n \in -IntegralLimit .. IntegralLimit
    PROVE  /\ PidSum(error, n) \in Int
           /\ Abs(PidSum(error, n) - error) <= (IntegralLimit \div KiDiv) + 1
<1> DEFINE s == error * KiDiv + n
           q == s \div KiDiv
           m == IntegralLimit \div KiDiv
<1>1. IntegralLimit \in Nat /\ KiDiv \in Nat \ {0} /\ error * KiDiv \in Int /\ s \in Int
  BY SpeedAssumption
<1>2. q \in Int /\ KiDiv * q <= s /\ s < KiDiv * q + KiDiv
  BY <1>1, Division
<1>3. m \in Int /\ IntegralLimit < KiDiv * m + KiDiv
  BY <1>1, Division
<1>4. KiDiv * q <= KiDiv * (error + m + 1)
  BY <1>1, <1>2, <1>3
<1>5. KiDiv * (error - m - 1) < KiDiv * q + KiDiv
  BY <1>1, <1>2, <1>3
<1> HIDE DEF q, m, s
<1>6. q <= error + m + 1
  BY <1>1, <1>2, <1>3, <1>4
<1>7. error - m - 1 < q + 1
  BY <1>1, <1>2, <1>3, <1>5
<1>8. Abs(q - error) <= m + 1
  BY <1>2, <1>3, <1>6, <1>7 DEF Abs
<1> QED BY <1>2, <1>8 DEF PidSum, q, m, s

----------------------------------------------------------------------------
(* The inductive invariant.                                                *)

\* The types, first of the Boolean variables and then of the others.
Flags == closed_loop_enable \in BOOLEAN /\ g_direction_reverse \in BOOLEAN
         /\ due \in BOOLEAN /\ was_enabled \in BOOLEAN
Ranges ==
    /\ cnt \in 0 .. 2 * Half - 1 /\ last_count \in 0 .. 2 * Half - 1
    /\ elapsed \in Nat /\ moved \in Int
    /\ filtered_speed \in Int /\ integral \in -IntegralLimit .. IntegralLimit
    /\ output \in Int
    /\ sample \in [delta : Int, true : Int, raw : Int]
    /\ lo \in Int /\ hi \in Int /\ gap \in Nat /\ factor \in Nat \ {0}

\* The counter shows the way of the web since the last sample, but for turns.
CounterFollowsWeb == \E q \in Int : cnt - last_count = moved + 2 * Half * q

\* A cycle never divides by zero.
TimeHasPassed == due => elapsed > 0

IInv ==
    /\ Flags /\ Ranges /\ CounterFollowsWeb /\ TimeHasPassed
    /\ DisplacementIsTrue /\ FilterForgets /\ FilterConverges /\ NoWindUp

\* The counter and the web start together.
LEMMA InitIInv == Init => IInv
<1> SUFFICES ASSUME Init PROVE IInv
  OBVIOUS
<1> USE SpeedAssumption DEF Init
<1>1. Flags
  BY DEF Flags
<1>2. Ranges /\ TimeHasPassed
  BY DEF Ranges, TimeHasPassed, NoSample
<1>3. CounterFollowsWeb
  <2>1. cnt - last_count = moved + 2 * Half * 0 /\ 0 \in Int
    OBVIOUS
  <2> QED BY <2>1 DEF CounterFollowsWeb
<1>4. DisplacementIsTrue /\ FilterForgets /\ FilterConverges /\ NoWindUp
  BY DEF DisplacementIsTrue, FilterForgets, FilterConverges, NoWindUp, NoSample
<1> QED BY <1>1, <1>2, <1>3, <1>4 DEF IInv

\* The web moves.
LEMMA PeriodIInv ==
    ASSUME IInv, Period
    PROVE  IInv'
<1> USE SpeedAssumption DEF IInv
<1>1. PICK n \in Counts, back \in BOOLEAN :
         LET d == IF back THEN -n ELSE n IN
         /\ cnt' = (cnt + d) % (2 * Half)
         /\ moved' = moved + d
  BY DEF Period, Flags
<1> DEFINE d == IF back THEN -n ELSE n
<1>2. d \in Int /\ cnt + d \in Int /\ 2 * Half \in Nat \ {0}
  BY DEF Ranges
<1>3. cnt' \in 0 .. 2 * Half - 1 /\ \E q \in Int : cnt' = cnt + d + 2 * Half * q
  BY <1>1, <1>2, Turns
<1>4. moved' = moved + d
  BY <1>1
<1> HIDE DEF d
<1>5. Flags'
  BY DEF Period, Flags
<1>6. Ranges' /\ TimeHasPassed'
  BY <1>2, <1>3, <1>4 DEF Period, Ranges, TimeHasPassed, history
<1>7. CounterFollowsWeb'
  <2> PICK q \in Int : cnt - last_count = moved + 2 * Half * q
    BY DEF CounterFollowsWeb
  <2> PICK r \in Int : cnt' = cnt + d + 2 * Half * r
    BY <1>3
  <2>1. 2 * Half * q + 2 * Half * r = 2 * Half * (q + r) /\ q + r \in Int
    OBVIOUS
  <2>2. 2 * Half * q \in Int /\ 2 * Half * r \in Int /\ 2 * Half * (q + r) \in Int
    OBVIOUS
  <2>3. cnt' - last_count' = moved' + 2 * Half * (q + r)
    BY <1>2, <1>4, <2>1, <2>2 DEF Period, Ranges
  <2> QED BY <2>1, <2>3 DEF CounterFollowsWeb
<1>8. DisplacementIsTrue' /\ FilterForgets' /\ FilterConverges' /\ NoWindUp'
  BY DEF Period, history, DisplacementIsTrue, FilterForgets, FilterConverges, NoWindUp, Abs,
         LimitOutput
<1> QED BY <1>5, <1>6, <1>7, <1>8

\* uart_ctrl opens or closes the loop.
LEMMA LoopIInv ==
    ASSUME IInv, OpenLoop \/ \E reverse \in BOOLEAN : CloseLoop(reverse)
    PROVE  IInv'
<1> USE DEF IInv, OpenLoop, CloseLoop, history
<1>1. Flags'
  BY DEF Flags
<1>2. Ranges' /\ TimeHasPassed' /\ CounterFollowsWeb'
  BY DEF Ranges, TimeHasPassed, CounterFollowsWeb
<1>3. DisplacementIsTrue' /\ FilterForgets' /\ FilterConverges' /\ NoWindUp'
  BY DEF DisplacementIsTrue, FilterForgets, FilterConverges, NoWindUp, Abs, LimitOutput
<1> QED BY <1>1, <1>2, <1>3

\* A cycle of the PID thread that finds the loop open.
LEMMA OpenCycleIInv ==
    ASSUME IInv, OpenCycle
    PROVE  IInv'
<1> USE SpeedAssumption DEF IInv, OpenCycle
<1>1. Flags'
  BY DEF Flags
<1>2. Ranges' /\ TimeHasPassed' /\ CounterFollowsWeb'
  BY DEF Ranges, TimeHasPassed, CounterFollowsWeb, NoSpeed, NoSample
<1>3. DisplacementIsTrue' /\ FilterForgets' /\ FilterConverges' /\ NoWindUp'
  BY DEF DisplacementIsTrue, FilterForgets, FilterConverges, NoWindUp, NoSample
<1> QED BY <1>1, <1>2, <1>3

\* A cycle that samples, filters and regulates.
LEMMA ClosedCycleIInv ==
    ASSUME IInv, ClosedCycle
    PROVE  IInv'
<1> USE SpeedAssumption
<1> DEFINE f0    == IF was_enabled THEN filtered_speed ELSE NoSpeed
           i0    == IF was_enabled THEN integral ELSE 0
           delta == Unwrapped(cnt - last_count)
           raw   == RawSpeed(delta, elapsed)
           f     == Filter(raw, f0)
           error == Target - f
           n     == LimitIntegral(i0 + error)
           same  == was_enabled /\ raw = sample.raw
<1>1. /\ due /\ was_enabled' = TRUE /\ filtered_speed' = f /\ integral' = n
      /\ output' = LimitOutput(PidSum(error, n))
      /\ last_count' = cnt /\ elapsed' = 0 /\ due' = FALSE /\ moved' = 0
      /\ sample' = [delta |-> delta, true |-> moved, raw |-> raw]
      /\ lo' = IF was_enabled /\ lo < raw THEN lo ELSE raw
      /\ hi' = IF was_enabled /\ hi > raw THEN hi ELSE raw
      /\ gap' = IF same THEN gap ELSE Abs(f - raw)
      /\ factor' = IF ~same THEN 1 ELSE IF factor < MaxFactor THEN 2 * factor ELSE factor
      /\ UNCHANGED <<closed_loop_enable, g_direction_reverse, cnt>>
  BY DEF ClosedCycle
<1>2. /\ Flags /\ Ranges /\ CounterFollowsWeb /\ TimeHasPassed
      /\ FilterForgets /\ FilterConverges
  BY DEF IInv
<1>3. /\ elapsed \in Nat \ {0} /\ f0 \in Int /\ i0 \in Int
      /\ delta \in Int /\ delta * CountSpeed \in Int
  BY <1>1, <1>2 DEF Ranges, TimeHasPassed, NoSpeed, Unwrapped
<1>4. raw \in Int
  BY <1>3, Division DEF RawSpeed
<1>5. Abs(moved) < Half => delta = moved
  <2> SUFFICES ASSUME Abs(moved) < Half PROVE delta = moved
    OBVIOUS
  <2> PICK q \in Int : cnt - last_count = moved + 2 * Half * q
    BY <1>2 DEF CounterFollowsWeb
  <2>1. -Half < moved /\ moved < Half /\ moved \in Int
    BY <1>2 DEF Ranges, Abs
  <2>2. cnt - last_count \in Int /\ -2 * Half < cnt - last_count /\ cnt - last_count < 2 * Half
    BY <1>2 DEF Ranges
  <2> QED BY <2>1, <2>2, UnwrappedIsTrue
<1> HIDE DEF f0, i0, delta, raw
<1>6. /\ f \in Int /\ 2 * Abs(f - raw) <= Abs(f0 - raw) + 1 /\ Abs(f - raw) <= Abs(f0 - raw)
      /\ \A a, b \in Int : a <= raw /\ raw <= b /\ (f0 # 0 => a <= f0 /\ f0 <= b) =>
             a <= f /\ f <= b
  BY <1>3, <1>4, FilterBetween
<1> HIDE DEF f
<1>7. error \in Int /\ n \in -IntegralLimit .. IntegralLimit
  BY <1>3, <1>6 DEF LimitIntegral
<1> HIDE DEF n
<1>8. Flags'
  BY <1>1, <1>2 DEF Flags
<1>9. PidSum(error, n) \in Int /\ Abs(PidSum(error, n) - error) <= IntegralLimit \div KiDiv + 1
  BY <1>7, PidSumIsError
<1>10. Ranges'
  <2>1. output' \in Int
    BY <1>1, <1>9 DEF LimitOutput
  <2>2. gap' \in Nat /\ factor' \in Nat \ {0}
    BY <1>1, <1>2, <1>4, <1>6 DEF Ranges, Abs
  <2>3. sample' \in [delta : Int, true : Int, raw : Int]
    BY <1>1, <1>2, <1>3, <1>4 DEF Ranges
  <2> QED BY <1>1, <1>2, <1>4, <1>6, <1>7, <2>1, <2>2, <2>3 DEF Ranges
<1>11. CounterFollowsWeb' /\ TimeHasPassed'
  <2>1. cnt' - last_count' = moved' + 2 * Half * 0 /\ 0 \in Int
    BY <1>1, <1>2 DEF Ranges
  <2> QED BY <1>1, <2>1 DEF CounterFollowsWeb, TimeHasPassed
<1>12. DisplacementIsTrue'
  BY <1>1, <1>5 DEF DisplacementIsTrue, Abs
<1>13. FilterForgets'
  <2>1. CASE was_enabled
    <3>1. lo' <= raw /\ raw <= hi' /\ lo' <= f0 /\ f0 <= hi' /\ lo' \in Int /\ hi' \in Int
      BY <1>1, <1>2, <1>4, <2>1 DEF FilterForgets, Ranges, f0
    <3> QED BY <1>1, <1>6, <3>1 DEF FilterForgets
  <2>2. CASE ~was_enabled
    <3>1. lo' = raw /\ hi' = raw /\ f0 = 0
      BY <1>1, <2>2 DEF f0, NoSpeed
    <3> QED BY <1>1, <1>4, <1>6, <3>1 DEF FilterForgets
  <2> QED BY <2>1, <2>2
<1>14. FilterConverges'
  <2> DEFINE e == Abs(f0 - raw)
             g == Abs(f - raw)
  <2>1. e \in Nat /\ g \in Nat /\ 2 * g <= e + 1 /\ g <= e
    BY <1>3, <1>4, <1>6 DEF Abs
  <2>2. sample'.raw = raw /\ filtered_speed' = f
    BY <1>1
  <2>3. CASE ~same
    BY <1>1, <2>1, <2>2, <2>3 DEF FilterConverges
  <2>4. CASE same
    <3>1. e * factor <= gap + factor - 1 /\ gap \in Nat /\ factor \in Nat \ {0}
      BY <1>2, <2>4 DEF FilterConverges, Ranges, f0
    <3> HIDE DEF e, g
    <3>2. 2 * g * factor <= (e + 1) * factor
      BY <2>1, <3>1
    <3>3. g * (2 * factor) <= gap + 2 * factor - 1
      BY <2>1, <3>1, <3>2
    <3>4. g * factor <= gap + factor - 1
      BY <2>1, <3>1
    <3>5. gap' = gap /\ factor' \in {2 * factor, factor}
      BY <1>1, <2>4
    <3> QED BY <2>2, <3>3, <3>4, <3>5 DEF FilterConverges, g
  <2> QED BY <2>3, <2>4
<1>15. NoWindUp'
  <2>1. Target - filtered_speed' = error
    BY <1>1
  <2> DEFINE p == PidSum(error, n)
             bound == IntegralLimit \div KiDiv + 1
  <2>2. p \in Int /\ error \in Int /\ bound \in Int /\ Abs(p - error) <= bound
    BY <1>7, <1>9, Division
  <2> HIDE DEF p, bound, error
  <2>3. Abs(LimitOutput(p) - LimitOutput(error)) <= bound
    BY <2>2 DEF Abs, LimitOutput
  <2> QED BY <1>1, <2>1, <2>3 DEF NoWindUp, p, bound
<1> QED BY <1>8, <1>10, <1>11, <1>12, <1>13, <1>14, <1>15 DEF IInv

\* Every step, and a stutter.
LEMMA NextIInv == IInv /\ [Next]_vars => IInv'
<1> SUFFICES ASSUME IInv, [Next]_vars PROVE IInv'
  OBVIOUS
<1>1. CASE UNCHANGED vars
  BY <1>1 DEF vars, history, IInv, Flags, Ranges, CounterFollowsWeb, TimeHasPassed,
              DisplacementIsTrue, FilterForgets, FilterConverges, NoWindUp, Abs, LimitOutput
<1> QED BY <1>1, PeriodIInv, LoopIInv, OpenCycleIInv, ClosedCycleIInv DEF Next

\* The invariant holds in every reachable state.
THEOREM SpeedInvariant == Spec => []IInv
BY InitIInv, NextIInv, PTL DEF Spec

----------------------------------------------------------------------------
(* Theorems.                                                               *)

\* The displacement taken from the wrapping counter is the true one.
THEOREM MeasuresDisplacement == Spec => []DisplacementIsTrue
<1>1. IInv => DisplacementIsTrue
  BY DEF IInv
<1> QED BY <1>1, SpeedInvariant, PTL

\* Nothing of an earlier run leaks into the filtered speed.
THEOREM Forgets == Spec => []FilterForgets
<1>1. IInv => FilterForgets
  BY DEF IInv
<1> QED BY <1>1, SpeedInvariant, PTL

\* The feedback converges to a steady speed, whatever the first sample was.
THEOREM Converges == Spec => []FilterConverges
<1>1. IInv => FilterConverges
  BY DEF IInv
<1> QED BY <1>1, SpeedInvariant, PTL

\* The integral's share of the command is bounded.
THEOREM NeverWindsUp == Spec => []NoWindUp
<1>1. IInv => NoWindUp
  BY DEF IInv
<1> QED BY <1>1, SpeedInvariant, PTL
=============================================================================
