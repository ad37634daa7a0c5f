-------------------------- MODULE PwmDriverProofs --------------------------
(***************************************************************************)
(* What the scaling of drv_pwm_set and the restarts of the counter do to a *)
(* speed, for every clock, number of microsteps, speed and gap.  A speed   *)
(* passes six divisions on its way to the timer; each lemma bounds what    *)
(* one of them loses.                                                      *)
(***************************************************************************)
EXTENDS PwmDriver, TLAPS

----------------------------------------------------------------------------
(* Products and quotients.                                                 *)

\* Products grow with their factors.
LEMMA Monotone ==
    ASSUME NEW a \in Nat, NEW n \in Nat, NEW step \in Nat, a <= n
    PROVE  a * step <= n * step /\ a * step \in Nat
<1>1. n * step = a * step + (n - a) * step
  OBVIOUS
<1>2. (n - a) * step >= 0 /\ a * step \in Nat /\ (n - a) * step \in Int /\ n * step \in Int
  OBVIOUS
<1> QED BY <1>1, <1>2

\* Division rounds down.
LEMMA Quotient ==
    ASSUME NEW a \in Nat, NEW b \in Nat \ {0}
    PROVE  a \div b \in Nat /\ (a \div b) * b <= a
<1>1. a = b * (a \div b) + (a % b) /\ a \div b \in Int /\ a % b \in Nat
  OBVIOUS
<1>2. a \div b >= 0
  OBVIOUS
<1> QED BY <1>1, <1>2

\* A quotient is bounded by what it is multiplied back to.
LEMMA QuotientBelow ==
    ASSUME NEW a \in Nat, NEW b \in Nat \ {0}, NEW q \in Nat, a < b * (q + 1)
    PROVE  a \div b <= q
<1> DEFINE k == a \div b
<1>1. k \in Nat /\ k * b <= a
  BY Quotient
<1> HIDE DEF k
<1>2. ASSUME q + 1 <= k PROVE FALSE
  <2>1. (q + 1) * b <= k * b
    BY <1>1, <1>2, Monotone
  <2>2. (q + 1) * b = b * (q + 1) /\ (q + 1) * b \in Int /\ k * b \in Int
    BY <1>1
  <2> QED BY <1>1, <2>1, <2>2
<1>3. k <= q
  BY <1>1, <1>2
<1> QED BY <1>3 DEF k

\* Dividing by the prescaler leaves at most MAX_PERIOD, for every number of
\* ticks.
LEMMA ScaledPeriod ==
    ASSUME NEW t \in Nat, NEW M \in Nat \ {0}
    PROVE  t \div (t \div M + 1) \in Nat /\ t \div (t \div M + 1) <= M
<1> DEFINE q == t \div M
           r == t % M
<1>1. q \in Nat
  BY Quotient
<1>2. t = M * q + r /\ r \in Nat /\ r < M
  OBVIOUS
<1> HIDE DEF q, r
<1>3. t < (q + 1) * (M + 1)
  <2>1. (q + 1) * (M + 1) = M * q + q + M + 1 /\ M * q \in Nat
    BY <1>1
  <2> QED BY <1>1, <1>2, <2>1
<1>4. q + 1 \in Nat \ {0}
  BY <1>1
<1>5. t \div (q + 1) <= M
  BY <1>3, <1>4, QuotientBelow
<1>6. t \div (q + 1) \in Nat
  BY <1>4, Quotient
<1> QED BY <1>5, <1>6 DEF q

----------------------------------------------------------------------------
(* Periods and ticks.                                                      *)

\* The longest period in ns, and its ticks at 1000 MHz.
MaxNs    == 1000000000
MaxTicks == 1000001000

\* The ticks of a period, for every clock the assumption allows.
LEMMA TicksBound ==
    ASSUME NEW ns \in Nat
    PROVE  /\ Ticks(ns) \in Nat
           /\ ns <= MaxNs => Ticks(ns) <= MaxTicks
<1> DEFINE a == ns \div 1000
           b == ns % 1000
           p == a * Clock
           q == b * Clock
<1>1. Clock \in Nat /\ Clock <= 1000
  BY PwmAssumption
<1>2. a \in Nat /\ b \in Nat /\ b < 1000 /\ (ns <= MaxNs => a <= 1000000)
  BY SMT DEF MaxNs
<1>3. Ticks(ns) = p + q \div 1000
  BY DEF Ticks
<1> HIDE DEF a, b
<1>4. p \in Nat /\ q \in Nat
  BY <1>1, <1>2
<1>5. a <= 1000000 => p <= MaxNs
  <2>1. Clock * a <= 1000 * a
    BY <1>1, <1>2, Monotone
  <2>2. p = Clock * a
    BY <1>1, <1>2
  <2> HIDE DEF p
  <2> QED BY <1>2, <1>4, <2>1, <2>2, SMT DEF MaxNs
<1>6. q <= 1000000
  <2>1. Clock * b <= 1000 * b
    BY <1>1, <1>2, Monotone
  <2>2. q = Clock * b
    BY <1>1, <1>2
  <2> HIDE DEF q
  <2> QED BY <1>2, <1>4, <2>1, <2>2, SMT
<1> HIDE DEF p, q
<1>7. q \div 1000 \in Nat /\ q \div 1000 <= 1000
  BY <1>4, <1>6, SMT
<1> QED BY <1>2, <1>3, <1>4, <1>5, <1>7, SMT DEF MaxNs, MaxTicks

\* A period is at most a second, whatever the speed.
LEMMA PeriodBound ==
    ASSUME NEW r \in Nat
    PROVE  PeriodNs(r) \in Nat /\ PeriodNs(r) <= MaxNs
<1> DEFINE e == r * MicroSteps
           F == Frequency(r)
           G == MaxNs
<1>1. e \in Nat
  BY PwmAssumption
<1>2. F \in Nat \ {0}
  <2> HIDE DEF e
  <2>1. e \div 60 \in Nat
    BY <1>1
  <2>2. F = IF e \div 60 < 1 THEN 1 ELSE e \div 60
    BY DEF Frequency, e
  <2> HIDE DEF F
  <2> QED BY <2>1, <2>2
<1>3. PeriodNs(r) = G \div F /\ G \in Nat
  BY SMT DEF PeriodNs, MaxNs
<1> HIDE DEF F, G
<1>4. G \div F \in Nat /\ (G \div F) * F <= G
  BY <1>2, <1>3, Quotient
<1> DEFINE k == G \div F
<1> HIDE DEF k
<1>5. k \in Nat /\ k * F <= G
  BY <1>4 DEF k
<1>6. 1 * k <= F * k
  BY <1>2, <1>5, Monotone
<1>7. k <= G
  <2>1. F * k = k * F /\ 1 * k = k /\ F * k \in Int
    BY <1>2, <1>5
  <2> QED BY <1>3, <1>5, <1>6, <2>1
<1> QED BY <1>3, <1>5, <1>7 DEF k, G

\* Division loses less than one.
LEMMA QuotientAbove ==
    ASSUME NEW a \in Nat, NEW b \in Nat \ {0}
    PROVE  a < (a \div b) * b + b
<1>1. a = b * (a \div b) + (a % b) /\ a \div b \in Int /\ a % b \in Nat /\ a % b < b
  OBVIOUS
<1>2. b * (a \div b) = (a \div b) * b
  BY <1>1
<1> QED BY <1>1, <1>2

\* What division leaves.
LEMMA Remainder ==
    ASSUME NEW a \in Nat, NEW b \in Nat \ {0}
    PROVE  a \div b \in Nat /\ a % b \in Nat /\ a % b < b /\ a = b * (a \div b) + (a % b)
<1>1. a \div b \in Nat
  BY Quotient
<1> QED BY <1>1

\* Ticks is the exact product, rounded down once.
LEMMA TicksExact ==
    ASSUME NEW ns \in Nat
    PROVE  /\ Ticks(ns) \in Nat
           /\ Ticks(ns) * 1000 <= ns * Clock
           /\ ns * Clock < Ticks(ns) * 1000 + 1000
<1> DEFINE a == ns \div 1000
           b == ns % 1000
           q == b * Clock
<1>1. Clock \in Nat
  BY PwmAssumption
<1>2. a \in Nat /\ b \in Nat /\ ns = 1000 * a + b
  OBVIOUS
<1>3. Ticks(ns) = a * Clock + q \div 1000
  BY DEF Ticks
<1> HIDE DEF a, b
<1>4. a * Clock \in Nat /\ q \in Nat /\ ns * Clock = 1000 * (a * Clock) + q
  <2>1. (1000 * a + b) * Clock = 1000 * (a * Clock) + b * Clock
    BY <1>1, <1>2
  <2> QED BY <1>1, <1>2, <2>1
<1> HIDE DEF q
<1>5. /\ q \div 1000 \in Nat /\ (q \div 1000) * 1000 <= q
      /\ q < (q \div 1000) * 1000 + 1000
  BY <1>4
<1> DEFINE u == a * Clock
           v == q \div 1000
<1> HIDE DEF u, v
<1>6. u \in Nat /\ v \in Nat /\ v * 1000 <= q /\ q < v * 1000 + 1000
  BY <1>4, <1>5 DEF u, v
<1>7. Ticks(ns) = u + v /\ ns * Clock = 1000 * u + q
  BY <1>3, <1>4 DEF u, v
<1> QED BY <1>4, <1>6, <1>7

\* A frequency is a whole number of Hz, rounded down but not to zero.
LEMMA FrequencyExact ==
    ASSUME NEW r \in Nat
    PROVE  /\ Frequency(r) \in Nat \ {0}
           /\ r * MicroSteps \in Nat
           /\ r * MicroSteps < 60 * Frequency(r) + 60
           /\ Frequency(r) # 1 => 60 * Frequency(r) <= r * MicroSteps
<1> DEFINE e == r * MicroSteps
<1>1. e \in Nat
  BY PwmAssumption
<1>2. Frequency(r) = IF e \div 60 < 1 THEN 1 ELSE e \div 60
  BY DEF Frequency
<1> HIDE DEF e
<1>3. e \div 60 \in Nat /\ 60 * (e \div 60) <= e /\ e < 60 * (e \div 60) + 60
  BY <1>1
<1>4. e < 60 * Frequency(r) + 60 /\ (Frequency(r) # 1 => 60 * Frequency(r) <= e)
  BY <1>1, <1>2, <1>3
<1> QED BY <1>1, <1>2, <1>3, <1>4 DEF e

\* A period is a second divided by the frequency, rounded down.
LEMMA PeriodExact ==
    ASSUME NEW r \in Nat
    PROVE  /\ PeriodNs(r) \in Nat
           /\ PeriodNs(r) * Frequency(r) <= MaxNs
           /\ MaxNs < PeriodNs(r) * Frequency(r) + Frequency(r)
<1> DEFINE F == Frequency(r)
           G == MaxNs
<1>1. F \in Nat \ {0}
  BY FrequencyExact
<1>2. PeriodNs(r) = G \div F /\ G \in Nat
  BY SMT DEF PeriodNs, MaxNs
<1> HIDE DEF F, G
<1>3. /\ G \div F \in Nat /\ (G \div F) * F <= G
      /\ G < (G \div F) * F + F
  BY <1>1, <1>2, Quotient, QuotientAbove
<1> QED BY <1>2, <1>3 DEF F, G

----------------------------------------------------------------------------
(* The registers.                                                          *)

\* Ticks of the asked period and of its half, the scale, and what the timer
\* does: ticks of a turn of its counter, of the high part of it, and of a gap.
Whole(r) == Ticks(PeriodNs(r))
Half(r)  == Ticks(PulseNs(PeriodNs(r)))
Scale(r) == Prescaler(Whole(r))
Turn(r)  == (drv_pwm_set(r).arr + 1) * (drv_pwm_set(r).psc + 1)
High(r)  == drv_pwm_set(r).ccr * (drv_pwm_set(r).psc + 1)
Span(g)  == g * 1000 * Clock

\* drv_pwm_set keeps the registers within 16 bits, with a compare value
\* between one and the period, for every clock and speed.
LEMMA Registers ==
    ASSUME NEW r \in Nat
    PROVE  \E period, pulse \in Nat :
             /\ drv_pwm_set(r) = [psc |-> Scale(r) - 1, arr |-> period - 1, ccr |-> pulse - 1]
             /\ period = AtLeast(Whole(r) \div Scale(r), MIN_PERIOD)
             /\ pulse = LimitPulse(Half(r) \div Scale(r), period)
             /\ Whole(r) \in Nat /\ Half(r) \in Nat
             /\ Whole(r) \div Scale(r) \in Nat /\ Half(r) \div Scale(r) \in Nat
             /\ Scale(r) \in 1 .. MAX_PERIOD + 1
             /\ period \in 3 .. MAX_PERIOD /\ pulse \in 2 .. period
<1> DEFINE ns == PeriodNs(r)
           t == Whole(r)
           q == t \div MAX_PERIOD
           s == Scale(r)
           period == AtLeast(t \div s, MIN_PERIOD)
           raw == Half(r) \div s
           pulse == LimitPulse(raw, period)
<1>1. ns \in Nat /\ ns <= MaxNs
  BY PeriodBound
<1>2. PulseNs(ns) \in Nat
  BY <1>1 DEF PulseNs
<1>3. t \in Nat /\ t <= MaxTicks /\ Half(r) \in Nat
  BY <1>1, <1>2, TicksBound DEF Whole, Half
<1>4. drv_pwm_set(r) = [psc |-> s - 1, arr |-> period - 1, ccr |-> pulse - 1]
  BY DEF drv_pwm_set, Whole, Half, Scale
<1>5. s = q + 1
  BY DEF Scale, Prescaler
<1> HIDE DEF ns, t, s
<1>6. MAX_PERIOD \in Nat \ {0} /\ MAX_PERIOD >= 3
  BY SMT DEF MAX_PERIOD
<1>7. q \in Nat /\ q <= MAX_PERIOD
  <2>1. q \in Nat
    BY <1>3, <1>6, Quotient
  <2>2. t < MAX_PERIOD * (MAX_PERIOD + 1)
    BY <1>3, SMT DEF MAX_PERIOD, MaxTicks
  <2> QED BY <1>3, <1>6, <2>1, <2>2, QuotientBelow
<1>8. t \div s \in Nat /\ t \div s <= MAX_PERIOD
  BY <1>3, <1>5, <1>6, ScaledPeriod
<1> HIDE DEF q
<1>9. s \in Nat \ {0} /\ s \in 1 .. MAX_PERIOD + 1
  BY <1>5, <1>6, <1>7
<1>10. raw \in Nat
  BY <1>3, <1>9, Quotient
<1>11. period \in Nat /\ period \in 3 .. MAX_PERIOD
  BY <1>6, <1>8 DEF AtLeast, MIN_PERIOD
<1> HIDE DEF period
<1>12. pulse \in Nat /\ pulse \in 2 .. period
  <2> HIDE DEF raw
  <2> QED BY <1>6, <1>10, <1>11 DEF LimitPulse, MIN_PULSE
<1> HIDE DEF pulse
<1>13. period = AtLeast(Whole(r) \div Scale(r), MIN_PERIOD)
  BY DEF period, t, s
<1>14. pulse = LimitPulse(Half(r) \div Scale(r), period)
  BY DEF pulse, raw, s
<1>15. drv_pwm_set(r) = [psc |-> Scale(r) - 1, arr |-> period - 1, ccr |-> pulse - 1]
  BY <1>4 DEF s
<1>16. /\ Whole(r) \in Nat /\ Half(r) \in Nat
       /\ Whole(r) \div Scale(r) \in Nat /\ Half(r) \div Scale(r) \in Nat
       /\ Scale(r) \in 1 .. MAX_PERIOD + 1
  BY <1>3, <1>8, <1>9, <1>10 DEF t, s, raw
<1> QED BY <1>11, <1>12, <1>13, <1>14, <1>15, <1>16

\* The ticks of a turn of the counter and of its high part.
LEMMA TurnExact ==
    ASSUME NEW r \in Nat
    PROVE  /\ Whole(r) \in Nat /\ Half(r) \in Nat /\ Scale(r) \in Nat \ {0}
           /\ Turn(r) \in Nat /\ High(r) \in Nat
           /\ 0 < High(r) /\ High(r) < Turn(r)
<1>1. PICK period \in Nat, pulse \in Nat :
             /\ drv_pwm_set(r) = [psc |-> Scale(r) - 1, arr |-> period - 1, ccr |-> pulse - 1]
             /\ Whole(r) \in Nat /\ Half(r) \in Nat
             /\ Scale(r) \in 1 .. MAX_PERIOD + 1
             /\ period \in 3 .. MAX_PERIOD /\ pulse \in 2 .. period
  BY Registers
<1> DEFINE s == Scale(r)
<1> HIDE DEF s
<1>2. s \in Nat \ {0} /\ pulse >= 2 /\ pulse <= period
  <2>1. Scale(r) \in 1 .. MAX_PERIOD + 1 /\ pulse \in 2 .. period
    BY <1>1
  <2>2. MAX_PERIOD \in Nat
    BY SMT DEF MAX_PERIOD
  <2> QED BY <2>1, <2>2 DEF s
<1>3. Turn(r) = ((period - 1) + 1) * ((s - 1) + 1) /\ High(r) = (pulse - 1) * ((s - 1) + 1)
  BY <1>1 DEF Turn, High, s
<1>4. Turn(r) = period * s /\ High(r) = (pulse - 1) * s
  BY <1>2, <1>3
<1>5. 1 * s <= (pulse - 1) * s /\ (pulse - 1) * s <= (period - 1) * s
  BY <1>2, Monotone
<1>6. (period - 1) * s = period * s - s /\ period * s \in Nat /\ (pulse - 1) * s \in Nat
  BY <1>2
<1>7. 0 < High(r) /\ High(r) < Turn(r)
  BY <1>2, <1>4, <1>5, <1>6
<1> QED BY <1>1, <1>2, <1>4, <1>6, <1>7 DEF s

\* The steps of a gap are its turns of the counter, rounded at the falling
\* edge: a restart of the counter neither swallows a step whose pulse was over
\* nor adds one to a pulse that was not.
LEMMA StepsRound ==
    ASSUME NEW r \in Nat, NEW g \in Nat \ {0}
    PROVE  /\ Steps(r, g) \in Nat /\ Span(g) \in Nat /\ Steps(r, g) * Turn(r) \in Nat
           /\ Span(g) < Steps(r, g) * Turn(r) + High(r)
           /\ Steps(r, g) * Turn(r) + High(r) <= Span(g) + Turn(r)
<1> DEFINE P == Turn(r)
           e == High(r)
           t == Span(g)
           q == (t - 1) \div P
           m == (t - 1) % P
           k == Steps(r, g)
<1>1. P \in Nat \ {0} /\ e \in Nat /\ 0 < e /\ e < P
  BY TurnExact
<1>2. t \in Nat \ {0}
  <2>1. Clock \in Nat \ {0} /\ g * 1000 \in Nat \ {0}
    BY PwmAssumption
  <2> QED BY <2>1 DEF Span
<1>3. k = q + IF m + 1 >= e THEN 1 ELSE 0
  BY DEF Steps, Turn, High, Span
<1> HIDE DEF P, e, t, k
<1>4. /\ t - 1 = P * q + m /\ m \in Nat /\ m < P
      /\ q \in Nat
  <2>1. t - 1 \in Nat
    BY <1>2
  <2> QED BY <1>1, <2>1, Remainder
<1> HIDE DEF q, m
<1>5. P * q = q * P /\ P * q \in Nat /\ (q + 1) * P = q * P + P
  BY <1>1, <1>4
<1>6. CASE m + 1 >= e
  <2>1. k = q + 1
    BY <1>3, <1>6
  <2>2. k * P = q * P + P
    BY <1>5, <2>1
  <2> QED BY <1>1, <1>2, <1>4, <1>5, <1>6, <2>1, <2>2 DEF P, e, t, k
<1>7. CASE ~(m + 1 >= e)
  <2>1. k = q
    BY <1>3, <1>4, <1>7
  <2>2. k * P = q * P
    BY <2>1
  <2> QED BY <1>1, <1>2, <1>4, <1>5, <1>7, <2>1, <2>2 DEF P, e, t, k
<1> QED BY <1>6, <1>7

\* Half of the period in ns has half of its ticks, but for two.
LEMMA HalfExact ==
    ASSUME NEW r \in Nat
    PROVE  /\ 2 * Half(r) <= Whole(r) /\ Whole(r) <= 2 * Half(r) + 2
           /\ PeriodNs(r) * Clock < 2000 * Half(r) + 2000 + Clock
<1> DEFINE ns == PeriodNs(r)
           n == PulseNs(ns)
           w == Whole(r)
           h == Half(r)
           a == ns * Clock
           b == n * Clock
<1>1. ns \in Nat /\ n \in Nat /\ 2 * n <= ns /\ ns <= 2 * n + 1
  BY PeriodBound DEF PulseNs
<1>2. /\ w * 1000 <= a /\ a < w * 1000 + 1000 /\ w \in Nat
      /\ h * 1000 <= b /\ b < h * 1000 + 1000 /\ h \in Nat
  BY <1>1, TicksExact DEF Whole, Half
<1> HIDE DEF ns, n
<1>3. Clock \in Nat /\ Clock <= 1000
  BY PwmAssumption
<1>4. (2 * n) * Clock <= ns * Clock /\ ns * Clock <= (2 * n + 1) * Clock
  BY <1>1, <1>3, Monotone
<1>5. (2 * n) * Clock = 2 * b /\ (2 * n + 1) * Clock = 2 * b + Clock /\ a \in Nat /\ b \in Nat
  BY <1>1, <1>3
<1>6. 2 * b <= a /\ a <= 2 * b + Clock
  BY <1>4, <1>5
<1> HIDE DEF a, b, w, h
<1>7. 2 * h <= w /\ w <= 2 * h + 2 /\ a < 2000 * h + 2000 + Clock
  BY <1>2, <1>3, <1>5, <1>6
<1> QED BY <1>7 DEF a, w, h, ns

\* At six ticks or more per step the limits of period and pulse do not bite:
\* turn and pulse are the asked ones, each short by less than one scaled tick
\* (and the pulse by the one more that CCR is set lower).
LEMMA TurnFollows ==
    ASSUME NEW r \in Nat, Whole(r) >= 6
    PROVE  /\ Turn(r) <= Whole(r) /\ Whole(r) < Turn(r) + Scale(r)
           /\ High(r) + Scale(r) <= Half(r) /\ Half(r) < High(r) + 2 * Scale(r)
           /\ 2 * High(r) <= Turn(r)
<1> DEFINE w == Whole(r)
           h == Half(r)
           s == Scale(r)
           u == w \div s
           v == h \div s
<1>1. PICK period \in Nat, pulse \in Nat :
             /\ drv_pwm_set(r) = [psc |-> s - 1, arr |-> period - 1, ccr |-> pulse - 1]
             /\ period = AtLeast(u, MIN_PERIOD)
             /\ pulse = LimitPulse(v, period)
             /\ u \in Nat /\ v \in Nat
             /\ pulse \in 2 .. period
  BY Registers
<1>2. w \in Nat /\ h \in Nat /\ s \in Nat \ {0}
  BY TurnExact
<1>3. Turn(r) = ((period - 1) + 1) * ((s - 1) + 1) /\ High(r) = (pulse - 1) * ((s - 1) + 1)
  BY <1>1 DEF Turn, High
<1> HIDE DEF s
<1>4. Turn(r) = period * s /\ High(r) = (pulse - 1) * s
  BY <1>1, <1>2, <1>3
<1>5. 2 * h <= w /\ w <= 2 * h + 2
  BY HalfExact
<1>6. w >= 4 * s + 2
  <2> DEFINE q == w \div MAX_PERIOD
  <2>1. s = q + 1
    BY DEF s, Scale, Prescaler
  <2>2. w \in Nat /\ w >= 6 /\ MAX_PERIOD \in Nat \ {0} /\ MAX_PERIOD >= 10
    BY <1>2, SMT DEF MAX_PERIOD
  <2> HIDE DEF w
  <2>3. q \in Nat /\ q * MAX_PERIOD <= w
    BY <2>2, Quotient
  <2> HIDE DEF q
  <2>4. 10 * q <= MAX_PERIOD * q /\ MAX_PERIOD * q = q * MAX_PERIOD /\ q * MAX_PERIOD \in Nat
    BY <2>2, <2>3, Monotone
  <2> QED BY <2>1, <2>2, <2>3, <2>4
<1> HIDE DEF w, h
<1>7. /\ u * s <= w /\ w < u * s + s /\ v * s <= h /\ h < v * s + s
      /\ u \in Nat /\ v \in Nat
  BY <1>2, Quotient, QuotientAbove
<1> HIDE DEF u, v
<1>8. 2 <= v
  <2> SUFFICES ASSUME v + 1 <= 2 PROVE FALSE
    BY <1>7
  <2>1. (v + 1) * s <= 2 * s
    BY <1>2, <1>7, Monotone
  <2>2. (v + 1) * s = v * s + s
    BY <1>2, <1>7
  <2> QED BY <1>2, <1>5, <1>6, <1>7, <2>1, <2>2
<1>9. 2 * v <= u
  <2> SUFFICES ASSUME u + 1 <= 2 * v PROVE FALSE
    BY <1>7
  <2>1. (u + 1) * s <= (2 * v) * s
    BY <1>2, <1>7, Monotone
  <2>2. (u + 1) * s = u * s + s /\ (2 * v) * s = 2 * (v * s) /\ u * s \in Nat /\ v * s \in Nat
    BY <1>2, <1>7
  <2> QED BY <1>2, <1>5, <1>7, <2>1, <2>2
<1>10. period = u /\ pulse = v
  BY <1>1, <1>7, <1>8, <1>9 DEF AtLeast, LimitPulse, MIN_PERIOD, MIN_PULSE
<1>11. /\ Turn(r) = u * s /\ High(r) = v * s - s
       /\ u * s \in Nat /\ v * s \in Nat
  BY <1>2, <1>4, <1>7, <1>10
<1>12. 2 * (v * s) <= u * s
  <2>1. (2 * v) * s <= u * s
    BY <1>2, <1>7, <1>9, Monotone
  <2>2. (2 * v) * s = 2 * (v * s)
    BY <1>2, <1>7
  <2> QED BY <2>1, <2>2
<1> DEFINE us == u * s
           vs == v * s
<1> HIDE DEF us, vs
<1>13. /\ Turn(r) = us /\ High(r) = vs - s /\ us \in Nat /\ vs \in Nat
       /\ us <= w /\ w < us + s /\ vs <= h /\ h < vs + s /\ 2 * vs <= us
  BY <1>7, <1>11, <1>12 DEF us, vs
<1>14. /\ Turn(r) <= w /\ w < Turn(r) + s
       /\ High(r) + s <= h /\ h < High(r) + 2 * s
       /\ 2 * High(r) <= Turn(r)
  BY <1>2, <1>13
<1> QED BY <1>14 DEF w, h, s

----------------------------------------------------------------------------
(* Steps.                                                                  *)

\* Ten ticks or more to a step are enough.
LEMMA FineEnough ==
    ASSUME NEW r \in Nat, Frequency(r) <= 100000 * Clock
    PROVE  Whole(r) >= 6
<1> DEFINE f == Frequency(r)
           ns == PeriodNs(r)
           w == Whole(r)
           a == ns * Clock
           p == ns * f
<1>1. Clock \in Nat /\ Clock <= 1000 /\ f \in Nat /\ f <= 100000 * Clock
  BY PwmAssumption, FrequencyExact
<1>2. ns \in Nat /\ w \in Nat /\ a < w * 1000 + 1000
  BY PeriodBound, TicksExact DEF Whole
<1>3. MaxNs < p + f
  BY PeriodExact
<1> HIDE DEF f, ns, w
<1>4. p \in Nat /\ a \in Nat /\ a * f = p * Clock
  BY <1>1, <1>2
<1> HIDE DEF a, p
<1>5. 600000000 <= p
  BY <1>1, <1>3, <1>4, SMT DEF MaxNs
<1> SUFFICES ASSUME w <= 5 PROVE FALSE
  BY <1>2 DEF w
<1>6. a + 1 <= 6000
  BY <1>2, <1>4
<1>7. (a + 1) * f <= 6000 * f /\ 600000000 * Clock <= p * Clock
  BY <1>1, <1>4, <1>5, <1>6, Monotone
<1>8. (a + 1) * f = p * Clock + f
  BY <1>1, <1>4
<1> DEFINE x == p * Clock
<1> HIDE DEF x
<1>9. x \in Nat /\ x + f <= 6000 * f /\ 600000000 * Clock <= x
  BY <1>1, <1>4, <1>7, <1>8 DEF x
<1>10. 0 < f
  BY <1>1, FrequencyExact DEF f
<1> QED BY <1>1, <1>9, <1>10, SMT

\* A turn of the counter is no longer than the asked period.
LEMMA TurnInTime ==
    ASSUME NEW r \in Nat
    PROVE  /\ Whole(r) * Frequency(r) \in Nat
           /\ Whole(r) * Frequency(r) <= 1000000 * Clock
<1> DEFINE f == Frequency(r)
           ns == PeriodNs(r)
           w == Whole(r)
           p == ns * f
           x == w * f
           y == p * Clock
           G == MaxNs
<1>1. Clock \in Nat /\ f \in Nat
  BY PwmAssumption, FrequencyExact
<1>2. ns \in Nat /\ w \in Nat /\ w * 1000 <= ns * Clock
  BY PeriodBound, TicksExact DEF Whole
<1>3. p <= G /\ G \in Nat
  BY PeriodExact, SMT DEF MaxNs
<1> HIDE DEF f, ns, w, G
<1>4. (w * 1000) * f <= (ns * Clock) * f
  BY <1>1, <1>2, Monotone
<1>5. (w * 1000) * f = 1000 * x /\ (ns * Clock) * f = y /\ p \in Nat /\ x \in Nat /\ y \in Nat
  BY <1>1, <1>2
<1>6. p * Clock <= G * Clock
  BY <1>1, <1>3, <1>5, Monotone
<1> HIDE DEF x, y
<1>7. 1000 * x <= y /\ y <= G * Clock
  BY <1>4, <1>5, <1>6 DEF y
<1>8. x <= 1000000 * Clock
  BY <1>1, <1>5, <1>7, SMT DEF G, MaxNs
<1> QED BY <1>5, <1>8 DEF x, w, f

\* No step is swallowed: for every clock, number of microsteps, speed and gap
\* the motor makes at least as many as the frequency asks for, to one half.
THEOREM NoneLost ==
    ASSUME NEW r \in Nat, NEW g \in Nat \ {0}, Frequency(r) <= 100000 * Clock
    PROVE  g * Frequency(r) < 1000 * Steps(r, g) + 500
<1> DEFINE f == Frequency(r)
           k == Steps(r, g)
           P == Turn(r)
           e == High(r)
           t == Span(g)
           n == 2 * k + 1
           x == P * f
           z == g * f
<1>1. Clock \in Nat \ {0} /\ f \in Nat \ {0}
  BY PwmAssumption, FrequencyExact
<1>2. P \in Nat /\ e \in Nat /\ k \in Nat /\ t \in Nat /\ k * P \in Nat /\ t < k * P + e
  <2>1. Turn(r) \in Nat /\ High(r) \in Nat
    BY TurnExact
  <2>2. /\ Steps(r, g) \in Nat /\ Span(g) \in Nat /\ Steps(r, g) * Turn(r) \in Nat
        /\ Span(g) < Steps(r, g) * Turn(r) + High(r)
    BY StepsRound
  <2> QED BY <2>1, <2>2
<1>3. 2 * e <= P /\ P <= Whole(r)
  BY FineEnough, TurnFollows
<1>4. t = g * 1000 * Clock
  BY DEF Span
<1>5. x \in Nat /\ x <= 1000000 * Clock
  <2>1. Whole(r) \in Nat /\ P * f <= Whole(r) * f
    BY <1>1, <1>2, <1>3, TurnExact, Monotone
  <2>2. Whole(r) * f \in Nat /\ Whole(r) * f <= 1000000 * Clock
    BY TurnInTime
  <2> QED BY <1>1, <1>2, <2>1, <2>2
<1> HIDE DEF f, k, P, e, t
<1>6. n \in Nat /\ 2 * t + 1 <= n * P /\ n * P \in Nat
  <2>1. n * P = 2 * (k * P) + P
    BY <1>2
  <2> QED BY <1>2, <1>3, <2>1
<1>7. (2 * t + 1) * f <= (n * P) * f
  BY <1>1, <1>2, <1>6, Monotone
<1>8. (n * P) * f = x * n
  BY <1>1, <1>2, <1>6
<1>9. x * n <= (1000000 * Clock) * n
  BY <1>1, <1>5, <1>6, Monotone
<1> HIDE DEF x
<1> SUFFICES ASSUME ~(z < 1000 * k + 500) PROVE FALSE
  BY DEF z, f, k
<1>10. z \in Nat /\ n * 500 <= z
  BY <1>1, <1>2
<1>11. (n * 500) * (2000 * Clock) <= z * (2000 * Clock)
  BY <1>1, <1>6, <1>10, Monotone
<1>12. (n * 500) * (2000 * Clock) = (1000000 * Clock) * n
  BY <1>1, <1>6
<1>13. z * (2000 * Clock) = (2 * t) * f
  BY <1>1, <1>4
<1>14. (2 * t + 1) * f = (2 * t) * f + f /\ (2 * t) * f \in Nat
  BY <1>1, <1>2
<1> DEFINE c == (1000000 * Clock) * n
           d == (2 * t) * f
<1> HIDE DEF c, d, z, n
<1>15. d + f <= x * n /\ x * n <= c /\ c <= d
  BY <1>7, <1>8, <1>9, <1>11, <1>12, <1>13, <1>14 DEF c, d
<1>16. d \in Nat /\ c \in Nat /\ x * n \in Nat
  BY <1>1, <1>5, <1>6, <1>14 DEF c, d
<1> QED BY <1>1, <1>15, <1>16

\* The scale costs little: times the frequency it is the frequency and a
\* small part of the clock.
LEMMA ScaleSmall ==
    ASSUME NEW r \in Nat
    PROVE  Scale(r) * Frequency(r) \in Nat /\ Scale(r) * Frequency(r) <= Frequency(r) + 16 * Clock
<1> DEFINE f == Frequency(r)
           w == Whole(r)
           s == Scale(r)
           q == w \div MAX_PERIOD
           M == MAX_PERIOD
<1>1. Clock \in Nat /\ f \in Nat /\ w \in Nat /\ M \in Nat \ {0}
  <2>1. M \in Nat \ {0}
    BY SMT DEF MAX_PERIOD
  <2> QED BY <2>1, PwmAssumption, FrequencyExact, TurnExact
<1>2. s = q + 1
  BY DEF Scale, Prescaler
<1>3. w * f \in Nat /\ w * f <= 1000000 * Clock
  BY TurnInTime
<1>4. q \in Nat /\ q * M <= w
  BY <1>1, Quotient
<1> HIDE DEF f, w, q, s, M
<1>5. (q * M) * f <= w * f
  BY <1>1, <1>4, Monotone
<1> DEFINE x == q * f
<1>6. (q * M) * f = M * x /\ x \in Nat /\ s * f = x + f
  BY <1>1, <1>2, <1>4
<1> HIDE DEF x
<1>7. M * x <= 1000000 * Clock
  <2>1. M * x \in Nat
    BY <1>1, <1>6
  <2> QED BY <1>1, <1>3, <1>5, <1>6, <2>1
<1>8. x <= 16 * Clock
  BY <1>1, <1>6, <1>7, SMT DEF M, MAX_PERIOD
<1> QED BY <1>1, <1>6, <1>8 DEF s, f

\* In ns and ticks: what k steps take is at most the gap, a scaled tick per
\* turn, and two for the last pulse.
LEMMA StepsTake ==
    ASSUME NEW r \in Nat, NEW g \in Nat \ {0}, NEW j \in Nat,
           Steps(r, g) = j + 1, Whole(r) >= 6
    PROVE  /\ PeriodNs(r) * Clock \in Nat
           /\ (2 * j + 1) * (PeriodNs(r) * Clock)
                <= 2000 * Span(g) + Clock + 2000 * (Scale(r) * (j + 2))
<1> DEFINE A == PeriodNs(r) * Clock
           P == Turn(r)
           e == High(r)
           t == Span(g)
           s == Scale(r)
           w == Whole(r)
           h == Half(r)
<1>1. Clock \in Nat /\ A \in Nat
  BY PwmAssumption, PeriodBound
<1>2. P \in Nat /\ e \in Nat /\ s \in Nat /\ w \in Nat /\ h \in Nat
  BY TurnExact
<1>3. t \in Nat /\ (j + 1) * P + e <= t + P
  BY StepsRound
<1>4. w < P + s /\ h < e + 2 * s
  BY TurnFollows
<1>5. A < 1000 * w + 1000
  BY PeriodBound, TicksExact DEF Whole
<1>6. A < 2000 * h + 2000 + Clock
  BY HalfExact
<1> HIDE DEF A, P, e, t, s, w, h
<1>7. A <= 1000 * (P + s)
  BY <1>1, <1>2, <1>4, <1>5
<1>8. A <= 2000 * e + 4000 * s + Clock
  BY <1>1, <1>2, <1>4, <1>6
<1>9. A * j <= (1000 * (P + s)) * j
  BY <1>1, <1>2, <1>7, Monotone
<1> DEFINE x == P * j
           y == s * j
           v == A * j
<1>10. /\ (1000 * (P + s)) * j = 1000 * x + 1000 * y /\ (j + 1) * P = x + P
       /\ s * (j + 2) = y + 2 * s /\ (2 * j + 1) * A = 2 * v + A
       /\ x \in Nat /\ y \in Nat /\ v \in Nat
  BY <1>1, <1>2
<1>11. v <= 1000 * x + 1000 * y
  BY <1>9, <1>10
<1>12. x + e <= t
  <2> HIDE DEF x
  <2> QED BY <1>2, <1>3, <1>10
<1> HIDE DEF x, y, v
<1>13. 2 * v + A <= 2000 * t + Clock + 2000 * (y + 2 * s)
  BY <1>1, <1>2, <1>3, <1>8, <1>10, <1>11, <1>12
<1>14. (2 * j + 1) * A <= 2000 * t + Clock + 2000 * (s * (j + 2))
  BY <1>10, <1>13
<1> QED BY <1>1, <1>14 DEF A, t, s

\* Nor are steps added, for every clock, number of microsteps, speed and gap:
\* half a step less than the motor makes is at most what the frequency asks
\* for and, per step, what rounding the period (f) and scaling it
\* (f + 16 * Clock) can cut off.
THEOREM NoneAdded ==
    ASSUME NEW r \in Nat, NEW g \in Nat \ {0}, NEW j \in Nat,
           Steps(r, g) = j + 1, Frequency(r) <= 100000 * Clock
    PROVE  LET f == Frequency(r)
           IN  Clock * ((2 * j + 1) * (MaxNs - f))
                 <= Clock * (2000000 * (g * f) + f) + 2000 * ((j + 2) * (f + 16 * Clock))
<1> DEFINE f == Frequency(r)
           ns == PeriodNs(r)
           A == ns * Clock
           p == ns * f
           t == Span(g)
           s == Scale(r)
           n == 2 * j + 1
           m == j + 2
           G == MaxNs
<1>1. Clock \in Nat /\ f \in Nat /\ f <= 100000 * Clock /\ Clock <= 1000
  BY PwmAssumption, FrequencyExact
<1>2. ns \in Nat /\ G < p + f
  BY PeriodExact
<1>3. s \in Nat /\ t \in Nat
  BY TurnExact, StepsRound
<1>4. A \in Nat /\ n * A <= 2000 * t + Clock + 2000 * (s * m)
  BY FineEnough, StepsTake
<1>5. t = g * 1000 * Clock
  BY DEF Span
<1>6. s * f \in Nat /\ s * f <= f + 16 * Clock
  BY ScaleSmall
<1>7. G \in Nat /\ G - f \in Nat
  BY <1>1, SMT DEF G, MaxNs
<1>8. n \in Nat /\ m \in Nat
  OBVIOUS
<1> HIDE DEF f, ns, t, s, n, m, G
<1>9. p \in Nat /\ (n * A) * f = (p * (n * Clock)) /\ n * Clock \in Nat /\ n * A \in Nat
  BY <1>1, <1>2, <1>8
<1> HIDE DEF A, p
<1>10. G - f <= p
  BY <1>1, <1>2, <1>7, <1>9
<1>11. (G - f) * (n * Clock) <= p * (n * Clock)
  BY <1>7, <1>9, <1>10, Monotone
<1>12. (n * A) * f <= (2000 * t + Clock + 2000 * (s * m)) * f
  BY <1>1, <1>3, <1>4, <1>8, <1>9, Monotone
<1>13. (s * f) * m <= (f + 16 * Clock) * m
  BY <1>1, <1>6, <1>8, Monotone
<1>14. (2000 * t + Clock + 2000 * (s * m)) * f
         = (2000 * t) * f + Clock * f + 2000 * ((s * f) * m)
  BY <1>1, <1>3, <1>8
<1>15. (2000 * t) * f = Clock * (2000000 * (g * f))
  BY <1>1, <1>5
<1>16. (G - f) * (n * Clock) = Clock * (n * (G - f))
  BY <1>1, <1>7, <1>8
<1>17. (f + 16 * Clock) * m = m * (f + 16 * Clock)
  BY <1>1, <1>8
<1> DEFINE a == Clock * (n * (G - f))
           b == Clock * (2000000 * (g * f))
           c == Clock * f
           d == (s * f) * m
           x == m * (f + 16 * Clock)
           y == (n * A) * f
<1>18. /\ Clock * (2000000 * (g * f) + f) = b + c
       /\ a \in Int /\ b \in Int /\ c \in Int /\ d \in Int /\ x \in Int /\ y \in Int
  <2>1. b \in Int /\ c \in Int /\ Clock * (2000000 * (g * f) + f) = b + c
    BY <1>1
  <2>2. a \in Int /\ d \in Int /\ x \in Int /\ y \in Int
    BY <1>1, <1>6, <1>7, <1>8, <1>9
  <2> QED BY <2>1, <2>2
<1>19. a <= y /\ y <= b + c + 2000 * d /\ d <= x
  BY <1>9, <1>11, <1>12, <1>13, <1>14, <1>15, <1>16, <1>17
<1> HIDE DEF a, b, c, d, x, y
<1>20. a <= (b + c) + 2000 * x
  BY <1>18, <1>19
<1>21. Clock * (n * (G - f)) <= Clock * (2000000 * (g * f) + f) + 2000 * (m * (f + 16 * Clock))
  BY <1>18, <1>20 DEF a, x
<1> QED BY <1>21 DEF f, G, n, m

\* The board: its timers' clock and microsteps, the speeds the motors can be
\* given, and gaps of one to three control periods of 20 ms.
Board       == Clock = 200 /\ MicroSteps = 400
BoardSpeeds == 0 .. 800
BoardGaps   == {20, 40, 60}

\* As many steps as the speed asks for in g ms, to one half and the truncation
\* of the frequency to whole Hz.
Follows(r, g) ==
    Steps(r, g) * 1000 \in
      (r * MicroSteps * g) \div 60 - 500 - g .. (r * MicroSteps * g) \div 60 + 500

\* On the board the excess that NoneAdded allows is less than 20 thousandths of
\* a step, and both sides are multiples of 20, so that none is left.
THEOREM BoardSteps ==
    ASSUME Board, NEW r \in BoardSpeeds, NEW g \in BoardGaps
    PROVE  Follows(r, g)
<1> USE DEF Board
<1> DEFINE f == Frequency(r)
           k == Steps(r, g)
           e == r * MicroSteps
           z == g * f
           wanted == (r * MicroSteps * g) \div 60
<1>1. r \in Nat /\ r <= 800 /\ g \in Nat \ {0} /\ g <= 60
  BY DEF BoardSpeeds, BoardGaps
<1>2. PICK i \in {1, 2, 3} : g = 20 * i
  BY DEF BoardGaps
<1>3. e = 400 * r
  BY <1>1
<1>4. /\ f \in Nat \ {0} /\ e < 60 * f + 60 /\ (f # 1 => 60 * f <= e)
  BY <1>1, FrequencyExact
<1>5. f <= 5333
  BY <1>1, <1>3, <1>4
<1>6. k \in Nat
  BY <1>1, StepsRound
<1>7. f <= 100000 * Clock
  BY <1>5, <1>4
<1>8. z < 1000 * k + 500
  BY <1>1, <1>7, NoneLost
<1> HIDE DEF f, k
<1>9. z \in Nat /\ z = 20 * (i * f) /\ i * f \in Nat
  BY <1>1, <1>2, <1>4
<1>10. z <= 60 * f
  BY <1>1, <1>4
\* Whole steps asked for.
<1>11. wanted \in Int /\ wanted <= z + g /\ (f # 1 => z <= wanted) /\ 0 <= wanted
  <2>1. r * MicroSteps * g = e * g /\ e \in Nat /\ e * g \in Nat
    BY <1>1, <1>3
  <2> DEFINE x == e * g
  <2>2. (e * g <= (60 * f + 60) * g) /\ (f # 1 => (60 * f) * g <= e * g)
    BY <1>1, <1>4, <2>1, Monotone
  <2>3. (60 * f + 60) * g = 60 * z + 60 * g /\ (60 * f) * g = 60 * z
    BY <1>1, <1>4
  <2>4. wanted = x \div 60
    BY <2>1
  <2>5. x \in Nat /\ x <= 60 * z + 60 * g /\ (f # 1 => 60 * z <= x)
    BY <2>1, <2>2, <2>3
  <2> HIDE DEF x, wanted, z, e
  <2>6. x \div 60 \in Nat /\ x \div 60 <= z + g /\ (f # 1 => z <= x \div 60)
    BY <1>1, <1>9, <2>5
  <2> QED BY <2>4, <2>6
<1>12. k # 0 => 1000 * k - 500 <= z
  <2> SUFFICES ASSUME k # 0 PROVE 1000 * k - 500 <= z
    OBVIOUS
  <2> DEFINE j == k - 1
             jf == j * f
  <2>1. j \in Nat /\ k = j + 1
    BY <1>6
  <2> HIDE DEF j
  <2>2. Clock * ((2 * j + 1) * (MaxNs - f))
          <= Clock * (2000000 * z + f) + 2000 * ((j + 2) * (f + 16 * Clock))
    BY <1>1, <1>7, <2>1, NoneAdded DEF f, k
  <2>3. jf \in Nat /\ jf <= 5333 * j
    <3>1. f * j <= 5333 * j /\ f * j = j * f /\ j * f \in Nat
      BY <1>4, <1>5, <2>1, Monotone
    <3> QED BY <3>1
  <2>4. /\ (2 * j + 1) * (MaxNs - f) = (2 * j + 1) * MaxNs - 2 * jf - f
        /\ (j + 2) * (f + 3200) = jf + 2 * f + 3200 * j + 6400
    <3> DEFINE G == MaxNs
    <3>1. G \in Nat
      BY SMT DEF MaxNs
    <3> HIDE DEF G
    <3>2. (2 * j + 1) * (G - f) = (2 * j + 1) * G - 2 * (j * f) - f
      BY <1>4, <2>1, <3>1
    <3>3. (j + 2) * (f + 3200) = j * f + 2 * f + 3200 * j + 6400
      BY <1>4, <2>1
    <3> QED BY <3>2, <3>3 DEF G
  <2> HIDE DEF jf, z
  <2>5. 200 * ((2 * j + 1) * MaxNs - 2 * jf - f)
          <= 200 * (2000000 * z + f) + 2000 * (jf + 2 * f + 3200 * j + 6400)
    BY <2>2, <2>4, SMT
  <2>6. j <= 320
    BY <1>4, <1>5, <1>9, <1>10, <2>1, <2>3, <2>5, SMT DEF MaxNs
  <2>7. 1000 * k - 500 < z + 20
    BY <1>4, <1>5, <1>9, <2>1, <2>3, <2>5, <2>6, SMT DEF MaxNs
  <2> QED BY <1>6, <1>9, <2>7, SMT
<1>13. f = 1 => k = 0
  BY <1>1, <1>6, <1>10, <1>9, <1>12
<1> HIDE DEF wanted, z
<1>14. wanted - 500 - g <= k * 1000 /\ k * 1000 <= wanted + 500
  BY <1>1, <1>6, <1>8, <1>9, <1>11, <1>12, <1>13
<1> QED BY <1>1, <1>6, <1>11, <1>14 DEF wanted, k, Follows
=============================================================================
