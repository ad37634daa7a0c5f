----------------------------- MODULE PwmDriver -----------------------------
(***************************************************************************)
(* From a speed in rpm to steps of the motor: the conversion in            *)
(* motor_set_active_speed_rpm and motor_set_speed_rpm_both (main.c), the   *)
(* scaling of drv_pwm_set (drivers/drv_pwm.c), and the steps the timer     *)
(* makes of it.  MotorControl's rate is the speed that is converted here.  *)
(*                                                                         *)
(* drv_pwm_set restarts the timer's counter, and the PID thread calls it   *)
(* every 20 ms: the steps of a control period are not those of a free      *)
(* running timer.  A step is a rising edge of the output, which is high    *)
(* while the counter is below the compare register.                        *)
(*                                                                         *)
(* The products of the code are 64 bits wide; here they are split so that  *)
(* no intermediate value is large.                                         *)
(***************************************************************************)
EXTENDS Integers

CONSTANTS
    Clock,          \* of the timer, in MHz: twice the bus clock (200)
    MicroSteps,     \* MICRO_STEPS: steps of a turn (400)
    Gaps            \* ms between two calls of drv_pwm_set

ASSUME PwmAssumption ==
    /\ Clock \in Nat \ {0} /\ Clock <= 1000
    /\ MicroSteps \in Nat \ {0}
    /\ Gaps \subseteq Nat \ {0}

MAX_PERIOD == 65535
MIN_PERIOD == 3
MIN_PULSE  == 2

\* Plausible coding errors: variants of the definitions below, used only to
\* show that the properties of MotorControl notice them.
NoRounding(ticks) == IF ticks < MAX_PERIOD THEN 1 ELSE ticks \div MAX_PERIOD
\* Ticks with a 32-bit product: 2^32 / 1000 = 4294967.
NarrowTicks(ns) == ((ns \div 1000) * Clock + ((ns % 1000) * Clock) \div 1000) % 4294967

\* Steps per second, at least one.
Frequency(r) == IF (r * MicroSteps) \div 60 < 1 THEN 1 ELSE (r * MicroSteps) \div 60

PeriodNs(r) == 1000000000 \div Frequency(r)
PulseNs(ns) == ns \div 2

\* ns * Clock / 1000: ticks of the timer's clock in so many ns.
Ticks(ns) == (ns \div 1000) * Clock + ((ns % 1000) * Clock) \div 1000

Prescaler(ticks) == ticks \div MAX_PERIOD + 1

\* The smallest period is MIN_PERIOD, a pulse is MIN_PULSE .. period.
AtLeast(x, m) == IF x < m THEN m ELSE x
LimitPulse(p, period) == IF p < MIN_PULSE THEN MIN_PULSE ELSE IF p > period THEN period ELSE p

\* The registers drv_pwm_set writes for a speed; it also restarts the counter.
drv_pwm_set(r) ==
    LET ns     == PeriodNs(r)
        scale  == Prescaler(Ticks(ns))
        period == AtLeast(Ticks(ns) \div scale, MIN_PERIOD)
        pulse  == LimitPulse(Ticks(PulseNs(ns)) \div scale, period)
    IN  [psc |-> scale - 1, arr |-> period - 1, ccr |-> pulse - 1]

\* Steps in the g ms between two calls with speed r: one for each turn of the
\* counter, and one for the restart that ends them if it finds the output low.
Steps(r, g) ==
    LET reg    == drv_pwm_set(r)
        t      == g * 1000 * Clock
        period == (reg.arr + 1) * (reg.psc + 1)
        past   == ((t - 1) % period) + 1
    IN  (t - 1) \div period + IF past >= reg.ccr * (reg.psc + 1) THEN 1 ELSE 0
=============================================================================
