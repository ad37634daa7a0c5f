----------------------------- MODULE SpeedLoop -----------------------------
(***************************************************************************)
(* The arithmetic of the speed controller of applications/main.c: the      *)
(* encoder counter, get_line_speed_mmps and the PID sum of                 *)
(* speed_pid_thread.  (Which motor it drives, and when, is MotorControl.)  *)
(*                                                                         *)
(* Time passes in control periods of 20 ms, in which the web advances by   *)
(* some encoder counts; the PID thread may be late by a few periods, as    *)
(* uart_img outranks it.  Speeds are whole mm/s, rounded down where the    *)
(* code has fractions; the integral is kept in units of error * 0.02 s.    *)
(***************************************************************************)
EXTENDS Integers

CONSTANTS
    Half,           \* half the range of the encoder counter (32768)
    Counts,         \* counts the web may advance in one period
    CountSpeed,     \* mm/s of one count per period
    Target,         \* target_speed_mmps
    IntegralLimit,  \* Ki_limit / 0.02 s
    KiDiv,          \* 1 / (Ki * 0.02 s): the integral's weight in the output
    OutMax,         \* largest output, in rpm (800)
    MaxElapsed,     \* bound on the periods between two samples
    MaxFactor       \* bound on factor

ASSUME SpeedAssumption ==
    /\ Half \in Nat \ {0}
    /\ Counts \subseteq Nat
    /\ CountSpeed \in Nat \ {0} /\ Target \in Nat
    /\ IntegralLimit \in Nat /\ KiDiv \in Nat \ {0}
    /\ OutMax \in Nat
    /\ MaxElapsed \in Nat \ {0} /\ MaxFactor \in Nat

VARIABLES
    closed_loop_enable, g_direction_reverse,    \* written by uart_ctrl
    cnt,                \* TIM3->CNT
    last_count,         \* of the last sample
    elapsed,            \* periods since it: now - last_time_ms
    due,                \* the PID thread's delay is over
    was_enabled, filtered_speed, integral, output,
    \* History: what the web really did, and what the samples were.
    moved,              \* counts the web advanced since the last sample
    sample,             \* the last sample
    lo, hi,             \* slowest and fastest sample of this run
    gap, factor         \* filter error when the speed last changed; 2^k, k equal samples later

history == <<sample, lo, hi, gap, factor>>
vars == <<closed_loop_enable, g_direction_reverse, cnt, last_count, elapsed, due,
          was_enabled, filtered_speed, integral, output, moved, history>>

Abs(x) == IF x < 0 THEN -x ELSE x

----------------------------------------------------------------------------
(* get_line_speed_mmps.                                                    *)

\* Plausible coding errors: variants of the definitions below, used only to
\* show that the properties of this module notice them.
OneSided(delta) == IF delta > Half - 1 THEN delta - 2 * Half ELSE delta
HeavyFilter(raw, old) == IF old = 0 THEN raw ELSE (raw + 3 * old) \div 4
KeptFilter == filtered_speed
WindingUp(i) == i

\* The difference of two 16-bit counts, corrected for a wrap-around.
Unwrapped(delta) ==
    IF delta > Half - 1 THEN delta - 2 * Half
    ELSE IF delta < -(Half - 1) THEN delta + 2 * Half
    ELSE delta

RawSpeed(delta, periods) == (delta * CountSpeed) \div periods

\* First-order low pass with filter_alpha = 0.5; zero stands for "no value".
Filter(raw, old) == IF old = 0 THEN raw ELSE (raw + old) \div 2

----------------------------------------------------------------------------
(* speed_pid_thread.                                                       *)

\* filtered_speed when a run begins or the loop is open.
NoSpeed == 0

LimitIntegral(i) ==
    IF i > IntegralLimit THEN IntegralLimit
    ELSE IF i < -IntegralLimit THEN -IntegralLimit
    ELSE i

LimitOutput(o) == IF o > OutMax THEN OutMax ELSE IF o < 0 THEN 0 ELSE o

\* Kp * error + Ki * integral, with Kp = 1 and Kd = 0.
PidSum(error, i) == (error * KiDiv + i) \div KiDiv

NoSample == [delta |-> 0, true |-> 0, raw |-> 0]

Init ==
    /\ closed_loop_enable = FALSE /\ g_direction_reverse = FALSE
    /\ cnt = 0 /\ last_count = 0 /\ elapsed = 0 /\ due = FALSE
    /\ was_enabled = FALSE /\ filtered_speed = 0 /\ integral = 0 /\ output = 0
    /\ moved = 0
    /\ sample = NoSample
    /\ lo = 0 /\ hi = 0 /\ gap = 0 /\ factor = 1

\* A period passes: the web advances in the direction it is pulled (by a jog
\* or a coasting motor, if the loop is open), the wheel counts, and the PID
\* thread's delay ends.
Period ==
    /\ elapsed < MaxElapsed
    /\ \E n \in Counts, back \in IF closed_loop_enable THEN {g_direction_reverse} ELSE BOOLEAN :
          LET d == IF back THEN -n ELSE n IN
          /\ cnt' = (cnt + d) % (2 * Half)
          /\ moved' = moved + d
    /\ elapsed' = elapsed + 1
    /\ due' = TRUE
    /\ UNCHANGED <<closed_loop_enable, g_direction_reverse, last_count, was_enabled,
                   filtered_speed, integral, output, history>>

\* uart_ctrl closes the loop: 'u' after the PID thread has seen it open
\* (MotorControl!SoftStartHandsOver), 'o' at any time, in a forward run too.
CloseLoop(reverse) ==
    /\ reverse \/ (~closed_loop_enable /\ ~was_enabled)
    /\ closed_loop_enable' = TRUE /\ g_direction_reverse' = reverse
    /\ UNCHANGED <<cnt, last_count, elapsed, due, was_enabled, filtered_speed,
                   integral, output, moved, history>>
\* Every other motor command opens it.
OpenLoop ==
    /\ closed_loop_enable /\ closed_loop_enable' = FALSE
    /\ UNCHANGED <<g_direction_reverse, cnt, last_count, elapsed, due, was_enabled,
                   filtered_speed, integral, output, moved, history>>

\* A cycle of the PID thread while the loop is closed.
ClosedCycle ==
    LET f0    == IF was_enabled THEN filtered_speed ELSE NoSpeed
        i0    == IF was_enabled THEN integral ELSE 0
        delta == Unwrapped(cnt - last_count)
        raw   == RawSpeed(delta, elapsed)
        f     == Filter(raw, f0)
        error == Target - f
        i     == LimitIntegral(i0 + error)
        same  == was_enabled /\ raw = sample.raw
    IN
    /\ due /\ closed_loop_enable
    /\ was_enabled' = TRUE
    /\ filtered_speed' = f
    /\ integral' = i
    /\ output' = LimitOutput(PidSum(error, i))
    /\ last_count' = cnt /\ elapsed' = 0 /\ due' = FALSE
    /\ moved' = 0
    /\ sample' = [delta |-> delta, true |-> moved, raw |-> raw]
    /\ lo' = IF was_enabled /\ lo < raw THEN lo ELSE raw
    /\ hi' = IF was_enabled /\ hi > raw THEN hi ELSE raw
    /\ gap' = IF same THEN gap ELSE Abs(f - raw)
    /\ factor' = IF ~same THEN 1 ELSE IF factor < MaxFactor THEN 2 * factor ELSE factor
    /\ UNCHANGED <<closed_loop_enable, g_direction_reverse, cnt>>

\* A cycle while it is open: the encoder is not read.
OpenCycle ==
    /\ due /\ ~closed_loop_enable
    /\ was_enabled' = FALSE
    /\ filtered_speed' = NoSpeed
    /\ integral' = 0
    /\ due' = FALSE
    /\ sample' = NoSample
    /\ lo' = 0 /\ hi' = 0 /\ gap' = 0 /\ factor' = 1
    /\ UNCHANGED <<closed_loop_enable, g_direction_reverse, cnt, last_count, elapsed, output,
                   moved>>

Next ==
    \/ Period
    \/ \E reverse \in BOOLEAN : CloseLoop(reverse)
    \/ OpenLoop
    \/ ClosedCycle
    \/ OpenCycle

Spec == Init /\ [][Next]_vars

----------------------------------------------------------------------------
(* Properties.                                                             *)

\* The displacement computed from two readings of the wrapping counter is
\* the true one, in both directions and across any number of turns of the
\* counter, as long as less than half its range lies between two samples.
DisplacementIsTrue ==
    Abs(sample.true) < Half => sample.delta = sample.true

\* The filtered speed is never outside the samples of this run: nothing of
\* an earlier run (filtered_speed, was_enabled) leaks into it.
FilterForgets == was_enabled => lo <= filtered_speed /\ filtered_speed <= hi

\* While the web keeps its speed the error of the feedback halves with each
\* cycle, whatever the (possibly stale) first sample was.
FilterConverges ==
    was_enabled => Abs(filtered_speed - sample.raw) * factor <= gap + factor - 1

\* However long the error lasted (a jammed web, a late start), the integral
\* moves the command by at most IntegralLimit / KiDiv: no wind-up.
NoWindUp ==
    was_enabled =>
        Abs(output - LimitOutput(Target - filtered_speed)) <= IntegralLimit \div KiDiv + 1
=============================================================================
