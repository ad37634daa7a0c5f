---------------------------- MODULE MotorControl ----------------------------
(***************************************************************************)
(* The motor side of applications/main.c: the command thread uart_ctrl     *)
(* (priority 20), the speed controller speed_pid_thread (priority 12) and  *)
(* the pins and PWM timers of the two winding motors.                      *)
(*                                                                         *)
(* A command of uart_ctrl is a straight sequence of single writes and      *)
(* delays; what it tests (closed_loop_enable, g_motor_run) only uart_ctrl  *)
(* writes, so the sequence is known when the command begins.  todo holds   *)
(* what is left of it, and the PID thread may run between any two writes,  *)
(* as it outranks uart_ctrl.  Time passes in ticks; when both threads wake  *)
(* at the same tick the PID thread runs first.                             *)
(*                                                                         *)
(* A motor turns when its driver is enabled (ena) and its PWM output is on *)
(* (pwm); rate is the speed its PWM timer is programmed for, in rpm, and   *)
(* PwmDriver says what the timer makes of it.                              *)
(***************************************************************************)
EXTENDS Integers, Sequences, PwmDriver

CONSTANTS
    PidPeriod,      \* ticks of rt_thread_mdelay(20) in speed_pid_thread
    StopDelay,      \* of rt_thread_mdelay(20) in command 'u'
    JogPause,       \* of rt_thread_mdelay(10) in motor_move_steps
    JogTime,        \* of the jog itself (400 or 800 ms)
    RampDelay,      \* of a step of motor_accel (80 or 50 ms)
    BeepTime,       \* of the beep of command 'b' (100 ms)
    PidOutputs,     \* sums of the PID terms, in rpm
    Commands,       \* the commands that are sent
    MaxInbox        \* bound on command bytes waiting for uart_ctrl

\* The eight jog letters differ in the motor, the direction and the length.
Jogs        == {"jog1", "jog1r", "jog2", "jog2r"}
AllCommands == {"s", "b", "u", "o", "t", "w", "m", "l"} \cup Jogs

ASSUME MotorAssumption ==
    /\ PidPeriod \in Nat \ {0}
    /\ StopDelay \in Nat /\ StopDelay >= PidPeriod
    /\ JogPause \in Nat \ {0} /\ JogTime \in Nat \ {0}
    /\ RampDelay \in Nat \ {0} /\ BeepTime \in Nat \ {0}
    /\ PidOutputs \subseteq Int
    /\ Commands \subseteq AllCommands
    /\ MaxInbox \in Nat \ {0}

Motors == {1, 2}

VARIABLES
    found,                  \* the PWM devices motor_hw_init found
    closed_loop_enable, g_motor_run, g_direction_reverse, target_speed_mmps,
    ena, dir,               \* driver pins of each motor
    pwm, rate,              \* PWM output and programmed speed of each motor
    buzzer,
    inbox,                  \* command bytes received
    cmd,                    \* command uart_ctrl handles or handled last
    todo,                   \* what is left to do of it
    ctrl_wait, pid_wait,    \* ticks until the threads wake
    was_enabled             \* PID: integral and filter belong to this run

loop    == <<closed_loop_enable, g_motor_run, g_direction_reverse, target_speed_mmps>>
outputs == <<ena, dir, pwm, rate, buzzer>>
thread  == <<inbox, cmd, todo, ctrl_wait>>
vars    == <<found, loop, outputs, thread, pid_wait, was_enabled>>

----------------------------------------------------------------------------
(* The functions of main.c as sequences of writes <<what, where, value>>;  *)
(* RT_TRUE is 1, RT_FALSE is 0.                                            *)

Wait(d)      == << <<"wait", 0, d>> >>
Loop(b)      == << <<"loop", 0, b>> >>
Run(b)       == << <<"run", 0, b>> >>
Rev(b)       == << <<"rev", 0, b>> >>
Target(mmps) == << <<"target", 0, mmps>> >>
Buzzer(b)    == << <<"buzzer", 0, b>> >>
Ena(m, b)    == << <<"ena", m, b>> >>
Dir(m, b)    == << <<"dir", m, b>> >>
Pwm(m, b)    == << <<"pwm", m, b>> >>
Rate(m, rpm) == << <<"rate", m, rpm>> >>

\* Plausible coding errors: variants of the definitions below, used only to
\* show that the properties of this module notice them.
EnableOnly(reverse) ==
    IF reverse
    THEN Dir(1, 1) \o Dir(2, 1) \o Ena(2, 1)
    ELSE Dir(1, 0) \o Dir(2, 0) \o Ena(1, 1)
LazyStop ==
    IF g_motor_run
    THEN Run(0) \o Pwm(1, 0) \o Pwm(2, 0) ELSE <<>>

\* Both branches switch both outputs off; g_motor_run ends FALSE.
motor_continuous_stop == Run(0) \o Pwm(1, 0) \o Pwm(2, 0)

\* if (closed_loop_enable) closed_loop_enable = RT_FALSE;
OpenLoop == IF closed_loop_enable THEN Loop(0) ELSE <<>>

motor_set_direction(reverse) ==
    IF reverse
    THEN Dir(1, 1) \o Dir(2, 1) \o Ena(1, 0) \o Ena(2, 1)
    ELSE Dir(1, 0) \o Dir(2, 0) \o Ena(1, 1) \o Ena(2, 0)

motor_set_speed_rpm_both(rpm) ==
    IF found = Motors THEN Rate(1, rpm) \o Rate(2, rpm) ELSE <<>>

\* The first half of motor_accel; its callers have just stopped the motors,
\* so g_motor_run is FALSE.
StartAt(rpm, reverse) ==
    motor_set_speed_rpm_both(rpm) \o Run(1) \o motor_set_direction(reverse)
        \o Pwm(1, 1) \o Pwm(2, 1)

\* The loop of motor_accel: n times motor_set_speed_rpm_both and a delay.
Ramp(start_rpm, step_rpm, n) ==
    IF found = Motors
    THEN [k \in 1 .. 3 * n |->
            IF k % 3 = 0 THEN <<"wait", 0, RampDelay>>
            ELSE <<"rate", k % 3, start_rpm + (k \div 3 + 1) * step_rpm>>]
    ELSE [k \in 1 .. n |-> <<"wait", 0, RampDelay>>]

motor_accel(start_rpm, target_rpm, step_rpm, reverse) ==
    IF start_rpm >= target_rpm
    THEN StartAt(target_rpm, reverse)
    ELSE StartAt(start_rpm, reverse) \o Wait(RampDelay)
         \o Ramp(start_rpm, step_rpm, (target_rpm - start_rpm) \div step_rpm)
         \o motor_set_speed_rpm_both(target_rpm)

\* The speed level in rpm: 1000000 / 750 us = 1333 Hz, times 60 / 400.
LevelRpm == ((1000000 \div 750) * 60) \div 400
JogRpm   == 75

\* Programs the timers only while the motors run in open loop.
motor_set_speed_level(running, closed) ==
    IF running /\ ~closed
    THEN Rate(1, LevelRpm) \o Rate(2, LevelRpm) ELSE <<>>

\* When it calls motor_set_speed_level it has stopped the motors itself.
motor_move_steps(motor_id, reverse) ==
    (IF closed_loop_enable
     THEN Loop(0) \o motor_continuous_stop \o Wait(JogPause)
     ELSE <<>>)
    \o motor_continuous_stop \o Wait(JogPause)
    \o Dir(motor_id, IF reverse THEN 1 ELSE 0) \o Ena(motor_id, 1) \o Ena(3 - motor_id, 0)
    \o Rate(motor_id, JogRpm) \o Pwm(motor_id, 1) \o Wait(JogTime)
    \o Pwm(motor_id, 0) \o Ena(1, 0) \o Ena(2, 0)
    \o motor_set_speed_level(FALSE, FALSE)

----------------------------------------------------------------------------
(* The commands.                                                           *)

\* target_speed_mmps * 60 / (3.14159 * 60), at least 30.
TargetRpm(mmps) ==
    LET rpm == (mmps * 100000) \div 314159
    IN  IF rpm < 30 THEN 30 ELSE rpm

\* 'u' without the pause, and 'u' that closes the loop before the ramp.
HastyForward ==
    OpenLoop \o motor_continuous_stop \o Wait(1)
    \o Rev(0) \o motor_set_direction(FALSE)
    \o motor_accel(50, TargetRpm(target_speed_mmps), 5, FALSE)
    \o Loop(1)
EagerForward ==
    OpenLoop \o motor_continuous_stop \o Wait(StopDelay)
    \o Rev(0) \o motor_set_direction(FALSE)
    \o Loop(1)
    \o motor_accel(50, TargetRpm(target_speed_mmps), 5, FALSE)
\* 'o' that forgets the direction flag; 's' that leaves the loop closed.
FlaglessReverse ==
    motor_continuous_stop \o Loop(1)
    \o motor_set_direction(TRUE)
    \o Pwm(2, 1) \o Pwm(1, 0)
StopOutputsOnly == motor_continuous_stop

\* 's'
Stop == OpenLoop \o motor_continuous_stop

\* 'b': also sends "pp" to the camera.
Begin ==
    OpenLoop \o motor_continuous_stop
    \o Buzzer(1) \o Wait(BeepTime) \o Buzzer(0)

\* 'u'
ForwardLoop ==
    OpenLoop \o motor_continuous_stop \o Wait(StopDelay)
    \o Rev(0) \o motor_set_direction(FALSE)
    \o motor_accel(50, TargetRpm(target_speed_mmps), 5, FALSE)
    \o Loop(1)

\* 'o'
ReverseLoop ==
    motor_continuous_stop \o Loop(1)
    \o Rev(1) \o motor_set_direction(TRUE)
    \o Pwm(2, 1) \o Pwm(1, 0)

\* 't'
OpenLoopTest ==
    OpenLoop \o motor_continuous_stop
    \o Rev(0) \o motor_set_direction(FALSE)
    \o motor_accel(100, 200, 20, FALSE)

Script(c) ==
    CASE c = "s"     -> Stop
      [] c = "b"     -> Begin
      [] c = "u"     -> ForwardLoop
      [] c = "o"     -> ReverseLoop
      [] c = "t"     -> OpenLoopTest
      [] c = "w"     -> Target(300)
      [] c = "m"     -> Target(200)
      [] c = "l"     -> Target(100)
      [] c = "jog1"  -> motor_move_steps(1, FALSE)
      [] c = "jog1r" -> motor_move_steps(1, TRUE)
      [] c = "jog2"  -> motor_move_steps(2, FALSE)
      [] c = "jog2r" -> motor_move_steps(2, TRUE)

----------------------------------------------------------------------------
(* Steps.                                                                  *)

\* motor_hw_init has run; a PWM device may be missing.
Init ==
    /\ found \in SUBSET Motors
    /\ closed_loop_enable = FALSE /\ g_motor_run = FALSE /\ g_direction_reverse = FALSE
    /\ target_speed_mmps = 200
    /\ ena = [m \in Motors |-> 0] /\ dir = [m \in Motors |-> 0]
    /\ pwm = [m \in Motors |-> 0] /\ rate = [m \in Motors |-> 0]
    /\ buzzer = 0
    /\ inbox = <<>> /\ cmd = "s" /\ todo = <<>>
    /\ ctrl_wait = 0 /\ pid_wait = 0
    /\ was_enabled = FALSE

\* The camera or the LCD sends a command byte (interrupt).
Receive ==
    /\ Len(inbox) < MaxInbox
    /\ \E c \in Commands : inbox' = Append(inbox, c)
    /\ UNCHANGED <<found, loop, outputs, cmd, todo, ctrl_wait, pid_wait, was_enabled>>

\* The PID thread is ready: uart_ctrl does not run.
PidReady == pid_wait = 0

\* uart_ctrl reads the next command byte.
TakeCommand ==
    /\ ~PidReady
    /\ todo = <<>> /\ ctrl_wait = 0 /\ inbox # <<>>
    /\ cmd' = Head(inbox)
    /\ todo' = Script(Head(inbox))
    /\ inbox' = Tail(inbox)
    /\ UNCHANGED <<found, loop, outputs, ctrl_wait, pid_wait, was_enabled>>

\* One write or delay of uart_ctrl; rt_pwm_* on a missing device does nothing.
Do(op) ==
    LET what == op[1]  m == op[2]  v == op[3] IN
    /\ closed_loop_enable'  = IF what = "loop" THEN v = 1 ELSE closed_loop_enable
    /\ g_motor_run'         = IF what = "run" THEN v = 1 ELSE g_motor_run
    /\ g_direction_reverse' = IF what = "rev" THEN v = 1 ELSE g_direction_reverse
    /\ target_speed_mmps'   = IF what = "target" THEN v ELSE target_speed_mmps
    /\ ena'    = IF what = "ena" THEN [ena EXCEPT ![m] = v] ELSE ena
    /\ dir'    = IF what = "dir" THEN [dir EXCEPT ![m] = v] ELSE dir
    /\ pwm'    = IF what = "pwm" /\ m \in found THEN [pwm EXCEPT ![m] = v] ELSE pwm
    /\ rate'   = IF what = "rate" /\ m \in found THEN [rate EXCEPT ![m] = v] ELSE rate
    /\ buzzer' = IF what = "buzzer" THEN v ELSE buzzer
    /\ ctrl_wait' = IF what = "wait" THEN v ELSE 0

CtrlStep ==
    /\ ~PidReady
    /\ todo # <<>> /\ ctrl_wait = 0
    /\ Do(Head(todo))
    /\ todo' = Tail(todo)
    /\ UNCHANGED <<found, inbox, cmd, pid_wait, was_enabled>>

Active == IF g_direction_reverse THEN 2 ELSE 1

Unlimited(output) == output

\* The limits of the PID output before it is converted to uint16_t.
MAX_RPM == 800
Limited(output) == IF output > MAX_RPM THEN MAX_RPM ELSE IF output < 0 THEN 0 ELSE output

\* motor_set_active_speed_rpm
SetActiveRate(rpm) ==
    rate' = IF found = Motors THEN [rate EXCEPT ![Active] = rpm] ELSE rate

\* One cycle of speed_pid_thread.
PidStep ==
    /\ PidReady
    /\ \/ /\ closed_loop_enable
          /\ was_enabled' = TRUE
          /\ \E output \in PidOutputs : SetActiveRate(Limited(output))
       \/ /\ ~closed_loop_enable
          /\ was_enabled' = FALSE
          /\ UNCHANGED rate
    /\ pid_wait' = PidPeriod
    /\ UNCHANGED <<found, loop, ena, dir, pwm, buzzer, thread>>

\* A tick passes, at any time: a thread that is ready may be kept waiting
\* by interrupts and by uart_img, which outranks both.
Tick ==
    /\ pid_wait' = IF pid_wait > 0 THEN pid_wait - 1 ELSE 0
    /\ ctrl_wait' = IF ctrl_wait > 0 THEN ctrl_wait - 1 ELSE 0
    /\ UNCHANGED <<found, loop, outputs, inbox, cmd, todo, was_enabled>>

Ctrl == TakeCommand \/ CtrlStep

Next == Receive \/ Ctrl \/ PidStep \/ Tick

Spec == Init /\ [][Next]_vars

\* The clock ticks; the PID thread, once ready, gets the processor; so does
\* uart_ctrl, as the threads above it sleep again and again.
FairSpec == Spec /\ WF_vars(Tick) /\ WF_vars(PidStep) /\ SF_vars(Ctrl)

----------------------------------------------------------------------------
(* Properties.                                                             *)

\* Pins and flags have their types, and the speed programmed into a timer is
\* never beyond 0 .. MAX_RPM, whatever the PID terms sum up to.
TypeOK ==
    /\ found \subseteq Motors
    /\ closed_loop_enable \in BOOLEAN /\ g_motor_run \in BOOLEAN
    /\ g_direction_reverse \in BOOLEAN
    /\ target_speed_mmps \in {100, 200, 300}
    /\ ena \in [Motors -> {0, 1}] /\ dir \in [Motors -> {0, 1}]
    /\ pwm \in [Motors -> {0, 1}] /\ rate \in [Motors -> 0 .. MAX_RPM]
    /\ buzzer \in {0, 1}
    /\ inbox \in Seq(Commands) /\ cmd \in AllCommands
    /\ ctrl_wait \in Nat /\ pid_wait \in 0 .. PidPeriod
    /\ was_enabled \in BOOLEAN

Turning(m) == ena[m] = 1 /\ pwm[m] = 1

\* The two motors pull the same piece of fabric from its two ends: at no
\* instant, also not between two writes of a change of direction or of a
\* jog, do both turn (motor_set_direction, motor_move_steps).
NeverBothTurn == ~(Turning(1) /\ Turning(2))

\* Once 's' or 'b' has been handled nothing turns and nothing will until the
\* next command: the loop is open, so the PID thread cannot interfere.
StopMeansStopped ==
    cmd \in {"s", "b"} /\ todo = <<>> =>
        ~closed_loop_enable /\ \A m \in Motors : ~Turning(m)

\* While the loop is closed and uart_ctrl is idle, the motor the PID thread
\* regulates is the one that is enabled and pulsed, in the direction of
\* g_direction_reverse, and the other one is not enabled.
LoopDrivesActiveMotor ==
    closed_loop_enable /\ todo = <<>> =>
        /\ ena[Active] = 1 /\ ena[3 - Active] = 0
        /\ Active \in found => pwm[Active] = 1
        /\ dir[Active] = IF g_direction_reverse THEN 1 ELSE 0

\* No timer is programmed by both threads: uart_ctrl writes speeds (soft
\* start, jog) only while the loop is open, the PID thread only while it is
\* closed.  rt_pwm_set is several register writes, so a mixture would leave a
\* speed nobody asked for.
OneWriterOfRates ==
    todo # <<>> /\ Head(todo)[1] = "rate" => ~closed_loop_enable

\* When 'u' closes the loop the PID thread has seen it open since the last
\* run, so that it starts with a fresh integral ("was_enabled" is FALSE, as
\* the comment in case 'u' relies on), and the timers are at the target speed.
SoftStartHandsOver ==
    [][cmd = "u" /\ ~closed_loop_enable /\ closed_loop_enable' =>
         /\ ~was_enabled
         /\ found = Motors => rate[1] = TargetRpm(target_speed_mmps)]_vars

\* The largest value of a 16-bit register.
U16_MAX == 65535

\* Every speed fits the 16-bit registers of its timer, and the compare value
\* the period: none wraps a register to a different speed (drv_pwm_set).
RegistersFit ==
    \A m \in Motors :
        LET reg == drv_pwm_set(rate[m])
        IN  reg.psc \in 0 .. U16_MAX /\ reg.arr \in 0 .. U16_MAX /\ reg.ccr \in 0 .. reg.arr

\* Although drv_pwm_set restarts the timer's counter in every PID cycle, no
\* steps are swallowed or added beyond rounding to the nearest: the motor
\* makes as many as its speed asks for in that time, to one half (and the
\* truncation of the frequency to whole Hz).
StepsFollowCommand ==
    \A m \in Motors, g \in Gaps :
        LET wanted == (rate[m] * MicroSteps * g) \div 60   \* thousandths of a step
        IN  Steps(rate[m], g) * 1000 \in wanted - 500 - g .. wanted + 500

\* A stop byte takes effect, even behind a soft start or a jog.
StopIsObeyed ==
    inbox = <<"s">> ~> ~closed_loop_enable /\ pwm = [m \in Motors |-> 0]

\* "Restore the PWM period to the current speed level (so that the next open
\* loop run is not affected)": the end of motor_move_steps claims it.
JogRestoresPeriod ==
    cmd \in Jogs /\ todo = <<>> /\ found = Motors =>
        rate[IF cmd \in {"jog1", "jog1r"} THEN 1 ELSE 2] = LevelRpm
=============================================================================
