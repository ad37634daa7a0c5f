------------------------- MODULE MotorControlProofs -------------------------
(***************************************************************************)
(* Proofs for MotorControl, for every period, delay and PID sum and with   *)
(* every subset of the PWM devices.                                        *)
(*                                                                         *)
(* What a command may still do to the outputs depends on all that is left  *)
(* of it, so the invariant is about todo as a program: there is a plan, one *)
(* state before each write and one after the last, in which every write is *)
(* permitted where it stands and the last state is a proper one to be idle *)
(* in.  Plans compose as the functions of main.c do: each function has a   *)
(* lemma that says from which states it has a plan and where it leads.     *)
(***************************************************************************)
EXTENDS MotorControl, PwmDriverProofs, SequenceTheorems, TLAPS

Kinds == {"wait", "loop", "run", "rev", "target", "ena", "dir", "pwm", "rate", "buzzer"}
Ops   == Kinds \X Nat \X Nat

\* A state of a plan.  set is the speed uart_ctrl has programmed into the
\* first timer since it opened the loop, or -1 if that is not known; calm is 1
\* once uart_ctrl has slept for a PID period since.
Records ==
    [cmd : AllCommands, loop : {0, 1}, rev : {0, 1}, target : {100, 200, 300},
     ena : [Motors -> {0, 1}], dir : [Motors -> {0, 1}], pwm : [Motors -> {0, 1}],
     set : Int, calm : {0, 1}]

BothTurn(x) == x.ena[1] = 1 /\ x.pwm[1] = 1 /\ x.ena[2] = 1 /\ x.pwm[2] = 1
States == {x \in Records : ~BothTurn(x)}

SameKeys(x, y)   == y.cmd = x.cmd /\ y.target = x.target
SameLoop(x, y)   == y.loop = x.loop /\ y.rev = x.rev
SameMotors(x, y) == y.ena = x.ena /\ y.dir = x.dir /\ y.pwm = x.pwm
SameNotes(x, y)  == y.set = x.set /\ y.calm = x.calm

\* The write has values of its type, and comes where it may: a speed while
\* the loop is open, the end of a soft start at the target speed and after
\* the PID thread has seen the loop open.
Permitted(x, op) ==
    /\ op[1] \in {"ena", "dir", "pwm"} => op[2] \in Motors /\ op[3] \in {0, 1}
    /\ op[1] \in {"loop", "rev", "buzzer"} => op[3] \in {0, 1}
    /\ op[1] = "target" => op[3] \in {100, 200, 300}
    /\ op[1] = "rate" => op[2] \in Motors /\ op[3] \in 0 .. MAX_RPM /\ x.loop = 0
    /\ op[1] = "loop" /\ op[3] = 1 /\ x.cmd = "u" =>
        x.calm = 1 /\ (found = Motors => x.set = TargetRpm(x.target))

Effect(x, op, y) ==
    /\ y.cmd = x.cmd
    /\ y.loop = IF op[1] = "loop" THEN op[3] ELSE x.loop
    /\ y.rev = IF op[1] = "rev" THEN op[3] ELSE x.rev
    /\ y.target = IF op[1] = "target" THEN op[3] ELSE x.target
    /\ y.ena = IF op[1] = "ena" THEN [x.ena EXCEPT ![op[2]] = op[3]] ELSE x.ena
    /\ y.dir = IF op[1] = "dir" THEN [x.dir EXCEPT ![op[2]] = op[3]] ELSE x.dir
    /\ y.pwm = IF op[1] = "pwm" THEN [x.pwm EXCEPT ![op[2]] = op[3]] ELSE x.pwm
    /\ y.set \in {-1, IF op[1] = "rate" /\ op[2] = 1 THEN op[3] ELSE x.set}
    /\ op[1] = "loop" => y.set = -1
    /\ y.calm = 1 =>
        /\ op[1] # "loop"
        /\ x.calm = 1 \/ (op[1] = "wait" /\ x.loop = 0 /\ op[3] >= PidPeriod)

Step(x, op, y) == Permitted(x, op) /\ Effect(x, op, y)

\* p is a plan for the writes s from state x to state z.
IsPlan(p, s, x, z) ==
    /\ p \in [1 .. Len(s) + 1 -> States]
    /\ p[1] = x /\ p[Len(s) + 1] = z
    /\ \A k \in 1 .. Len(s) : Step(p[k], s[k], p[k + 1])

Plan(s, x, z) == s \in Seq(Ops) /\ \E p : IsPlan(p, s, x, z)

----------------------------------------------------------------------------
(* Plans compose.                                                          *)

\* An empty sequence of writes changes nothing.
LEMMA NoPlan ==
    ASSUME NEW x \in States
    PROVE  Plan(<<>>, x, x)
<1> DEFINE p == [k \in 1 .. 1 |-> x]
<1>1. <<>> \in Seq(Ops) /\ Len(<<>>) = 0
  OBVIOUS
<1>2. IsPlan(p, <<>>, x, x)
  BY <1>1 DEF IsPlan
<1> QED BY <1>1, <1>2 DEF Plan

\* A single write.
LEMMA OnePlan ==
    ASSUME NEW x \in States, NEW y \in States, NEW op \in Ops, Step(x, op, y)
    PROVE  Plan(<<op>>, x, y)
<1> DEFINE s == <<op>>
           p == [k \in 1 .. 2 |-> IF k = 1 THEN x ELSE y]
<1>1. s \in Seq(Ops) /\ Len(s) = 1 /\ s[1] = op
  OBVIOUS
<1>2. p \in [1 .. 2 -> States] /\ p[1] = x /\ p[2] = y
  OBVIOUS
<1> HIDE DEF s, p
<1>3. IsPlan(p, s, x, y)
  BY <1>1, <1>2 DEF IsPlan
<1> QED BY <1>1, <1>3 DEF Plan, s

\* One sequence of writes after the other.
LEMMA ThenPlan ==
    ASSUME NEW s, NEW t, NEW x, NEW y, NEW z, Plan(s, x, y), Plan(t, y, z)
    PROVE  Plan(s \o t, x, z)
<1>1. PICK p : IsPlan(p, s, x, y)
  BY DEF Plan
<1>2. PICK q : IsPlan(q, t, y, z)
  BY DEF Plan
<1> DEFINE m == Len(s)
           n == Len(t)
           u == s \o t
           r == [k \in 1 .. m + n + 1 |-> IF k <= m THEN p[k] ELSE q[k - m]]
<1>3. s \in Seq(Ops) /\ t \in Seq(Ops) /\ m \in Nat /\ n \in Nat
  BY DEF Plan
<1>4. /\ u \in Seq(Ops) /\ Len(u) = m + n
      /\ \A k \in 1 .. m + n : u[k] = IF k <= m THEN s[k] ELSE t[k - m]
  BY <1>3
<1>5. p \in [1 .. m + 1 -> States] /\ p[m + 1] = q[1] /\ q \in [1 .. n + 1 -> States]
  BY <1>1, <1>2 DEF IsPlan
<1>6. \A k \in 1 .. m + n + 1 : r[k] = IF k <= m THEN p[k] ELSE q[k - m]
  OBVIOUS
<1>7. r \in [1 .. m + n + 1 -> States]
  <2> HIDE DEF m, n
  <2>1. ASSUME NEW k \in 1 .. m + n + 1
        PROVE  (IF k <= m THEN p[k] ELSE q[k - m]) \in States
    <3>1. k <= m => k \in 1 .. m + 1
      BY <1>3
    <3>2. ~(k <= m) => k - m \in 1 .. n + 1
      BY <1>3
    <3> QED BY <1>5, <3>1, <3>2
  <2> QED BY <2>1
<1> HIDE DEF r, u, m, n
<1>8. r[1] = x /\ r[m + n + 1] = z
  <2>1. 1 \in 1 .. m + n + 1 /\ m + n + 1 \in 1 .. m + n + 1 /\ ~(m + n + 1 <= m)
    BY <1>3
  <2>2. p[1] = x /\ q[n + 1] = z
    BY <1>1, <1>2 DEF IsPlan, m, n
  <2>3. m + n + 1 - m = n + 1 /\ (~(1 <= m) => m = 0)
    BY <1>3
  <2> QED BY <1>3, <1>5, <1>6, <2>1, <2>2, <2>3
<1>9. ASSUME NEW k \in 1 .. m + n
      PROVE  Step(r[k], u[k], r[k + 1])
  <2>1. CASE k <= m
    <3>1. Step(p[k], s[k], p[k + 1])
      BY <1>1, <1>3, <2>1 DEF IsPlan, m
    <3>2. r[k] = p[k] /\ u[k] = s[k]
      BY <1>3, <1>4, <1>6, <2>1
    <3>3. r[k + 1] = p[k + 1]
      <4>1. CASE k + 1 <= m
        BY <1>3, <1>6, <4>1
      <4>2. CASE k = m
        <5>1. k + 1 \in 1 .. m + n + 1 /\ ~(k + 1 <= m) /\ k + 1 - m = 1
          BY <1>3, <4>2
        <5> QED BY <1>5, <1>6, <4>2, <5>1
      <4> QED BY <1>3, <2>1, <4>1, <4>2
    <3> QED BY <3>1, <3>2, <3>3
  <2>2. CASE ~(k <= m)
    <3>1. k - m \in 1 .. n /\ k + 1 - m = (k - m) + 1 /\ ~(k + 1 <= m)
      BY <1>3, <2>2
    <3>2. Step(q[k - m], t[k - m], q[(k - m) + 1])
      BY <1>2, <3>1 DEF IsPlan, n
    <3>3. r[k] = q[k - m] /\ u[k] = t[k - m]
      BY <1>3, <1>4, <1>6, <2>2
    <3>4. r[k + 1] = q[(k - m) + 1]
      BY <1>3, <1>6, <3>1
    <3> QED BY <3>2, <3>3, <3>4
  <2> QED BY <2>1, <2>2
<1>10. IsPlan(r, u, x, z)
  BY <1>3, <1>4, <1>7, <1>8, <1>9 DEF IsPlan
<1> QED BY <1>4, <1>10 DEF Plan, u

\* The first write of a plan, and a plan for the rest.
LEMMA FirstPlan ==
    ASSUME NEW s, NEW x, NEW z, Plan(s, x, z), s # <<>>
    PROVE  /\ s \in Seq(Ops) /\ Head(s) \in Ops
           /\ \E y \in States : Step(x, Head(s), y) /\ Plan(Tail(s), y, z)
<1>1. PICK p : IsPlan(p, s, x, z)
  BY DEF Plan
<1> DEFINE n == Len(s)
           t == Tail(s)
           q == [k \in 1 .. n |-> p[k + 1]]
<1>2. s \in Seq(Ops) /\ n \in Nat \ {0} /\ Head(s) = s[1] /\ s[1] \in Ops
  BY DEF Plan
<1>3. t \in Seq(Ops) /\ Len(t) = n - 1 /\ \A k \in 1 .. n - 1 : t[k] = s[k + 1]
  BY <1>2
<1>4. p \in [1 .. n + 1 -> States] /\ p[1] = x /\ p[n + 1] = z
  BY <1>1 DEF IsPlan
<1>5. \A k \in 1 .. n : q[k] = p[k + 1] /\ k + 1 \in 1 .. n + 1
  BY <1>2
<1>6. q \in [1 .. n -> States]
  BY <1>2, <1>4
<1>7. \A k \in 1 .. n : Step(p[k], s[k], p[k + 1])
  BY <1>1 DEF IsPlan
<1> HIDE DEF n, t, q
<1>8. q[1] = p[2] /\ p[2] \in States /\ Step(x, s[1], p[2])
  BY <1>2, <1>4, <1>5, <1>7
<1>9. IsPlan(q, t, p[2], z)
  <2>1. (n - 1) + 1 = n /\ q[n] = z
    BY <1>2, <1>4, <1>5
  <2>2. ASSUME NEW k \in 1 .. n - 1
        PROVE  Step(q[k], t[k], q[k + 1])
    <3>1. k \in 1 .. n /\ k + 1 \in 1 .. n
      BY <1>2
    <3> QED BY <1>3, <1>5, <1>7, <3>1
  <2> QED BY <1>3, <1>6, <1>8, <2>1, <2>2 DEF IsPlan
<1> QED BY <1>2, <1>3, <1>8, <1>9 DEF Plan, t

\* A plan without writes ends where it begins.
LEMMA EmptyPlan ==
    ASSUME NEW x, NEW z, Plan(<<>>, x, z)
    PROVE  x = z
BY DEF Plan, IsPlan

----------------------------------------------------------------------------
(* Single writes.                                                          *)

\* The types of the components of a state.
LEMMA StateFacts ==
    ASSUME NEW x \in States
    PROVE  /\ x.cmd \in AllCommands /\ x.target \in {100, 200, 300}
           /\ x.loop \in {0, 1} /\ x.rev \in {0, 1}
           /\ x.ena \in [Motors -> {0, 1}] /\ x.dir \in [Motors -> {0, 1}]
           /\ x.pwm \in [Motors -> {0, 1}]
           /\ x.set \in Int /\ x.calm \in {0, 1}
           /\ ~(x.ena[1] = 1 /\ x.pwm[1] = 1 /\ x.ena[2] = 1 /\ x.pwm[2] = 1)
BY DEF States, Records, BothTurn

\* f with a new value for motor m.
Put(f, m, v) == [f EXCEPT ![m] = v]

\* The state with given components.
State(c, l, r, g, e, d, p, s, k) ==
    [cmd |-> c, loop |-> l, rev |-> r, target |-> g, ena |-> e, dir |-> d, pwm |-> p,
     set |-> s, calm |-> k]

\* A delay need not change anything ...
LEMMA WaitPlan ==
    ASSUME NEW x \in States, NEW d \in Nat
    PROVE  Plan(Wait(d), x, x)
<1>1. <<"wait", 0, d>> \in Ops
  BY DEF Ops, Kinds
<1>2. Step(x, <<"wait", 0, d>>, x)
  BY DEF Step, Permitted, Effect
<1> QED BY <1>1, <1>2, OnePlan DEF Wait

\* ... but a long one with the loop open lets the PID thread see it.
LEMMA CalmPlan ==
    ASSUME NEW x \in States, NEW d \in Nat, x.loop = 0, d >= PidPeriod
    PROVE  \E y \in States :
               /\ Plan(Wait(d), x, y) /\ SameKeys(x, y) /\ SameLoop(x, y) /\ SameMotors(x, y)
               /\ y.set = x.set /\ y.calm = 1
<1> DEFINE y == State(x.cmd, x.loop, x.rev, x.target, x.ena, x.dir, x.pwm, x.set, 1)
<1>1. /\ y \in States
      /\ y.cmd = x.cmd /\ y.loop = x.loop /\ y.rev = x.rev /\ y.target = x.target
      /\ y.ena = x.ena /\ y.dir = x.dir /\ y.pwm = x.pwm /\ y.set = x.set /\ y.calm = 1
  BY StateFacts DEF State, States, Records, BothTurn
<1> HIDE DEF y
<1>2. <<"wait", 0, d>> \in Ops
  BY DEF Ops, Kinds
<1>3. Step(x, <<"wait", 0, d>>, y)
  BY <1>1 DEF Step, Permitted, Effect
<1> QED BY <1>1, <1>2, <1>3, OnePlan DEF Wait, SameKeys, SameLoop, SameMotors

\* Opening or closing the loop; only 'u' has conditions to meet.
LEMMA LoopPlan ==
    ASSUME NEW x \in States, NEW v \in {0, 1},
           v = 1 /\ x.cmd = "u" =>
               x.calm = 1 /\ (found = Motors => x.set = TargetRpm(x.target))
    PROVE  \E y \in States :
               /\ Plan(Loop(v), x, y) /\ SameKeys(x, y) /\ SameMotors(x, y)
               /\ y.loop = v /\ y.rev = x.rev /\ y.set = -1 /\ y.calm = 0
<1> DEFINE y == State(x.cmd, v, x.rev, x.target, x.ena, x.dir, x.pwm, -1, 0)
<1>1. /\ y \in States
      /\ y.cmd = x.cmd /\ y.loop = v /\ y.rev = x.rev /\ y.target = x.target
      /\ y.ena = x.ena /\ y.dir = x.dir /\ y.pwm = x.pwm /\ y.set = -1 /\ y.calm = 0
  BY StateFacts DEF State, States, Records, BothTurn
<1> HIDE DEF y
<1>2. <<"loop", 0, v>> \in Ops
  BY DEF Ops, Kinds
<1>3. Step(x, <<"loop", 0, v>>, y)
  BY <1>1 DEF Step, Permitted, Effect
<1> QED BY <1>1, <1>2, <1>3, OnePlan DEF Loop, SameKeys, SameMotors

\* A write of g_direction_reverse.
LEMMA RevPlan ==
    ASSUME NEW x \in States, NEW v \in {0, 1}
    PROVE  \E y \in States :
               /\ Plan(Rev(v), x, y) /\ SameKeys(x, y) /\ SameMotors(x, y) /\ SameNotes(x, y)
               /\ y.loop = x.loop /\ y.rev = v
<1> DEFINE y == State(x.cmd, x.loop, v, x.target, x.ena, x.dir, x.pwm, x.set, x.calm)
<1>1. /\ y \in States
      /\ y.cmd = x.cmd /\ y.loop = x.loop /\ y.rev = v /\ y.target = x.target
      /\ y.ena = x.ena /\ y.dir = x.dir /\ y.pwm = x.pwm /\ y.set = x.set /\ y.calm = x.calm
  BY StateFacts DEF State, States, Records, BothTurn
<1> HIDE DEF y
<1>2. <<"rev", 0, v>> \in Ops
  BY DEF Ops, Kinds
<1>3. Step(x, <<"rev", 0, v>>, y)
  BY <1>1 DEF Step, Permitted, Effect
<1> QED BY <1>1, <1>2, <1>3, OnePlan DEF Rev, SameKeys, SameMotors, SameNotes

Speeds == {100, 200, 300}
\* A write of target_speed_mmps.
LEMMA TargetPlan ==
    ASSUME NEW x \in States, NEW v \in Speeds
    PROVE  \E y \in States :
               Plan(Target(v), x, y) /\ y.cmd = x.cmd /\ SameLoop(x, y) /\ SameMotors(x, y)
<1> DEFINE y == State(x.cmd, x.loop, x.rev, v, x.ena, x.dir, x.pwm, x.set, x.calm)
<1>1. /\ y \in States
      /\ y.cmd = x.cmd /\ y.loop = x.loop /\ y.rev = x.rev /\ y.target = v
      /\ y.ena = x.ena /\ y.dir = x.dir /\ y.pwm = x.pwm /\ y.set = x.set /\ y.calm = x.calm
  BY StateFacts DEF Speeds, State, States, Records, BothTurn
<1> HIDE DEF y
<1>2. <<"target", 0, v>> \in Ops
  BY DEF Ops, Kinds, Speeds
<1>3. Step(x, <<"target", 0, v>>, y)
  BY <1>1 DEF Step, Permitted, Effect, Speeds
<1> QED BY <1>1, <1>2, <1>3, OnePlan DEF Target, SameLoop, SameMotors

\* g_motor_run and the buzzer are not part of a plan's states.
LEMMA RunPlan ==
    ASSUME NEW x \in States, NEW v \in {0, 1}
    PROVE  Plan(Run(v), x, x) /\ Plan(Buzzer(v), x, x)
<1>1. <<"run", 0, v>> \in Ops /\ <<"buzzer", 0, v>> \in Ops
  BY DEF Ops, Kinds
<1>2. Step(x, <<"run", 0, v>>, x) /\ Step(x, <<"buzzer", 0, v>>, x)
  BY DEF Step, Permitted, Effect
<1> QED BY <1>1, <1>2, OnePlan DEF Run, Buzzer

\* A driver is enabled only while both outputs are off.
LEMMA EnaPlan ==
    ASSUME NEW x \in States, NEW m \in Motors, NEW v \in {0, 1},
           v = 1 => x.pwm[1] = 0 /\ x.pwm[2] = 0
    PROVE  \E y \in States :
               /\ Plan(Ena(m, v), x, y)
               /\ SameKeys(x, y) /\ SameLoop(x, y) /\ SameNotes(x, y)
               /\ y.ena = Put(x.ena, m, v) /\ y.dir = x.dir /\ y.pwm = x.pwm
<1> DEFINE e == [x.ena EXCEPT ![m] = v]
<1>1. e \in [Motors -> {0, 1}] /\ ~(e[1] = 1 /\ x.pwm[1] = 1 /\ e[2] = 1 /\ x.pwm[2] = 1)
  BY StateFacts DEF Motors
<1> HIDE DEF e
<1> DEFINE y == State(x.cmd, x.loop, x.rev, x.target, e, x.dir, x.pwm, x.set, x.calm)
<1>2. /\ y \in States
      /\ y.cmd = x.cmd /\ y.loop = x.loop /\ y.rev = x.rev /\ y.target = x.target
      /\ y.ena = e /\ y.dir = x.dir /\ y.pwm = x.pwm /\ y.set = x.set /\ y.calm = x.calm
  BY <1>1, StateFacts DEF State, States, Records, BothTurn
<1> HIDE DEF y
<1>3. <<"ena", m, v>> \in Ops
  BY DEF Ops, Kinds, Motors
<1>4. Step(x, <<"ena", m, v>>, y)
  BY <1>2 DEF Step, Permitted, Effect, e
<1> QED BY <1>2, <1>3, <1>4, OnePlan DEF Put, Ena, SameKeys, SameLoop, SameNotes, e

\* A direction pin turns nothing on.
LEMMA DirPlan ==
    ASSUME NEW x \in States, NEW m \in Motors, NEW v \in {0, 1}
    PROVE  \E y \in States :
               /\ Plan(Dir(m, v), x, y)
               /\ SameKeys(x, y) /\ SameLoop(x, y) /\ SameNotes(x, y)
               /\ y.ena = x.ena /\ y.dir = Put(x.dir, m, v) /\ y.pwm = x.pwm
<1> DEFINE d == [x.dir EXCEPT ![m] = v]
<1>1. d \in [Motors -> {0, 1}]
  BY StateFacts DEF Motors
<1> HIDE DEF d
<1> DEFINE y == State(x.cmd, x.loop, x.rev, x.target, x.ena, d, x.pwm, x.set, x.calm)
<1>2. /\ y \in States
      /\ y.cmd = x.cmd /\ y.loop = x.loop /\ y.rev = x.rev /\ y.target = x.target
      /\ y.ena = x.ena /\ y.dir = d /\ y.pwm = x.pwm /\ y.set = x.set /\ y.calm = x.calm
  BY <1>1, StateFacts DEF State, States, Records, BothTurn
<1> HIDE DEF y
<1>3. <<"dir", m, v>> \in Ops
  BY DEF Ops, Kinds, Motors
<1>4. Step(x, <<"dir", m, v>>, y)
  BY <1>2 DEF Step, Permitted, Effect, d
<1> QED BY <1>2, <1>3, <1>4, OnePlan DEF Put, Dir, SameKeys, SameLoop, SameNotes, d

\* An output is switched on only while some driver is disabled.
LEMMA PwmPlan ==
    ASSUME NEW x \in States, NEW m \in Motors, NEW v \in {0, 1},
           v = 1 => x.ena[1] = 0 \/ x.ena[2] = 0
    PROVE  \E y \in States :
               /\ Plan(Pwm(m, v), x, y)
               /\ SameKeys(x, y) /\ SameLoop(x, y) /\ SameNotes(x, y)
               /\ y.ena = x.ena /\ y.dir = x.dir /\ y.pwm = Put(x.pwm, m, v)
<1> DEFINE p == [x.pwm EXCEPT ![m] = v]
<1>1. p \in [Motors -> {0, 1}] /\ ~(x.ena[1] = 1 /\ p[1] = 1 /\ x.ena[2] = 1 /\ p[2] = 1)
  BY StateFacts DEF Motors
<1> HIDE DEF p
<1> DEFINE y == State(x.cmd, x.loop, x.rev, x.target, x.ena, x.dir, p, x.set, x.calm)
<1>2. /\ y \in States
      /\ y.cmd = x.cmd /\ y.loop = x.loop /\ y.rev = x.rev /\ y.target = x.target
      /\ y.ena = x.ena /\ y.dir = x.dir /\ y.pwm = p /\ y.set = x.set /\ y.calm = x.calm
  BY <1>1, StateFacts DEF State, States, Records, BothTurn
<1> HIDE DEF y
<1>3. <<"pwm", m, v>> \in Ops
  BY DEF Ops, Kinds, Motors
<1>4. Step(x, <<"pwm", m, v>>, y)
  BY <1>2 DEF Step, Permitted, Effect, p
<1> QED BY <1>2, <1>3, <1>4, OnePlan DEF Put, Pwm, SameKeys, SameLoop, SameNotes, p

\* A speed is programmed only while the loop is open; note is what the plan
\* remembers of it.
LEMMA RatePlan ==
    ASSUME NEW x \in States, NEW m \in Motors, NEW v \in 0 .. MAX_RPM, x.loop = 0,
           NEW note \in {-1, IF m = 1 THEN v ELSE x.set}
    PROVE  \E y \in States :
               /\ Plan(Rate(m, v), x, y)
               /\ SameKeys(x, y) /\ SameLoop(x, y) /\ SameMotors(x, y)
               /\ y.set = note /\ y.calm = x.calm
<1>1. note \in Int /\ v \in Nat
  BY StateFacts DEF MAX_RPM
<1> DEFINE y == State(x.cmd, x.loop, x.rev, x.target, x.ena, x.dir, x.pwm, note, x.calm)
<1>2. /\ y \in States
      /\ y.cmd = x.cmd /\ y.loop = x.loop /\ y.rev = x.rev /\ y.target = x.target
      /\ y.ena = x.ena /\ y.dir = x.dir /\ y.pwm = x.pwm /\ y.set = note /\ y.calm = x.calm
  BY <1>1, StateFacts DEF State, States, Records, BothTurn
<1> HIDE DEF y
<1>3. <<"rate", m, v>> \in Ops
  BY <1>1 DEF Ops, Kinds, Motors
<1>4. Step(x, <<"rate", m, v>>, y)
  BY <1>2 DEF Step, Permitted, Effect
<1> QED BY <1>2, <1>3, <1>4, OnePlan DEF Rate, SameKeys, SameLoop, SameMotors

----------------------------------------------------------------------------
(* The functions of main.c.                                                *)

\* The two motors.
LEMMA MotorsAre == 1 \in Motors /\ 2 \in Motors
BY DEF Motors

\* motor_continuous_stop switches both outputs off, in every state.
LEMMA StopPlan ==
    ASSUME NEW x \in States
    PROVE  \E y \in States :
               /\ Plan(motor_continuous_stop, x, y)
               /\ SameKeys(x, y) /\ SameLoop(x, y) /\ SameNotes(x, y)
               /\ y.ena = x.ena /\ y.dir = x.dir /\ y.pwm[1] = 0 /\ y.pwm[2] = 0
<1>1. Plan(Run(0), x, x)
  BY RunPlan
<1>2. PICK u \in States :
          /\ Plan(Pwm(1, 0), x, u) /\ SameKeys(x, u) /\ SameLoop(x, u) /\ SameNotes(x, u)
          /\ u.ena = x.ena /\ u.dir = x.dir /\ u.pwm = Put(x.pwm, 1, 0)
  BY MotorsAre, PwmPlan
<1>3. PICK y \in States :
          /\ Plan(Pwm(2, 0), u, y) /\ SameKeys(u, y) /\ SameLoop(u, y) /\ SameNotes(u, y)
          /\ y.ena = u.ena /\ y.dir = u.dir /\ y.pwm = Put(u.pwm, 2, 0)
  BY MotorsAre, PwmPlan
<1>4. y.pwm[1] = 0 /\ y.pwm[2] = 0
  BY <1>2, <1>3, StateFacts DEF Motors, Put
<1>5. Plan(Run(0) \o Pwm(1, 0), x, u)
  BY <1>1, <1>2, ThenPlan
<1>6. Plan(motor_continuous_stop, x, y)
  BY <1>3, <1>5, ThenPlan DEF motor_continuous_stop
<1> QED BY <1>2, <1>3, <1>4, <1>6 DEF SameKeys, SameLoop, SameNotes

\* if (closed_loop_enable) closed_loop_enable = RT_FALSE
LEMMA OpenPlan ==
    ASSUME NEW x \in States, closed_loop_enable <=> x.loop = 1, x.set = -1, x.calm = 0
    PROVE  \E y \in States :
               /\ Plan(OpenLoop, x, y) /\ SameKeys(x, y) /\ SameMotors(x, y) /\ SameNotes(x, y)
               /\ y.loop = 0 /\ y.rev = x.rev
<1>1. CASE closed_loop_enable
  <2>1. PICK y \in States :
            /\ Plan(Loop(0), x, y) /\ SameKeys(x, y) /\ SameMotors(x, y)
            /\ y.loop = 0 /\ y.rev = x.rev /\ y.set = -1 /\ y.calm = 0
    BY LoopPlan
  <2> QED BY <1>1, <2>1 DEF OpenLoop, SameNotes
<1>2. CASE ~closed_loop_enable
  <2>1. Plan(OpenLoop, x, x) /\ x.loop = 0
    BY <1>2, NoPlan, StateFacts DEF OpenLoop
  <2> QED BY <2>1 DEF SameKeys, SameMotors, SameNotes
<1> QED BY <1>1, <1>2

\* motor_set_direction enables one driver and disables the other; between the
\* two both may be enabled, so the outputs have to be off.
LEMMA DirectionPlan ==
    ASSUME NEW x \in States, NEW reverse \in BOOLEAN, x.pwm[1] = 0, x.pwm[2] = 0
    PROVE  \E y \in States :
               /\ Plan(motor_set_direction(reverse), x, y)
               /\ SameKeys(x, y) /\ SameLoop(x, y) /\ SameNotes(x, y) /\ y.pwm = x.pwm
               /\ reverse => y.dir[2] = 1 /\ y.ena[1] = 0 /\ y.ena[2] = 1
               /\ ~reverse => y.dir[1] = 0 /\ y.ena[1] = 1 /\ y.ena[2] = 0
<1> DEFINE v == IF reverse THEN 1 ELSE 0
           w == IF reverse THEN 0 ELSE 1
<1>1. v \in {0, 1} /\ w \in {0, 1}
  OBVIOUS
<1>2. motor_set_direction(reverse) = Dir(1, v) \o Dir(2, v) \o Ena(1, w) \o Ena(2, v)
  BY DEF motor_set_direction
<1>3. reverse => v = 1 /\ w = 0
  OBVIOUS
<1>4. ~reverse => v = 0 /\ w = 1
  OBVIOUS
<1> HIDE DEF v, w
<1>5. PICK x1 \in States :
          /\ Plan(Dir(1, v), x, x1) /\ SameKeys(x, x1) /\ SameLoop(x, x1) /\ SameNotes(x, x1)
          /\ x1.ena = x.ena /\ x1.dir = Put(x.dir, 1, v) /\ x1.pwm = x.pwm
  BY <1>1, MotorsAre, DirPlan
<1>6. PICK x2 \in States :
          /\ Plan(Dir(2, v), x1, x2) /\ SameKeys(x1, x2) /\ SameLoop(x1, x2) /\ SameNotes(x1, x2)
          /\ x2.ena = x1.ena /\ x2.dir = Put(x1.dir, 2, v) /\ x2.pwm = x1.pwm
  BY <1>1, MotorsAre, DirPlan
<1>7. x2.pwm[1] = 0 /\ x2.pwm[2] = 0
  BY <1>5, <1>6
<1>8. PICK x3 \in States :
          /\ Plan(Ena(1, w), x2, x3) /\ SameKeys(x2, x3) /\ SameLoop(x2, x3) /\ SameNotes(x2, x3)
          /\ x3.ena = Put(x2.ena, 1, w) /\ x3.dir = x2.dir /\ x3.pwm = x2.pwm
  BY <1>1, <1>7, MotorsAre, EnaPlan
<1>9. x3.pwm[1] = 0 /\ x3.pwm[2] = 0
  BY <1>7, <1>8
<1>10. PICK x4 \in States :
          /\ Plan(Ena(2, v), x3, x4) /\ SameKeys(x3, x4) /\ SameLoop(x3, x4) /\ SameNotes(x3, x4)
          /\ x4.ena = Put(x3.ena, 2, v) /\ x4.dir = x3.dir /\ x4.pwm = x3.pwm
  BY <1>1, <1>9, MotorsAre, EnaPlan
<1>11. x4.dir[1] = v /\ x4.dir[2] = v /\ x4.ena[1] = w /\ x4.ena[2] = v /\ x4.pwm = x.pwm
  BY <1>5, <1>6, <1>8, <1>10, StateFacts DEF Motors, Put
<1>12. SameKeys(x, x4) /\ SameLoop(x, x4) /\ SameNotes(x, x4)
  BY <1>5, <1>6, <1>8, <1>10 DEF SameKeys, SameLoop, SameNotes
<1>13. Plan(Dir(1, v) \o Dir(2, v), x, x2)
  BY <1>5, <1>6, ThenPlan
<1>14. Plan(Dir(1, v) \o Dir(2, v) \o Ena(1, w), x, x3)
  BY <1>8, <1>13, ThenPlan
<1>15. Plan(motor_set_direction(reverse), x, x4)
  BY <1>2, <1>10, <1>14, ThenPlan
<1> QED BY <1>3, <1>4, <1>11, <1>12, <1>15

\* motor_set_speed_rpm_both programs both timers or, if one is missing, none.
LEMMA SpeedPlan ==
    ASSUME NEW x \in States, NEW rpm \in 0 .. MAX_RPM, x.loop = 0,
           NEW note \in {-1, rpm}, found # Motors => note = x.set
    PROVE  \E y \in States :
               /\ Plan(motor_set_speed_rpm_both(rpm), x, y)
               /\ SameKeys(x, y) /\ SameLoop(x, y) /\ SameMotors(x, y)
               /\ y.set = note /\ y.calm = x.calm
<1>1. CASE found = Motors
  <2>1. PICK u \in States :
            /\ Plan(Rate(1, rpm), x, u) /\ SameKeys(x, u) /\ SameLoop(x, u) /\ SameMotors(x, u)
            /\ u.set = note /\ u.calm = x.calm
    BY MotorsAre, RatePlan
  <2>2. u.loop = 0 /\ note \in {-1, IF 2 = 1 THEN rpm ELSE u.set}
    BY <2>1 DEF SameLoop
  <2>3. PICK y \in States :
            /\ Plan(Rate(2, rpm), u, y) /\ SameKeys(u, y) /\ SameLoop(u, y) /\ SameMotors(u, y)
            /\ y.set = note /\ y.calm = u.calm
    BY <2>2, MotorsAre, RatePlan
  <2>4. Plan(motor_set_speed_rpm_both(rpm), x, y)
    BY <1>1, <2>1, <2>3, ThenPlan DEF motor_set_speed_rpm_both
  <2> QED BY <2>1, <2>3, <2>4 DEF SameKeys, SameLoop, SameMotors
<1>2. CASE found # Motors
  <2>1. Plan(motor_set_speed_rpm_both(rpm), x, x)
    BY <1>2, NoPlan DEF motor_set_speed_rpm_both
  <2> QED BY <1>2, <2>1 DEF SameKeys, SameLoop, SameMotors
<1> QED BY <1>1, <1>2

\* The first half of motor_accel, forwards.
LEMMA StartPlan ==
    ASSUME NEW x \in States, NEW rpm \in 0 .. MAX_RPM, x.loop = 0, x.pwm[1] = 0, x.pwm[2] = 0,
           NEW note \in {-1, rpm}, found # Motors => note = x.set
    PROVE  \E y \in States :
               /\ Plan(StartAt(rpm, FALSE), x, y) /\ SameKeys(x, y) /\ SameLoop(x, y)
               /\ y.set = note /\ y.calm = x.calm
               /\ y.dir[1] = 0 /\ y.ena[1] = 1 /\ y.ena[2] = 0 /\ y.pwm[1] = 1
<1>1. PICK x1 \in States :
          /\ Plan(motor_set_speed_rpm_both(rpm), x, x1)
          /\ SameKeys(x, x1) /\ SameLoop(x, x1) /\ SameMotors(x, x1)
          /\ x1.set = note /\ x1.calm = x.calm
  BY SpeedPlan
<1>2. Plan(Run(1), x1, x1)
  BY RunPlan
<1>3. x1.pwm[1] = 0 /\ x1.pwm[2] = 0
  BY <1>1 DEF SameMotors
<1>4. PICK x2 \in States :
          /\ Plan(motor_set_direction(FALSE), x1, x2)
          /\ SameKeys(x1, x2) /\ SameLoop(x1, x2) /\ SameNotes(x1, x2) /\ x2.pwm = x1.pwm
          /\ x2.dir[1] = 0 /\ x2.ena[1] = 1 /\ x2.ena[2] = 0
  BY <1>3, DirectionPlan
<1>5. PICK x3 \in States :
          /\ Plan(Pwm(1, 1), x2, x3) /\ SameKeys(x2, x3) /\ SameLoop(x2, x3) /\ SameNotes(x2, x3)
          /\ x3.ena = x2.ena /\ x3.dir = x2.dir /\ x3.pwm = Put(x2.pwm, 1, 1)
  BY <1>4, MotorsAre, PwmPlan
<1>6. x3.ena[2] = 0
  BY <1>4, <1>5
<1>7. PICK x4 \in States :
          /\ Plan(Pwm(2, 1), x3, x4) /\ SameKeys(x3, x4) /\ SameLoop(x3, x4) /\ SameNotes(x3, x4)
          /\ x4.ena = x3.ena /\ x4.dir = x3.dir /\ x4.pwm = Put(x3.pwm, 2, 1)
  BY <1>6, MotorsAre, PwmPlan
<1>8. x4.pwm[1] = 1
  BY <1>5, <1>7, StateFacts DEF Motors, Put
<1> DEFINE s1 == motor_set_speed_rpm_both(rpm) \o Run(1)
           s2 == s1 \o motor_set_direction(FALSE)
           s3 == s2 \o Pwm(1, 1)
<1>9. Plan(s1, x, x1)
  BY <1>1, <1>2, ThenPlan
<1>10. Plan(s2, x, x2)
  BY <1>4, <1>9, ThenPlan
<1>11. Plan(s3, x, x3)
  BY <1>5, <1>10, ThenPlan
<1>12. StartAt(rpm, FALSE) = s3 \o Pwm(2, 1)
  BY DEF StartAt
<1> HIDE DEF s1, s2, s3
<1>13. Plan(StartAt(rpm, FALSE), x, x4)
  BY <1>7, <1>11, <1>12, ThenPlan
<1>14. x4.dir[1] = 0 /\ x4.ena[1] = 1 /\ x4.ena[2] = 0
  BY <1>4, <1>5, <1>7
<1>15. SameKeys(x, x4) /\ SameLoop(x, x4) /\ x4.set = note /\ x4.calm = x.calm
  BY <1>1, <1>4, <1>5, <1>7 DEF SameKeys, SameLoop, SameNotes
<1> QED BY <1>8, <1>13, <1>14, <1>15

\* Writes that leave a state as it is.
LEMMA SteadyPlan ==
    ASSUME NEW x \in States, NEW s \in Seq(Ops), \A k \in 1 .. Len(s) : Step(x, s[k], x)
    PROVE  Plan(s, x, x)
<1> DEFINE p == [k \in 1 .. Len(s) + 1 |-> x]
<1>1. Len(s) \in Nat /\ 1 \in 1 .. Len(s) + 1 /\ Len(s) + 1 \in 1 .. Len(s) + 1
  OBVIOUS
<1>2. p \in [1 .. Len(s) + 1 -> States] /\ \A k \in 1 .. Len(s) + 1 : p[k] = x
  OBVIOUS
<1> HIDE DEF p
<1>3. IsPlan(p, s, x, x)
  <2>1. \A k \in 1 .. Len(s) : k \in 1 .. Len(s) + 1 /\ k + 1 \in 1 .. Len(s) + 1
    BY <1>1
  <2> QED BY <1>1, <1>2, <2>1 DEF IsPlan
<1> QED BY <1>3 DEF Plan

\* The loop of motor_accel.
LEMMA RampPlan ==
    ASSUME NEW x \in States, x.loop = 0, x.set = -1,
           NEW start \in Nat, NEW step \in Nat, NEW n \in Nat, start + n * step <= MAX_RPM
    PROVE  Plan(Ramp(start, step, n), x, x)
<1> DEFINE s == Ramp(start, step, n)
<1>1. RampDelay \in Nat /\ MAX_RPM \in Nat
  BY MotorAssumption DEF MAX_RPM
<1>2. <<"wait", 0, RampDelay>> \in Ops /\ Step(x, <<"wait", 0, RampDelay>>, x)
  BY <1>1 DEF Ops, Kinds, Step, Permitted, Effect
<1>3. ASSUME NEW m \in Motors, NEW v \in 0 .. MAX_RPM
      PROVE  <<"rate", m, v>> \in Ops /\ Step(x, <<"rate", m, v>>, x)
  <2>1. <<"rate", m, v>> \in Ops
    BY <1>1 DEF Ops, Kinds, Motors
  <2>2. Permitted(x, <<"rate", m, v>>) /\ Effect(x, <<"rate", m, v>>, x)
    BY DEF Permitted, Effect
  <2> QED BY <2>1, <2>2 DEF Step
<1>4. CASE found = Motors
  <2> DEFINE w(k) == <<"rate", k % 3, start + (k \div 3 + 1) * step>>
             f(k) == IF k % 3 = 0 THEN <<"wait", 0, RampDelay>> ELSE w(k)
  <2>1. s = [k \in 1 .. 3 * n |-> f(k)]
    BY <1>4 DEF Ramp
  <2>2. ASSUME NEW k \in 1 .. 3 * n
        PROVE  f(k) \in Ops /\ Step(x, f(k), x)
    <3>1. CASE k % 3 = 0
      BY <1>2, <3>1
    <3>2. CASE k % 3 # 0
      <4>1. k % 3 \in Motors /\ k \div 3 + 1 \in Nat /\ k \div 3 + 1 <= n
        BY <3>2 DEF Motors
      <4>2. (k \div 3 + 1) * step <= n * step /\ (k \div 3 + 1) * step \in Nat
        BY <4>1, Monotone
      <4> DEFINE a == (k \div 3 + 1) * step
                 b == n * step
      <4>3. start + a \in 0 .. MAX_RPM
        <5>1. a \in Nat /\ b \in Nat /\ a <= b /\ start + b <= MAX_RPM
          BY <4>2
        <5> HIDE DEF a, b
        <5> QED BY <1>1, <5>1
      <4> HIDE DEF a, b
      <4> QED BY <1>3, <3>2, <4>1, <4>3 DEF a
    <3> QED BY <3>1, <3>2
  <2> HIDE DEF f, s
  <2>3. s \in [1 .. 3 * n -> Ops] /\ 3 * n \in Nat
    BY <2>1, <2>2
  <2>4. s \in Seq(Ops) /\ Len(s) = 3 * n
    BY <2>3
  <2>5. \A k \in 1 .. Len(s) : Step(x, s[k], x)
    BY <2>1, <2>2, <2>4
  <2> QED BY <2>4, <2>5, SteadyPlan DEF s
<1>5. CASE found # Motors
  <2>1. s = [k \in 1 .. n |-> <<"wait", 0, RampDelay>>]
    BY <1>5 DEF Ramp
  <2> HIDE DEF s
  <2>2. s \in [1 .. n -> Ops]
    BY <1>2, <2>1
  <2>3. s \in Seq(Ops) /\ Len(s) = n
    BY <2>2
  <2>4. \A k \in 1 .. Len(s) : Step(x, s[k], x)
    BY <1>2, <2>1, <2>3
  <2> QED BY <2>3, <2>4, SteadyPlan DEF s
<1> QED BY <1>4, <1>5

Rpms == 0 .. MAX_RPM

\* The first motor is driven, and at speed target if both timers are there.
Driven(y, target) ==
    /\ found = Motors => y.set = target
    /\ y.dir[1] = 0 /\ y.ena[1] = 1 /\ y.ena[2] = 0 /\ y.pwm[1] = 1

\* motor_accel ends with the first motor driven at the target speed.
LEMMA AccelPlan ==
    ASSUME NEW x \in States, x.loop = 0, x.pwm[1] = 0, x.pwm[2] = 0, x.set = -1,
           NEW start \in Rpms, NEW target \in Rpms, NEW step \in Nat \ {0}
    PROVE  \E y \in States :
               /\ Plan(motor_accel(start, target, step, FALSE), x, y)
               /\ SameKeys(x, y) /\ SameLoop(x, y) /\ y.calm = x.calm /\ Driven(y, target)
<1> DEFINE note == IF found = Motors THEN target ELSE -1
<1>1. note \in {-1, target} /\ (found # Motors => note = -1) /\ (found = Motors => note = target)
  OBVIOUS
<1> HIDE DEF note
<1>2. /\ MAX_RPM \in Nat /\ RampDelay \in Nat
      /\ start \in 0 .. MAX_RPM /\ target \in 0 .. MAX_RPM
  BY MotorAssumption DEF MAX_RPM, Rpms
<1>3. CASE start >= target
  <2>1. motor_accel(start, target, step, FALSE) = StartAt(target, FALSE)
    BY <1>3 DEF motor_accel
  <2>2. PICK y \in States :
            /\ Plan(StartAt(target, FALSE), x, y) /\ SameKeys(x, y) /\ SameLoop(x, y)
            /\ y.set = note /\ y.calm = x.calm
            /\ y.dir[1] = 0 /\ y.ena[1] = 1 /\ y.ena[2] = 0 /\ y.pwm[1] = 1
    <3>1. note \in {-1, target} /\ (found # Motors => note = x.set)
      BY <1>1
    <3>2. target \in 0 .. MAX_RPM
      BY <1>2
    <3> QED BY <3>1, <3>2, StartPlan
  <2> QED BY <1>1, <2>1, <2>2 DEF Driven
<1>4. CASE ~(start >= target)
  <2> DEFINE n  == (target - start) \div step
             s1 == StartAt(start, FALSE) \o Wait(RampDelay)
             s2 == s1 \o Ramp(start, step, n)
  <2>1. motor_accel(start, target, step, FALSE) = s2 \o motor_set_speed_rpm_both(target)
    BY <1>4 DEF motor_accel
  <2>2. n \in Nat /\ start + n * step <= MAX_RPM
    <3> DEFINE d == target - start
               b == n * step
    <3>1. d \in Nat /\ start \in Nat /\ start + d <= MAX_RPM
      BY <1>2, <1>4
    <3>2. n \in Nat /\ b <= d
      BY <3>1, Quotient
    <3>3. b \in Int
      BY <3>2
    <3> HIDE DEF b, d, n
    <3>4. start + b <= MAX_RPM
      BY <1>2, <3>1, <3>2, <3>3
    <3> QED BY <3>2, <3>4 DEF b
  <2> HIDE DEF n
  <2>3. PICK x1 \in States :
            /\ Plan(StartAt(start, FALSE), x, x1) /\ SameKeys(x, x1) /\ SameLoop(x, x1)
            /\ x1.set = -1 /\ x1.calm = x.calm
            /\ x1.dir[1] = 0 /\ x1.ena[1] = 1 /\ x1.ena[2] = 0 /\ x1.pwm[1] = 1
    BY <1>2, StartPlan
  <2>4. Plan(Wait(RampDelay), x1, x1)
    BY <1>2, WaitPlan
  <2>5. x1.loop = 0 /\ start \in Nat
    BY <1>2, <2>3 DEF SameLoop
  <2>6. Plan(Ramp(start, step, n), x1, x1)
    BY <2>2, <2>3, <2>5, RampPlan
  <2>7. PICK x2 \in States :
            /\ Plan(motor_set_speed_rpm_both(target), x1, x2)
            /\ SameKeys(x1, x2) /\ SameLoop(x1, x2) /\ SameMotors(x1, x2)
            /\ x2.set = note /\ x2.calm = x1.calm
    BY <1>1, <1>2, <2>3, <2>5, SpeedPlan
  <2>8. Plan(s1, x, x1)
    BY <2>3, <2>4, ThenPlan
  <2>9. Plan(s2, x, x1)
    BY <2>6, <2>8, ThenPlan
  <2> HIDE DEF s1, s2
  <2>10. Plan(motor_accel(start, target, step, FALSE), x, x2)
    BY <2>1, <2>7, <2>9, ThenPlan
  <2>11. /\ SameKeys(x, x2) /\ SameLoop(x, x2) /\ x2.calm = x.calm
         /\ x2.dir[1] = 0 /\ x2.ena[1] = 1 /\ x2.ena[2] = 0 /\ x2.pwm[1] = 1
    BY <2>3, <2>7 DEF SameKeys, SameLoop, SameMotors
  <2>12. found = Motors => x2.set = target
    BY <1>1, <2>7
  <2> QED BY <2>10, <2>11, <2>12 DEF Driven
<1> QED BY <1>3, <1>4

\* A jog: the outputs are off while the drivers change, and in the end the
\* loop is open.
LEMMA JogPlan ==
    ASSUME NEW x \in States, closed_loop_enable <=> x.loop = 1, x.set = -1, x.calm = 0,
           NEW m \in Motors, NEW reverse \in BOOLEAN
    PROVE  \E y \in States :
               Plan(motor_move_steps(m, reverse), x, y) /\ y.cmd = x.cmd /\ y.loop = 0
<1> DEFINE o  == 3 - m
           v  == IF reverse THEN 1 ELSE 0
           s0 == IF closed_loop_enable
                 THEN Loop(0) \o motor_continuous_stop \o Wait(JogPause) ELSE <<>>
           s1 == s0 \o motor_continuous_stop
           s2 == s1 \o Wait(JogPause)
           s3 == s2 \o Dir(m, v)
           s4 == s3 \o Ena(m, 1)
           s5 == s4 \o Ena(o, 0)
           s6 == s5 \o Rate(m, JogRpm)
           s7 == s6 \o Pwm(m, 1)
           s8 == s7 \o Wait(JogTime)
           s9 == s8 \o Pwm(m, 0)
           s10 == s9 \o Ena(1, 0)
           s11 == s10 \o Ena(2, 0)
<1>1. motor_move_steps(m, reverse) = s11 \o <<>>
  BY DEF motor_move_steps, motor_set_speed_level
<1>0. v \in {0, 1}
  OBVIOUS
<1>2. o \in Motors /\ o # m /\ {1, 2} = {m, o}
  BY DEF Motors
<1>3. JogPause \in Nat /\ JogTime \in Nat /\ JogRpm \in 0 .. MAX_RPM
  BY MotorAssumption DEF JogRpm, MAX_RPM
<1>4. \E x0 \in States : Plan(s0, x, x0) /\ SameKeys(x, x0) /\ x0.loop = 0 /\ x0.set = -1
  <2>1. CASE closed_loop_enable
    <3>1. PICK u \in States :
              /\ Plan(Loop(0), x, u) /\ SameKeys(x, u) /\ SameMotors(x, u)
              /\ u.loop = 0 /\ u.rev = x.rev /\ u.set = -1 /\ u.calm = 0
      BY LoopPlan
    <3>2. PICK w \in States :
              /\ Plan(motor_continuous_stop, u, w)
              /\ SameKeys(u, w) /\ SameLoop(u, w) /\ SameNotes(u, w)
              /\ w.ena = u.ena /\ w.dir = u.dir /\ w.pwm[1] = 0 /\ w.pwm[2] = 0
      BY StopPlan
    <3>3. Plan(Wait(JogPause), w, w)
      BY <1>3, WaitPlan
    <3>4. Plan(Loop(0) \o motor_continuous_stop, x, w)
      BY <3>1, <3>2, ThenPlan
    <3>5. Plan(Loop(0) \o motor_continuous_stop \o Wait(JogPause), x, w)
      BY <3>3, <3>4, ThenPlan
    <3>6. SameKeys(x, w) /\ w.loop = 0 /\ w.set = -1
      BY <3>1, <3>2 DEF SameKeys, SameLoop, SameNotes
    <3> QED BY <2>1, <3>5, <3>6
  <2>2. CASE ~closed_loop_enable
    <3>1. Plan(s0, x, x) /\ x.loop = 0
      BY <2>2, NoPlan, StateFacts
    <3> QED BY <3>1 DEF SameKeys
  <2> QED BY <2>1, <2>2
<1> HIDE DEF o, v, s0
<1>5. PICK x0 \in States : Plan(s0, x, x0) /\ SameKeys(x, x0) /\ x0.loop = 0 /\ x0.set = -1
  BY <1>4
<1>6. PICK x1 \in States :
          /\ Plan(motor_continuous_stop, x0, x1)
          /\ SameKeys(x0, x1) /\ SameLoop(x0, x1) /\ SameNotes(x0, x1)
          /\ x1.ena = x0.ena /\ x1.dir = x0.dir /\ x1.pwm[1] = 0 /\ x1.pwm[2] = 0
  BY StopPlan
<1>7. Plan(Wait(JogPause), x1, x1)
  BY <1>3, WaitPlan
<1>8. PICK x3 \in States :
          /\ Plan(Dir(m, v), x1, x3) /\ SameKeys(x1, x3) /\ SameLoop(x1, x3) /\ SameNotes(x1, x3)
          /\ x3.ena = x1.ena /\ x3.dir = Put(x1.dir, m, v) /\ x3.pwm = x1.pwm
  BY <1>0, DirPlan
<1>9. x3.pwm[1] = 0 /\ x3.pwm[2] = 0
  BY <1>6, <1>8
<1>10. PICK x4 \in States :
          /\ Plan(Ena(m, 1), x3, x4) /\ SameKeys(x3, x4) /\ SameLoop(x3, x4) /\ SameNotes(x3, x4)
          /\ x4.ena = Put(x3.ena, m, 1) /\ x4.dir = x3.dir /\ x4.pwm = x3.pwm
  BY <1>9, EnaPlan
<1>11. PICK x5 \in States :
          /\ Plan(Ena(o, 0), x4, x5) /\ SameKeys(x4, x5) /\ SameLoop(x4, x5) /\ SameNotes(x4, x5)
          /\ x5.ena = Put(x4.ena, o, 0) /\ x5.dir = x4.dir /\ x5.pwm = x4.pwm
  BY <1>2, EnaPlan
<1>12. x5.ena[o] = 0 /\ x5.loop = 0
  <2>1. x4.ena \in [Motors -> {0, 1}]
    BY StateFacts
  <2> QED BY <1>2, <1>5, <1>6, <1>8, <1>10, <1>11, <2>1 DEF Put, SameLoop
<1>13. PICK x6 \in States :
          /\ Plan(Rate(m, JogRpm), x5, x6)
          /\ SameKeys(x5, x6) /\ SameLoop(x5, x6) /\ SameMotors(x5, x6)
          /\ x6.set = -1 /\ x6.calm = x5.calm
  BY <1>3, <1>12, RatePlan
<1>14. x6.ena[1] = 0 \/ x6.ena[2] = 0
  BY <1>2, <1>12, <1>13 DEF SameMotors, Motors
<1>15. PICK x7 \in States :
          /\ Plan(Pwm(m, 1), x6, x7) /\ SameKeys(x6, x7) /\ SameLoop(x6, x7) /\ SameNotes(x6, x7)
          /\ x7.ena = x6.ena /\ x7.dir = x6.dir /\ x7.pwm = Put(x6.pwm, m, 1)
  BY <1>14, PwmPlan
<1>16. Plan(Wait(JogTime), x7, x7)
  BY <1>3, WaitPlan
<1>17. PICK x9 \in States :
          /\ Plan(Pwm(m, 0), x7, x9) /\ SameKeys(x7, x9) /\ SameLoop(x7, x9) /\ SameNotes(x7, x9)
          /\ x9.ena = x7.ena /\ x9.dir = x7.dir /\ x9.pwm = Put(x7.pwm, m, 0)
  BY PwmPlan
<1>18. PICK x10 \in States :
          /\ Plan(Ena(1, 0), x9, x10)
          /\ SameKeys(x9, x10) /\ SameLoop(x9, x10) /\ SameNotes(x9, x10)
          /\ x10.ena = Put(x9.ena, 1, 0) /\ x10.dir = x9.dir /\ x10.pwm = x9.pwm
  BY MotorsAre, EnaPlan
<1>19. PICK x11 \in States :
          /\ Plan(Ena(2, 0), x10, x11)
          /\ SameKeys(x10, x11) /\ SameLoop(x10, x11) /\ SameNotes(x10, x11)
          /\ x11.ena = Put(x10.ena, 2, 0) /\ x11.dir = x10.dir /\ x11.pwm = x10.pwm
  BY MotorsAre, EnaPlan
<1>20. x11.cmd = x.cmd /\ x11.loop = 0
  BY <1>5, <1>6, <1>8, <1>10, <1>11, <1>12, <1>13, <1>15, <1>17, <1>18, <1>19
     DEF SameKeys, SameLoop
<1> HIDE DEF s1, s2, s3, s4, s5, s6, s7, s8, s9, s10, s11
<1>21. Plan(s2, x, x1)
  <2>1. Plan(s1, x, x1)
    BY <1>5, <1>6, ThenPlan DEF s1
  <2> QED BY <1>7, <2>1, ThenPlan DEF s2
<1>22. Plan(s4, x, x4)
  <2>1. Plan(s3, x, x3)
    BY <1>8, <1>21, ThenPlan DEF s3
  <2> QED BY <1>10, <2>1, ThenPlan DEF s4
<1>23. Plan(s6, x, x6)
  <2>1. Plan(s5, x, x5)
    BY <1>11, <1>22, ThenPlan DEF s5
  <2> QED BY <1>13, <2>1, ThenPlan DEF s6
<1>24. Plan(s8, x, x7)
  <2>1. Plan(s7, x, x7)
    BY <1>15, <1>23, ThenPlan DEF s7
  <2> QED BY <1>16, <2>1, ThenPlan DEF s8
<1>25. Plan(s10, x, x10)
  <2>1. Plan(s9, x, x9)
    BY <1>17, <1>24, ThenPlan DEF s9
  <2> QED BY <1>18, <2>1, ThenPlan DEF s10
<1>26. Plan(s11 \o <<>>, x, x11)
  <2>1. Plan(s11, x, x11)
    BY <1>19, <1>25, ThenPlan DEF s11
  <2>2. Plan(<<>>, x11, x11)
    BY NoPlan
  <2> QED BY <2>1, <2>2, ThenPlan
<1> QED BY <1>1, <1>20, <1>26

----------------------------------------------------------------------------
(* The commands.                                                           *)

\* A state in which uart_ctrl may rest: nothing is on after 's' and 'b', and
\* a closed loop has its motor driven.
Restful(z) ==
    /\ z.cmd \in {"s", "b"} => z.loop = 0 /\ z.pwm[1] = 0 /\ z.pwm[2] = 0
    /\ z.loop = 1 /\ z.rev = 0 =>
        z.ena[1] = 1 /\ z.ena[2] = 0 /\ z.pwm[1] = 1 /\ z.dir[1] = 0
    /\ z.loop = 1 /\ z.rev = 1 =>
        z.ena[2] = 1 /\ z.ena[1] = 0 /\ z.pwm[2] = 1 /\ z.dir[2] = 1

\* x is the state in which uart_ctrl has just read command c.
Begins(x, c) ==
    /\ x \in States /\ x.cmd = c /\ x.target = target_speed_mmps
    /\ closed_loop_enable <=> x.loop = 1
    /\ x.set = -1 /\ x.calm = 0

\* The beginning that most commands share.
LEMMA HaltPlan ==
    ASSUME NEW x, NEW c, Begins(x, c)
    PROVE  \E y \in States :
               /\ Plan(OpenLoop \o motor_continuous_stop, x, y) /\ SameKeys(x, y)
               /\ y.loop = 0 /\ y.pwm[1] = 0 /\ y.pwm[2] = 0 /\ y.set = -1 /\ y.calm = 0
<1>1. PICK u \in States :
          /\ Plan(OpenLoop, x, u) /\ SameKeys(x, u) /\ SameMotors(x, u) /\ SameNotes(x, u)
          /\ u.loop = 0 /\ u.rev = x.rev
  BY OpenPlan DEF Begins
<1>2. PICK y \in States :
          /\ Plan(motor_continuous_stop, u, y)
          /\ SameKeys(u, y) /\ SameLoop(u, y) /\ SameNotes(u, y)
          /\ y.ena = u.ena /\ y.dir = u.dir /\ y.pwm[1] = 0 /\ y.pwm[2] = 0
  BY StopPlan
<1>3. Plan(OpenLoop \o motor_continuous_stop, x, y)
  BY <1>1, <1>2, ThenPlan
<1>4. SameKeys(x, y) /\ y.loop = 0 /\ y.set = -1 /\ y.calm = 0
  BY <1>1, <1>2 DEF SameKeys, SameLoop, SameNotes, Begins
<1> QED BY <1>2, <1>3, <1>4

\* 'b' stops everything and beeps.
LEMMA BeginCommand ==
    ASSUME NEW x, Begins(x, "b")
    PROVE  \E z \in States : Plan(Begin, x, z) /\ Restful(z)
<1> DEFINE s1 == OpenLoop \o motor_continuous_stop
           s2 == s1 \o Buzzer(1)
           s3 == s2 \o Wait(BeepTime)
<1>1. Begin = s3 \o Buzzer(0)
  BY DEF Begin
<1>2. PICK z \in States :
          /\ Plan(s1, x, z) /\ SameKeys(x, z)
          /\ z.loop = 0 /\ z.pwm[1] = 0 /\ z.pwm[2] = 0 /\ z.set = -1 /\ z.calm = 0
  BY HaltPlan
<1>3. Plan(Buzzer(1), z, z) /\ Plan(Buzzer(0), z, z)
  BY RunPlan
<1>4. Plan(Wait(BeepTime), z, z)
  BY WaitPlan, MotorAssumption
<1> HIDE DEF s1, s2, s3
<1>5. Plan(s2, x, z)
  BY <1>2, <1>3, ThenPlan DEF s2
<1>6. Plan(s3, x, z)
  BY <1>4, <1>5, ThenPlan DEF s3
<1>7. Plan(Begin, x, z)
  BY <1>1, <1>3, <1>6, ThenPlan
<1> QED BY <1>2, <1>7 DEF Restful

\* The speed a soft start leads to is one that may be programmed.
LEMMA TargetRange ==
    ASSUME NEW t \in {100, 200, 300}
    PROVE  TargetRpm(t) \in 0 .. MAX_RPM
<1>1. TargetRpm(100) = 31
  BY DEF TargetRpm
<1>2. TargetRpm(200) = 63
  BY DEF TargetRpm
<1>3. TargetRpm(300) = 95
  BY DEF TargetRpm
<1> QED BY <1>1, <1>2, <1>3 DEF MAX_RPM

\* 'u': the pause lets the PID thread see the loop open, and nothing touches
\* the first timer between the end of the ramp and the closing of the loop.
LEMMA ForwardCommand ==
    ASSUME NEW x, Begins(x, "u")
    PROVE  \E z \in States : Plan(ForwardLoop, x, z) /\ Restful(z)
<1> DEFINE rpm == TargetRpm(target_speed_mmps)
           low == 50
           step == 5
           s1 == OpenLoop \o motor_continuous_stop
           s2 == s1 \o Wait(StopDelay)
           s3 == s2 \o Rev(0)
           s4 == s3 \o motor_set_direction(FALSE)
           s5 == s4 \o motor_accel(low, rpm, step, FALSE)
<1>1. ForwardLoop = s5 \o Loop(1)
  BY DEF ForwardLoop
<1>2. rpm \in Rpms /\ low \in Rpms /\ step \in Nat \ {0}
  BY TargetRange, StateFacts DEF Begins, MAX_RPM, Rpms
<1> HIDE DEF rpm, low, step
<1>3. PICK x1 \in States :
          /\ Plan(s1, x, x1) /\ SameKeys(x, x1)
          /\ x1.loop = 0 /\ x1.pwm[1] = 0 /\ x1.pwm[2] = 0 /\ x1.set = -1 /\ x1.calm = 0
  BY HaltPlan
<1>4. StopDelay \in Nat /\ StopDelay >= PidPeriod
  BY MotorAssumption
<1>5. PICK x2 \in States :
          /\ Plan(Wait(StopDelay), x1, x2)
          /\ SameKeys(x1, x2) /\ SameLoop(x1, x2) /\ SameMotors(x1, x2)
          /\ x2.set = x1.set /\ x2.calm = 1
  BY <1>3, <1>4, CalmPlan
<1>6. PICK x3 \in States :
          /\ Plan(Rev(0), x2, x3) /\ SameKeys(x2, x3) /\ SameMotors(x2, x3) /\ SameNotes(x2, x3)
          /\ x3.loop = x2.loop /\ x3.rev = 0
  BY RevPlan
<1>7. /\ SameKeys(x, x3) /\ x3.loop = 0 /\ x3.rev = 0 /\ x3.set = -1 /\ x3.calm = 1
      /\ x3.pwm[1] = 0 /\ x3.pwm[2] = 0
  BY <1>3, <1>5, <1>6 DEF SameKeys, SameLoop, SameMotors, SameNotes
<1>8. PICK x4 \in States :
          /\ Plan(motor_set_direction(FALSE), x3, x4)
          /\ SameKeys(x3, x4) /\ SameLoop(x3, x4) /\ SameNotes(x3, x4) /\ x4.pwm = x3.pwm
  BY <1>7, DirectionPlan
<1>9. x4.loop = 0 /\ x4.pwm[1] = 0 /\ x4.pwm[2] = 0 /\ x4.set = -1
  BY <1>7, <1>8 DEF SameLoop, SameNotes
<1>10. PICK x5 \in States :
          /\ Plan(motor_accel(low, rpm, step, FALSE), x4, x5)
          /\ SameKeys(x4, x5) /\ SameLoop(x4, x5) /\ x5.calm = x4.calm /\ Driven(x5, rpm)
  BY <1>2, <1>9, AccelPlan
<1>11. x5.calm = 1 /\ x5.cmd = "u" /\ x5.rev = 0 /\ x5.target = target_speed_mmps
  BY <1>7, <1>8, <1>10 DEF SameKeys, SameLoop, SameNotes, Begins
<1>12. found = Motors => x5.set = TargetRpm(x5.target)
  BY <1>10, <1>11 DEF rpm, Driven
<1>13. PICK z \in States :
          /\ Plan(Loop(1), x5, z) /\ SameKeys(x5, z) /\ SameMotors(x5, z)
          /\ z.loop = 1 /\ z.rev = x5.rev /\ z.set = -1 /\ z.calm = 0
  BY <1>11, <1>12, LoopPlan
<1>14. Restful(z)
  BY <1>10, <1>11, <1>13 DEF Restful, Driven, SameKeys, SameMotors
<1> HIDE DEF s1, s2, s3, s4, s5
<1>15. Plan(s2, x, x2)
  BY <1>3, <1>5, ThenPlan DEF s2
<1>16. Plan(s3, x, x3)
  BY <1>6, <1>15, ThenPlan DEF s3
<1>17. Plan(s4, x, x4)
  BY <1>8, <1>16, ThenPlan DEF s4
<1>18. Plan(s5, x, x5)
  BY <1>10, <1>17, ThenPlan DEF s5
<1>19. Plan(ForwardLoop, x, z)
  BY <1>1, <1>13, <1>18, ThenPlan
<1> QED BY <1>14, <1>19

\* 't'
LEMMA TestCommand ==
    ASSUME NEW x, Begins(x, "t")
    PROVE  \E z \in States : Plan(OpenLoopTest, x, z) /\ Restful(z)
<1> DEFINE s1 == OpenLoop \o motor_continuous_stop
           s2 == s1 \o Rev(0)
           s3 == s2 \o motor_set_direction(FALSE)
           low == 100
           rpm == 200
           step == 20
<1>1. OpenLoopTest = s3 \o motor_accel(low, rpm, step, FALSE)
  BY DEF OpenLoopTest
<1>2. low \in Rpms /\ rpm \in Rpms /\ step \in Nat \ {0}
  BY DEF MAX_RPM, Rpms
<1> HIDE DEF low, rpm, step
<1>3. PICK x1 \in States :
          /\ Plan(s1, x, x1) /\ SameKeys(x, x1)
          /\ x1.loop = 0 /\ x1.pwm[1] = 0 /\ x1.pwm[2] = 0 /\ x1.set = -1 /\ x1.calm = 0
  BY HaltPlan
<1>4. PICK x2 \in States :
          /\ Plan(Rev(0), x1, x2) /\ SameKeys(x1, x2) /\ SameMotors(x1, x2) /\ SameNotes(x1, x2)
          /\ x2.loop = x1.loop /\ x2.rev = 0
  BY RevPlan
<1>5. x2.pwm[1] = 0 /\ x2.pwm[2] = 0
  BY <1>3, <1>4 DEF SameMotors
<1>6. PICK x3 \in States :
          /\ Plan(motor_set_direction(FALSE), x2, x3)
          /\ SameKeys(x2, x3) /\ SameLoop(x2, x3) /\ SameNotes(x2, x3) /\ x3.pwm = x2.pwm
  BY <1>5, DirectionPlan
<1>7. x3.loop = 0 /\ x3.pwm[1] = 0 /\ x3.pwm[2] = 0 /\ x3.set = -1
  BY <1>3, <1>4, <1>5, <1>6 DEF SameLoop, SameNotes
<1>8. PICK z \in States :
          /\ Plan(motor_accel(low, rpm, step, FALSE), x3, z)
          /\ SameKeys(x3, z) /\ SameLoop(x3, z)
  BY <1>2, <1>7, AccelPlan
<1>9. Restful(z)
  BY <1>3, <1>4, <1>6, <1>7, <1>8 DEF Restful, SameKeys, SameLoop, Begins
<1> HIDE DEF s1, s2, s3
<1>10. Plan(s2, x, x2)
  BY <1>3, <1>4, ThenPlan DEF s2
<1>11. Plan(s3, x, x3)
  BY <1>6, <1>10, ThenPlan DEF s3
<1>12. Plan(OpenLoopTest, x, z)
  BY <1>1, <1>8, <1>11, ThenPlan
<1> QED BY <1>9, <1>12

\* 'o' closes the loop before it turns the drivers round, with the outputs off.
LEMMA ReverseCommand ==
    ASSUME NEW x, Begins(x, "o")
    PROVE  \E z \in States : Plan(ReverseLoop, x, z) /\ Restful(z)
<1> DEFINE s1 == motor_continuous_stop \o Loop(1)
           s2 == s1 \o Rev(1)
           s3 == s2 \o motor_set_direction(TRUE)
           s4 == s3 \o Pwm(2, 1)
<1>1. ReverseLoop = s4 \o Pwm(1, 0)
  BY DEF ReverseLoop
<1>2. PICK x1 \in States :
          /\ Plan(motor_continuous_stop, x, x1)
          /\ SameKeys(x, x1) /\ SameLoop(x, x1) /\ SameNotes(x, x1)
          /\ x1.ena = x.ena /\ x1.dir = x.dir /\ x1.pwm[1] = 0 /\ x1.pwm[2] = 0
  BY StopPlan DEF Begins
<1>3. x1.cmd = "o"
  BY <1>2 DEF SameKeys, Begins
<1>4. PICK x2 \in States :
          /\ Plan(Loop(1), x1, x2) /\ SameKeys(x1, x2) /\ SameMotors(x1, x2)
          /\ x2.loop = 1 /\ x2.rev = x1.rev /\ x2.set = -1 /\ x2.calm = 0
  BY <1>3, LoopPlan
<1>5. PICK x3 \in States :
          /\ Plan(Rev(1), x2, x3) /\ SameKeys(x2, x3) /\ SameMotors(x2, x3) /\ SameNotes(x2, x3)
          /\ x3.loop = x2.loop /\ x3.rev = 1
  BY RevPlan
<1>6. x3.pwm[1] = 0 /\ x3.pwm[2] = 0
  BY <1>2, <1>4, <1>5 DEF SameMotors
<1>7. PICK x4 \in States :
          /\ Plan(motor_set_direction(TRUE), x3, x4)
          /\ SameKeys(x3, x4) /\ SameLoop(x3, x4) /\ SameNotes(x3, x4) /\ x4.pwm = x3.pwm
          /\ x4.dir[2] = 1 /\ x4.ena[1] = 0 /\ x4.ena[2] = 1
  BY <1>6, DirectionPlan
<1>8. PICK x5 \in States :
          /\ Plan(Pwm(2, 1), x4, x5) /\ SameKeys(x4, x5) /\ SameLoop(x4, x5) /\ SameNotes(x4, x5)
          /\ x5.ena = x4.ena /\ x5.dir = x4.dir /\ x5.pwm = Put(x4.pwm, 2, 1)
  BY <1>7, MotorsAre, PwmPlan
<1>9. PICK z \in States :
          /\ Plan(Pwm(1, 0), x5, z) /\ SameKeys(x5, z) /\ SameLoop(x5, z) /\ SameNotes(x5, z)
          /\ z.ena = x5.ena /\ z.dir = x5.dir /\ z.pwm = Put(x5.pwm, 1, 0)
  BY MotorsAre, PwmPlan
<1>10. z.pwm[2] = 1
  <2>1. x4.pwm \in [Motors -> {0, 1}]
    BY StateFacts
  <2> QED BY <1>8, <1>9, <2>1 DEF Put, Motors
<1>11. z.ena[1] = 0 /\ z.ena[2] = 1 /\ z.dir[2] = 1
  BY <1>7, <1>8, <1>9
<1>12. z.cmd = "o" /\ z.rev = 1
  BY <1>3, <1>4, <1>5, <1>7, <1>8, <1>9 DEF SameKeys, SameLoop
<1>13. Restful(z)
  BY <1>10, <1>11, <1>12 DEF Restful
<1> HIDE DEF s1, s2, s3, s4
<1>14. Plan(s1, x, x2)
  BY <1>2, <1>4, ThenPlan DEF s1
<1>15. Plan(s2, x, x3)
  BY <1>5, <1>14, ThenPlan DEF s2
<1>16. Plan(s3, x, x4)
  BY <1>7, <1>15, ThenPlan DEF s3
<1>17. Plan(s4, x, x5)
  BY <1>8, <1>16, ThenPlan DEF s4
<1>18. Plan(ReverseLoop, x, z)
  BY <1>1, <1>9, <1>17, ThenPlan
<1> QED BY <1>13, <1>18

\* The jogs leave the loop open.
LEMMA JogCommand ==
    ASSUME NEW x, NEW c, Begins(x, c), NEW m \in Motors, NEW reverse \in BOOLEAN,
           c \notin {"s", "b"}
    PROVE  \E z \in States : Plan(motor_move_steps(m, reverse), x, z) /\ Restful(z)
<1>1. PICK z \in States :
          Plan(motor_move_steps(m, reverse), x, z) /\ z.cmd = x.cmd /\ z.loop = 0
  BY JogPlan DEF Begins
<1> QED BY <1>1 DEF Restful, Begins

\* 'w', 'm' and 'l' may come while the loop is closed and leave it alone.
LEMMA TargetCommand ==
    ASSUME NEW x, NEW c, Begins(x, c), NEW v \in Speeds, c \notin {"s", "b"},
           Restful(x)
    PROVE  \E z \in States : Plan(Target(v), x, z) /\ Restful(z)
<1>1. PICK z \in States :
          Plan(Target(v), x, z) /\ z.cmd = x.cmd /\ SameLoop(x, z) /\ SameMotors(x, z)
  <2>1. x \in States
    BY DEF Begins
  <2> QED BY <2>1, TargetPlan
<1> QED BY <1>1 DEF Restful, Begins, SameLoop, SameMotors

\* Whatever is asked of a resting uart_ctrl, it has a plan that ends at rest.
LEMMA ScriptPlan ==
    ASSUME NEW x, NEW c \in AllCommands, Begins(x, c),
           c \notin {"s", "b"} => Restful(x)
    PROVE  \E z \in States : Plan(Script(c), x, z) /\ Restful(z)
<1> USE DEF AllCommands, Jogs
<1>1. CASE c = "s"
  <2>1. PICK z \in States :
            /\ Plan(OpenLoop \o motor_continuous_stop, x, z) /\ SameKeys(x, z)
            /\ z.loop = 0 /\ z.pwm[1] = 0 /\ z.pwm[2] = 0 /\ z.set = -1 /\ z.calm = 0
    BY HaltPlan
  <2>2. Plan(Script(c), x, z)
    BY <1>1, <2>1 DEF Script, Stop
  <2> QED BY <2>1, <2>2 DEF Restful
<1>2. CASE c = "b"
  BY <1>2, BeginCommand DEF Script
<1>3. CASE c = "u"
  BY <1>3, ForwardCommand DEF Script
<1>4. CASE c = "o"
  BY <1>4, ReverseCommand DEF Script
<1>5. CASE c = "t"
  BY <1>5, TestCommand DEF Script
<1>6. CASE c = "w"
  <2>1. Script(c) = Target(300)
    BY <1>6 DEF Script
  <2>2. 300 \in Speeds
    BY DEF Speeds
  <2> QED BY <1>6, <2>1, <2>2, TargetCommand
<1>7. CASE c = "m"
  <2>1. Script(c) = Target(200)
    BY <1>7 DEF Script
  <2>2. 200 \in Speeds
    BY DEF Speeds
  <2> QED BY <1>7, <2>1, <2>2, TargetCommand
<1>8. CASE c = "l"
  <2>1. Script(c) = Target(100)
    BY <1>8 DEF Script
  <2>2. 100 \in Speeds
    BY DEF Speeds
  <2> QED BY <1>8, <2>1, <2>2, TargetCommand
<1>9. CASE c = "jog1"
  <2>1. Script(c) = motor_move_steps(1, FALSE)
    BY <1>9 DEF Script
  <2> QED BY <1>9, <2>1, MotorsAre, JogCommand
<1>10. CASE c = "jog1r"
  <2>1. Script(c) = motor_move_steps(1, TRUE)
    BY <1>10 DEF Script
  <2> QED BY <1>10, <2>1, MotorsAre, JogCommand
<1>11. CASE c = "jog2"
  <2>1. Script(c) = motor_move_steps(2, FALSE)
    BY <1>11 DEF Script
  <2> QED BY <1>11, <2>1, MotorsAre, JogCommand
<1>12. CASE c = "jog2r"
  <2>1. Script(c) = motor_move_steps(2, TRUE)
    BY <1>12 DEF Script
  <2> QED BY <1>12, <2>1, MotorsAre, JogCommand
<1> QED BY <1>1, <1>2, <1>3, <1>4, <1>5, <1>6, <1>7, <1>8, <1>9, <1>10, <1>11, <1>12

----------------------------------------------------------------------------
(* The inductive invariant.                                                *)

\* The plan's state x is the program's: a PWM device that is missing stays
\* off, a speed that the plan remembers is in the first timer, and in a calm
\* state the PID thread has seen the loop open or will before uart_ctrl wakes.
Rel(x) ==
    /\ x.cmd = cmd /\ x.target = target_speed_mmps
    /\ closed_loop_enable <=> x.loop = 1
    /\ g_direction_reverse <=> x.rev = 1
    /\ x.ena = ena /\ x.dir = dir
    /\ \A m \in Motors : pwm[m] = IF m \in found THEN x.pwm[m] ELSE 0
    /\ x.set # -1 => x.loop = 0 /\ (found = Motors => rate[1] = x.set)
    /\ x.calm = 1 => x.loop = 0 /\ (was_enabled => pid_wait <= ctrl_wait)

\* What is left of the command has a plan from here to a state to rest in.
Planned == \E x, z \in States : Rel(x) /\ Plan(todo, x, z) /\ Restful(z)

IInv == TypeOK /\ Planned

\* After motor_hw_init everything is off.
LEMMA InitInv == Init => IInv
<1> SUFFICES ASSUME Init PROVE IInv
  OBVIOUS
<1> DEFINE off == [m \in Motors |-> 0]
           x == State("s", 0, 0, 200, off, off, off, -1, 0)
<1>1. /\ ena = off /\ dir = off /\ pwm = off /\ off \in [Motors -> {0, 1}]
      /\ off[1] = 0 /\ off[2] = 0 /\ \A m \in Motors : off[m] = 0
  BY DEF Init, Motors
<1>2. TypeOK
  <2>1. rate \in [Motors -> 0 .. MAX_RPM]
    BY DEF Init, MAX_RPM
  <2>2. PidPeriod \in Nat /\ 0 \in 0 .. PidPeriod
    BY MotorAssumption
  <2>3. inbox \in Seq(Commands) /\ cmd \in AllCommands
    BY DEF Init, AllCommands
  <2> QED BY <1>1, <2>1, <2>2, <2>3 DEF Init, TypeOK
<1> HIDE DEF off
<1>3. /\ x \in States
      /\ x.cmd = "s" /\ x.loop = 0 /\ x.rev = 0 /\ x.target = 200
      /\ x.ena = off /\ x.dir = off /\ x.pwm = off /\ x.set = -1 /\ x.calm = 0
  BY <1>1 DEF State, States, Records, BothTurn, AllCommands
<1> HIDE DEF x
<1>4. Rel(x)
  BY <1>1, <1>3 DEF Init, Rel
<1>5. Plan(todo, x, x)
  BY <1>3, NoPlan DEF Init
<1>6. Restful(x)
  BY <1>1, <1>3 DEF Restful
<1> QED BY <1>2, <1>3, <1>4, <1>5, <1>6 DEF IInv, Planned

\* Steps that do not touch what uart_ctrl owns.
LEMMA ReceiveInv == IInv /\ Receive => IInv'
<1> SUFFICES ASSUME IInv, Receive PROVE IInv'
  OBVIOUS
<1>1. inbox' \in Seq(Commands)
  BY DEF IInv, TypeOK, Receive
<1>2. TypeOK'
  BY <1>1 DEF IInv, TypeOK, Receive, loop, outputs
<1>3. PICK x \in States, z \in States : Rel(x) /\ Plan(todo, x, z) /\ Restful(z)
  BY DEF IInv, Planned
<1>4. Rel(x)'
  BY <1>3 DEF Rel, Receive, loop, outputs
<1>5. todo' = todo
  BY DEF Receive
<1>6. \E u, w \in States : Rel(u)' /\ Plan(todo, u, w)' /\ Restful(w)
  <2>1. Plan(todo, x, z)'
    BY <1>3, <1>5 DEF Plan, IsPlan, Step, Permitted, Receive
  <2> QED BY <1>3, <1>4, <2>1
<1> QED BY <1>2, <1>6 DEF IInv, Planned

\* A tick brings both threads nearer to their wake-up by the same amount.
LEMMA TickInv == IInv /\ Tick => IInv'
<1> SUFFICES ASSUME IInv, Tick PROVE IInv'
  OBVIOUS
<1>1. /\ PidPeriod \in Nat /\ pid_wait \in Nat /\ pid_wait <= PidPeriod /\ ctrl_wait \in Nat
  BY MotorAssumption DEF IInv, TypeOK
<1>2. /\ pid_wait' \in 0 .. PidPeriod /\ ctrl_wait' \in Nat
      /\ pid_wait <= ctrl_wait => pid_wait' <= ctrl_wait'
  BY <1>1 DEF Tick
<1>3. TypeOK'
  BY <1>2 DEF IInv, TypeOK, Tick, loop, outputs
<1>4. PICK x \in States, z \in States : Rel(x) /\ Plan(todo, x, z) /\ Restful(z)
  BY DEF IInv, Planned
<1>5. Rel(x)'
  BY <1>2, <1>4 DEF Rel, Tick, loop, outputs
<1>6. Plan(todo, x, z)'
  BY <1>4 DEF Plan, IsPlan, Step, Permitted, Tick
<1>7. \E u, w \in States : Rel(u)' /\ Plan(todo, u, w)' /\ Restful(w)
  BY <1>4, <1>5, <1>6
<1> QED BY <1>3, <1>7 DEF IInv, Planned

\* The PID thread writes a timer only while the loop is closed, when no speed
\* is remembered; while it is open it takes note of that.
LEMMA PidInv == IInv /\ PidStep => IInv'
<1> SUFFICES ASSUME IInv, PidStep PROVE IInv'
  OBVIOUS
<1>1. rate' \in [Motors -> 0 .. MAX_RPM] /\ (~closed_loop_enable => rate' = rate)
  <2>1. CASE closed_loop_enable
    <3>1. PICK output \in PidOutputs : SetActiveRate(Limited(output))
      BY <2>1 DEF PidStep
    <3>2. Limited(output) \in 0 .. MAX_RPM
      <4>1. output \in Int
        BY MotorAssumption
      <4> QED BY <4>1 DEF Limited, MAX_RPM
    <3>3. rate \in [Motors -> 0 .. MAX_RPM]
      BY DEF IInv, TypeOK
    <3> QED BY <2>1, <3>1, <3>2, <3>3 DEF SetActiveRate
  <2>2. CASE ~closed_loop_enable
    BY <2>2 DEF PidStep, IInv, TypeOK
  <2> QED BY <2>1, <2>2
<1>2. /\ pid_wait' \in 0 .. PidPeriod /\ was_enabled' \in BOOLEAN
      /\ ~closed_loop_enable => ~was_enabled'
  <2>1. PidPeriod \in 0 .. PidPeriod
    BY MotorAssumption
  <2>2. pid_wait' = PidPeriod
    BY DEF PidStep
  <2>3. was_enabled' = TRUE \/ was_enabled' = FALSE
    BY DEF PidStep
  <2>4. ~closed_loop_enable => was_enabled' = FALSE
    BY Zenon DEF PidStep
  <2> QED BY <2>1, <2>2, <2>3, <2>4
<1>3. UNCHANGED <<found, loop, ena, dir, pwm, buzzer, thread>>
  BY DEF PidStep
<1>4. TypeOK'
  BY <1>1, <1>2, <1>3 DEF IInv, TypeOK, loop, thread
<1>5. PICK x \in States, z \in States : Rel(x) /\ Plan(todo, x, z) /\ Restful(z)
  BY DEF IInv, Planned
<1>6. Rel(x)'
  BY <1>1, <1>2, <1>3, <1>5 DEF Rel, loop, thread
<1>7. Plan(todo, x, z)'
  BY <1>3, <1>5 DEF Plan, IsPlan, Step, Permitted, thread
<1>8. \E u, w \in States : Rel(u)' /\ Plan(todo, u, w)' /\ Restful(w)
  BY <1>5, <1>6, <1>7
<1> QED BY <1>4, <1>8 DEF IInv, Planned

\* A command begins where the last one came to rest.
LEMMA TakeInv == IInv /\ TakeCommand => IInv'
<1> SUFFICES ASSUME IInv, TakeCommand PROVE IInv'
  OBVIOUS
<1>1. PICK c \in AllCommands : c = Head(inbox) /\ Tail(inbox) \in Seq(Commands)
  <2>1. inbox \in Seq(Commands) /\ inbox # <<>>
    BY DEF IInv, TypeOK, TakeCommand
  <2>2. Head(inbox) \in Commands /\ Tail(inbox) \in Seq(Commands)
    BY <2>1
  <2> QED BY <2>2, MotorAssumption
<1>2. /\ cmd' = c /\ todo' = Script(c) /\ inbox' = Tail(inbox)
      /\ UNCHANGED <<found, loop, outputs, ctrl_wait, pid_wait, was_enabled>>
  BY <1>1 DEF TakeCommand
<1>3. TypeOK'
  BY <1>1, <1>2 DEF IInv, TypeOK, loop, outputs
<1>4. PICK x \in States : Rel(x) /\ Restful(x)
  <2>1. PICK x \in States, z \in States : Rel(x) /\ Plan(todo, x, z) /\ Restful(z)
    BY DEF IInv, Planned
  <2>2. x = z
    BY <2>1, EmptyPlan DEF TakeCommand
  <2> QED BY <2>1, <2>2
<1>5. PICK y \in States :
      /\ y.cmd = c /\ y.loop = x.loop /\ y.rev = x.rev /\ y.target = x.target
      /\ y.ena = x.ena /\ y.dir = x.dir /\ y.pwm = x.pwm /\ y.set = -1 /\ y.calm = 0
  <2> DEFINE y == State(c, x.loop, x.rev, x.target, x.ena, x.dir, x.pwm, -1, 0)
  <2>1. /\ y \in States
        /\ y.cmd = c /\ y.loop = x.loop /\ y.rev = x.rev /\ y.target = x.target
        /\ y.ena = x.ena /\ y.dir = x.dir /\ y.pwm = x.pwm /\ y.set = -1 /\ y.calm = 0
    BY <1>1, StateFacts DEF State, States, Records, BothTurn
  <2> HIDE DEF y
  <2> QED BY <2>1
<1>6. Begins(y, c)
  BY <1>4, <1>5 DEF Begins, Rel
<1>7. c \notin {"s", "b"} => Restful(y)
  BY <1>4, <1>5 DEF Restful
<1>8. PICK z \in States : Plan(Script(c), y, z) /\ Restful(z)
  BY <1>1, <1>6, <1>7, ScriptPlan
<1>9. Rel(y)'
  BY <1>2, <1>4, <1>5 DEF Rel, loop, outputs
<1>10. Plan(todo, y, z)'
  BY <1>2, <1>8 DEF Plan, IsPlan, Step, Permitted
<1>11. \E u, w \in States : Rel(u)' /\ Plan(todo, u, w)' /\ Restful(w)
  BY <1>8, <1>9, <1>10
<1> QED BY <1>3, <1>11 DEF IInv, Planned

\* One write of uart_ctrl is the first of its plan.
LEMMA CtrlInv == IInv /\ CtrlStep => IInv'
<1> SUFFICES ASSUME IInv, CtrlStep PROVE IInv'
  OBVIOUS
<1>1. PICK x \in States, z \in States : Rel(x) /\ Plan(todo, x, z) /\ Restful(z)
  BY DEF IInv, Planned
<1>2. /\ todo # <<>> /\ ctrl_wait = 0 /\ pid_wait # 0 /\ Do(Head(todo)) /\ todo' = Tail(todo)
      /\ UNCHANGED <<found, inbox, cmd, pid_wait, was_enabled>>
  BY DEF CtrlStep, PidReady
<1>3. PICK op \in Ops : op = Head(todo)
  BY <1>1, <1>2, FirstPlan
<1>4. PICK y \in States : Step(x, op, y) /\ Plan(Tail(todo), y, z)
  BY <1>1, <1>2, <1>3, FirstPlan
<1>5. op[1] \in Kinds /\ op[2] \in Nat /\ op[3] \in Nat
  BY DEF Ops
<1>6. Permitted(x, op) /\ Effect(x, op, y)
  BY <1>4 DEF Step
<1>7. Do(op)
  BY <1>2, <1>3
<1>8. TypeOK'
  <2>1. TypeOK
    BY DEF IInv
  <2>2. /\ found' \subseteq Motors /\ inbox' \in Seq(Commands) /\ cmd' \in AllCommands
        /\ pid_wait' \in 0 .. PidPeriod /\ was_enabled' \in BOOLEAN
    BY <1>2, <2>1 DEF TypeOK
  <2>3. /\ closed_loop_enable' \in BOOLEAN /\ g_motor_run' \in BOOLEAN
        /\ g_direction_reverse' \in BOOLEAN
    BY <1>7, <2>1 DEF Do, TypeOK
  <2>4. target_speed_mmps' \in {100, 200, 300} /\ buzzer' \in {0, 1} /\ ctrl_wait' \in Nat
    BY <1>5, <1>6, <1>7, <2>1 DEF Do, TypeOK, Permitted
  <2>5. ena' \in [Motors -> {0, 1}]
    BY <1>6, <1>7, <2>1 DEF Do, TypeOK, Permitted
  <2>6. dir' \in [Motors -> {0, 1}]
    BY <1>6, <1>7, <2>1 DEF Do, TypeOK, Permitted
  <2>7. pwm' \in [Motors -> {0, 1}]
    BY <1>6, <1>7, <2>1 DEF Do, TypeOK, Permitted
  <2>8. rate' \in [Motors -> 0 .. MAX_RPM]
    BY <1>6, <1>7, <2>1 DEF Do, TypeOK, Permitted
  <2> QED BY <2>2, <2>3, <2>4, <2>5, <2>6, <2>7, <2>8 DEF TypeOK
<1>9. Rel(y)'
  <2>1. y.cmd = cmd' /\ y.target = target_speed_mmps'
    BY <1>1, <1>2, <1>6, <1>7 DEF Rel, Effect, Do
  <2>2. closed_loop_enable' <=> y.loop = 1
    BY <1>1, <1>6, <1>7 DEF Rel, Effect, Do
  <2>3. g_direction_reverse' <=> y.rev = 1
    BY <1>1, <1>6, <1>7 DEF Rel, Effect, Do
  <2>4. y.ena = ena' /\ y.dir = dir'
    BY <1>1, <1>6, <1>7 DEF Rel, Effect, Do
  <2>5. ASSUME NEW m \in Motors
        PROVE  pwm'[m] = IF m \in found THEN y.pwm[m] ELSE 0
    <3>1. pwm \in [Motors -> {0, 1}] /\ x.pwm \in [Motors -> {0, 1}]
      BY StateFacts DEF IInv, TypeOK
    <3>2. pwm[m] = IF m \in found THEN x.pwm[m] ELSE 0
      BY <1>1 DEF Rel
    <3> QED BY <1>6, <1>7, <3>1, <3>2 DEF Effect, Permitted, Do
  <2>6. ASSUME y.set # -1
        PROVE  y.loop = 0 /\ (found = Motors => rate'[1] = y.set)
    <3>1. op[1] # "loop" /\ y.loop = x.loop
      BY <1>6, <2>6 DEF Effect
    <3>2. x.set # -1 => x.loop = 0 /\ (found = Motors => rate[1] = x.set)
      BY <1>1 DEF Rel
    <3>3. rate \in [Motors -> 0 .. MAX_RPM]
      BY DEF IInv, TypeOK
    <3>4. CASE op[1] = "rate" /\ op[2] = 1
      <4>1. y.set = op[3] /\ x.loop = 0
        BY <1>6, <2>6, <3>4 DEF Effect, Permitted
      <4>2. found = Motors => rate' = [rate EXCEPT ![1] = op[3]]
        BY <1>7, <3>4, MotorsAre DEF Do
      <4> QED BY <3>1, <3>3, <4>1, <4>2, MotorsAre
    <3>5. CASE ~(op[1] = "rate" /\ op[2] = 1)
      <4>1. y.set = x.set
        BY <1>6, <2>6, <3>5 DEF Effect
      <4>2. rate'[1] = rate[1]
        BY <1>6, <1>7, <3>3, <3>5, MotorsAre DEF Do, Permitted
      <4> QED BY <2>6, <3>1, <3>2, <4>1, <4>2
    <3> QED BY <3>4, <3>5
  <2>7. ASSUME y.calm = 1
        PROVE  y.loop = 0 /\ (was_enabled => pid_wait <= ctrl_wait')
    <3>1. op[1] # "loop" /\ y.loop = x.loop
      BY <1>6, <2>7 DEF Effect
    <3>2. pid_wait \in 0 .. PidPeriod /\ pid_wait # 0 /\ ctrl_wait = 0 /\ PidPeriod \in Nat
      BY <1>2, MotorAssumption DEF IInv, TypeOK
    <3>3. CASE x.calm = 1
      <4>1. x.loop = 0 /\ (was_enabled => pid_wait <= ctrl_wait)
        BY <1>1, <3>3 DEF Rel
      <4>2. ~(pid_wait <= ctrl_wait)
        BY <3>2
      <4> QED BY <3>1, <4>1, <4>2
    <3>4. CASE op[1] = "wait" /\ x.loop = 0 /\ op[3] >= PidPeriod
      <4>1. ctrl_wait' = op[3]
        BY <1>7, <3>4 DEF Do
      <4>2. pid_wait <= ctrl_wait'
        BY <1>5, <3>2, <3>4, <4>1
      <4> QED BY <3>1, <3>4, <4>2
    <3> QED BY <1>6, <2>7, <3>3, <3>4 DEF Effect
  <2> QED BY <1>2, <2>1, <2>2, <2>3, <2>4, <2>5, <2>6, <2>7 DEF Rel
<1>10. Plan(todo, y, z)'
  BY <1>2, <1>4 DEF Plan, IsPlan, Step, Permitted
<1>11. \E u, w \in States : Rel(u)' /\ Plan(todo, u, w)' /\ Restful(w)
  BY <1>1, <1>9, <1>10
<1> QED BY <1>8, <1>11 DEF IInv, Planned

\* A step of something else.
LEMMA StutterInv == IInv /\ UNCHANGED vars => IInv'
<1> SUFFICES ASSUME IInv, UNCHANGED vars PROVE IInv'
  OBVIOUS
<1> USE DEF vars, loop, outputs, thread
<1>1. TypeOK'
  BY DEF IInv, TypeOK
<1>2. PICK x \in States, z \in States : Rel(x) /\ Plan(todo, x, z) /\ Restful(z)
  BY DEF IInv, Planned
<1>3. Rel(x)'
  BY <1>2 DEF Rel
<1>4. Plan(todo, x, z)'
  BY <1>2 DEF Plan, IsPlan, Step, Permitted
<1>5. \E u, w \in States : Rel(u)' /\ Plan(todo, u, w)' /\ Restful(w)
  BY <1>2, <1>3, <1>4
<1> QED BY <1>1, <1>5 DEF IInv, Planned

\* Whatever uart_ctrl is doing and wherever the PID thread interrupts it, what
\* is left of the command leads through permitted writes to a state at rest.
THEOREM MotorInvariant == Spec => []IInv
<1>1. Init => IInv
  BY InitInv
<1>2. IInv /\ [Next]_vars => IInv'
  BY ReceiveInv, TakeInv, CtrlInv, PidInv, TickInv, StutterInv DEF Next, Ctrl
<1> QED BY <1>1, <1>2, PTL DEF Spec

----------------------------------------------------------------------------
(* The properties.                                                         *)

\* Pins and flags have their types, and no timer is ever programmed for a
\* speed beyond 0 .. MAX_RPM.
THEOREM MotorTypeCorrect == Spec => []TypeOK
BY MotorInvariant, PTL DEF IInv

\* At no instant do both motors turn, also not between two writes of
\* motor_set_direction or motor_move_steps.
THEOREM NeverBothTurns == Spec => []NeverBothTurn
<1>1. IInv => NeverBothTurn
  <2> SUFFICES ASSUME IInv PROVE NeverBothTurn
    OBVIOUS
  <2>1. PICK x \in States : Rel(x)
    BY DEF IInv, Planned
  <2>2. x.ena = ena /\ \A m \in Motors : pwm[m] = 1 => x.pwm[m] = 1
    BY <2>1 DEF Rel
  <2>3. ~(x.ena[1] = 1 /\ x.pwm[1] = 1 /\ x.ena[2] = 1 /\ x.pwm[2] = 1)
    BY StateFacts
  <2> QED BY <2>2, <2>3, MotorsAre DEF NeverBothTurn, Turning
<1> QED BY <1>1, MotorInvariant, PTL

\* An idle uart_ctrl is in a state to rest in.
LEMMA Idle ==
    ASSUME IInv, todo = <<>>
    PROVE  \E x \in States : Rel(x) /\ Restful(x)
<1>1. PICK x \in States, z \in States : Rel(x) /\ Plan(todo, x, z) /\ Restful(z)
  BY DEF IInv, Planned
<1> QED BY <1>1, EmptyPlan

\* Once 's' or 'b' has been handled the loop is open and nothing turns.
THEOREM StopsStop == Spec => []StopMeansStopped
<1>1. IInv => StopMeansStopped
  <2> SUFFICES ASSUME IInv, cmd \in {"s", "b"}, todo = <<>>
               PROVE  ~closed_loop_enable /\ \A m \in Motors : ~Turning(m)
    BY DEF StopMeansStopped
  <2>1. PICK x \in States : Rel(x) /\ Restful(x)
    BY Idle
  <2>2. x.loop = 0 /\ x.pwm[1] = 0 /\ x.pwm[2] = 0
    BY <2>1 DEF Rel, Restful
  <2>3. pwm[1] = 0 /\ pwm[2] = 0
    BY <2>1, <2>2, MotorsAre DEF Rel
  <2> QED BY <2>1, <2>2, <2>3 DEF Rel, Turning, Motors
<1> QED BY <1>1, MotorInvariant, PTL

\* While the loop is closed and uart_ctrl is idle, the motor the PID thread
\* regulates is the one that is driven, and the other one is not enabled.
THEOREM DrivesActive == Spec => []LoopDrivesActiveMotor
<1>1. IInv => LoopDrivesActiveMotor
  <2> SUFFICES ASSUME IInv, closed_loop_enable, todo = <<>>
               PROVE  /\ ena[Active] = 1 /\ ena[3 - Active] = 0
                      /\ Active \in found => pwm[Active] = 1
                      /\ dir[Active] = IF g_direction_reverse THEN 1 ELSE 0
    BY DEF LoopDrivesActiveMotor
  <2>1. PICK x \in States : Rel(x) /\ Restful(x)
    BY Idle
  <2>2. x.loop = 1 /\ x.ena = ena /\ x.dir = dir
    BY <2>1 DEF Rel
  <2>3. \A m \in Motors : m \in found => pwm[m] = x.pwm[m]
    BY <2>1 DEF Rel
  <2>4. CASE g_direction_reverse
    <3>1. x.rev = 1 /\ Active = 2 /\ 3 - Active = 1
      BY <2>1, <2>4 DEF Rel, Active
    <3>2. ena[2] = 1 /\ ena[1] = 0 /\ dir[2] = 1 /\ x.pwm[2] = 1
      BY <2>1, <2>2, <3>1 DEF Restful
    <3> QED BY <2>3, <2>4, <3>1, <3>2, MotorsAre
  <2>5. CASE ~g_direction_reverse
    <3>1. x.rev = 0 /\ Active = 1 /\ 3 - Active = 2
      <4>1. x.rev \in {0, 1}
        BY StateFacts
      <4> QED BY <2>1, <2>5, <4>1 DEF Rel, Active
    <3>2. ena[1] = 1 /\ ena[2] = 0 /\ dir[1] = 0 /\ x.pwm[1] = 1
      BY <2>1, <2>2, <3>1 DEF Restful
    <3> QED BY <2>3, <2>5, <3>1, <3>2, MotorsAre
  <2> QED BY <2>4, <2>5
<1> QED BY <1>1, MotorInvariant, PTL

\* What a busy uart_ctrl does next is permitted where it stands.
LEMMA Busy ==
    ASSUME IInv, todo # <<>>
    PROVE  \E x \in States : Rel(x) /\ Permitted(x, Head(todo))
<1>1. PICK x \in States, z \in States : Rel(x) /\ Plan(todo, x, z)
  BY DEF IInv, Planned
<1>2. PICK y \in States : Step(x, Head(todo), y)
  BY <1>1, FirstPlan
<1> QED BY <1>1, <1>2 DEF Step

\* uart_ctrl programs a timer only while the loop is open, the PID thread only
\* while it is closed.
THEOREM OneWriter == Spec => []OneWriterOfRates
<1>1. IInv => OneWriterOfRates
  <2> SUFFICES ASSUME IInv, todo # <<>>, Head(todo)[1] = "rate" PROVE ~closed_loop_enable
    BY DEF OneWriterOfRates
  <2>1. PICK x \in States : Rel(x) /\ Permitted(x, Head(todo))
    BY Busy
  <2>2. x.loop = 0
    BY <2>1 DEF Permitted
  <2> QED BY <2>1, <2>2 DEF Rel
<1> QED BY <1>1, MotorInvariant, PTL

\* When 'u' closes the loop the PID thread has seen it open since the last
\* run, and the timers are at the target speed: for every StopDelay that is
\* not below PidPeriod.
THEOREM HandsOver == Spec => SoftStartHandsOver
<1> DEFINE A == cmd = "u" /\ ~closed_loop_enable /\ closed_loop_enable' =>
                  /\ ~was_enabled
                  /\ found = Motors => rate[1] = TargetRpm(target_speed_mmps)
<1>1. IInv /\ [Next]_vars => A
  <2> SUFFICES ASSUME IInv, Next, cmd = "u", ~closed_loop_enable, closed_loop_enable'
               PROVE  /\ ~was_enabled
                      /\ found = Motors => rate[1] = TargetRpm(target_speed_mmps)
    BY DEF vars, loop
  <2>1. CtrlStep
    BY DEF Next, Ctrl, Receive, TakeCommand, PidStep, Tick, loop
  <2>2. todo # <<>> /\ ctrl_wait = 0 /\ pid_wait # 0 /\ Do(Head(todo))
    BY <2>1 DEF CtrlStep, PidReady
  <2>3. PICK x \in States : Rel(x) /\ Permitted(x, Head(todo))
    BY <2>2, Busy
  <2>4. Head(todo)[1] = "loop" /\ Head(todo)[3] = 1
    BY <2>2 DEF Do
  <2>5. x.calm = 1 /\ (found = Motors => x.set = TargetRpm(x.target))
    BY <2>3, <2>4 DEF Permitted, Rel
  <2>6. ~was_enabled
    <3>1. was_enabled => pid_wait <= ctrl_wait
      BY <2>3, <2>5 DEF Rel
    <3>2. pid_wait \in 0 .. PidPeriod /\ PidPeriod \in Nat
      BY MotorAssumption DEF IInv, TypeOK
    <3>3. ~(pid_wait <= ctrl_wait)
      BY <2>2, <3>2
    <3> QED BY <3>1, <3>3
  <2>7. ASSUME found = Motors PROVE rate[1] = TargetRpm(target_speed_mmps)
    <3>1. TargetRpm(x.target) \in 0 .. MAX_RPM
      BY StateFacts, TargetRange
    <3>2. x.set # -1
      BY <2>5, <2>7, <3>1 DEF MAX_RPM
    <3> QED BY <2>3, <2>5, <2>7, <3>2 DEF Rel
  <2> QED BY <2>6, <2>7
<1>2. Spec => [][A]_vars
  BY <1>1, MotorInvariant, PTL DEF Spec
<1> QED BY <1>2 DEF SoftStartHandsOver

----------------------------------------------------------------------------
(* Stopping.                                                               *)

\* Writes that start nothing: no output on, no driver enabled, no closed loop.
Halting ==
    {op \in Ops : /\ op[1] \in {"wait", "loop", "run", "pwm", "buzzer"}
                  /\ op[1] \in {"loop", "run", "pwm"} => op[3] = 0}
StopLeft == cmd \in {"s", "b"} => todo \in Seq(Halting)

\* The single writes 's' and 'b' are made of.
LEMMA HaltingWrites ==
    ASSUME NEW m \in Motors, NEW v \in {0, 1}, NEW d \in Nat
    PROVE  /\ Loop(0) \in Seq(Halting) /\ Run(0) \in Seq(Halting) /\ Pwm(m, 0) \in Seq(Halting)
           /\ Buzzer(v) \in Seq(Halting) /\ Wait(d) \in Seq(Halting)
<1>1. /\ <<"loop", 0, 0>> \in Halting /\ <<"run", 0, 0>> \in Halting
      /\ <<"pwm", m, 0>> \in Halting
  BY DEF Halting, Ops, Kinds, Motors
<1>2. <<"buzzer", 0, v>> \in Halting /\ <<"wait", 0, d>> \in Halting
  BY DEF Halting, Ops, Kinds
<1> QED BY <1>1, <1>2 DEF Loop, Run, Pwm, Buzzer, Wait

\* 's' and 'b' have no other writes.
LEMMA StopScripts ==
    ASSUME NEW c \in {"s", "b"}
    PROVE  Script(c) \in Seq(Halting)
<1>1. /\ Loop(0) \in Seq(Halting) /\ Run(0) \in Seq(Halting)
      /\ Pwm(1, 0) \in Seq(Halting) /\ Pwm(2, 0) \in Seq(Halting)
      /\ Buzzer(0) \in Seq(Halting) /\ Buzzer(1) \in Seq(Halting)
      /\ Wait(BeepTime) \in Seq(Halting)
  BY HaltingWrites, MotorsAre, MotorAssumption
<1>2. \A s, t \in Seq(Halting) : s \o t \in Seq(Halting)
  BY ConcatProperties
<1>3. motor_continuous_stop \in Seq(Halting)
  BY <1>1, <1>2 DEF motor_continuous_stop
<1>4. OpenLoop \in Seq(Halting)
  <2>1. <<>> \in Seq(Halting)
    OBVIOUS
  <2> QED BY <1>1, <2>1 DEF OpenLoop
<1>5. Stop \in Seq(Halting)
  BY <1>2, <1>3, <1>4 DEF Stop
<1>6. Begin \in Seq(Halting)
  BY <1>1, <1>2, <1>3, <1>4 DEF Begin
<1>7. Script("s") = Stop /\ Script("b") = Begin
  BY DEF Script
<1> QED BY <1>5, <1>6, <1>7

\* While 's' or 'b' is handled what starts a motor is not among what is left.
LEMMA StopLeftKept == StopLeft /\ [Next]_vars => StopLeft'
<1> SUFFICES ASSUME StopLeft, [Next]_vars, cmd' \in {"s", "b"}
             PROVE  todo' \in Seq(Halting)
  BY DEF StopLeft
<1>1. CASE TakeCommand
  <2>1. todo' = Script(cmd')
    BY <1>1 DEF TakeCommand
  <2> QED BY <2>1, StopScripts
<1>2. CASE CtrlStep
  <2>1. todo \in Seq(Halting) /\ todo # <<>> /\ todo' = Tail(todo)
    BY <1>2 DEF CtrlStep, StopLeft
  <2> QED BY <2>1, HeadTailProperties
<1>3. CASE cmd' = cmd /\ todo' = todo
  BY <1>3 DEF StopLeft
<1> QED BY <1>1, <1>2, <1>3 DEF Next, Ctrl, Receive, PidStep, Tick, vars, thread

\* Nothing starts in this step: no motor turns that did not, and the loop is
\* not closed.
NothingStarts ==
    /\ \A m \in Motors : Turning(m)' => Turning(m)
    /\ closed_loop_enable' => closed_loop_enable

\* From the moment uart_ctrl reads 's' or 'b' until it reads its next command,
\* nothing starts, whatever the PID thread does between its writes and however
\* long the beep of 'b' lasts.  With StopMeansStopped this is why the line may
\* take a stop to be a single step (InspectionLine).
THEOREM StopNeverStarts == Spec => [][cmd' \in {"s", "b"} => NothingStarts]_vars
<1>1. Init => StopLeft
  BY DEF Init, StopLeft
<1>2. IInv /\ StopLeft /\ [Next]_vars => [cmd' \in {"s", "b"} => NothingStarts]_vars
  <2> SUFFICES ASSUME IInv, StopLeft, Next, cmd' \in {"s", "b"} PROVE NothingStarts
    OBVIOUS
  <2>1. CASE CtrlStep
    <3>1. todo \in Seq(Halting) /\ todo # <<>> /\ Do(Head(todo)) /\ found' = found
      BY <2>1 DEF CtrlStep, StopLeft
    <3>2. Head(todo) \in Halting
      BY <3>1, HeadTailProperties
    <3>3. PICK op \in Halting : op = Head(todo)
      BY <3>2
    <3>4. /\ op[1] \in {"wait", "loop", "run", "pwm", "buzzer"}
          /\ op[1] \in {"loop", "run", "pwm"} => op[3] = 0
      BY DEF Halting
    <3>5. ena' = ena
      BY <3>1, <3>3, <3>4 DEF Do
    <3>6. pwm \in [Motors -> {0, 1}]
      BY DEF IInv, TypeOK
    <3>7. \A m \in Motors : pwm'[m] = 1 => pwm[m] = 1
      BY <3>1, <3>3, <3>4, <3>6 DEF Do
    <3>8. closed_loop_enable' => closed_loop_enable
      <4>1. closed_loop_enable' = IF op[1] = "loop" THEN op[3] = 1 ELSE closed_loop_enable
        BY <3>1, <3>3 DEF Do
      <4>2. op[1] = "loop" => ~(op[3] = 1)
        BY <3>4
      <4> QED BY <4>1, <4>2
    <3> QED BY <3>5, <3>7, <3>8 DEF NothingStarts, Turning
  <2>2. CASE UNCHANGED <<ena, pwm, closed_loop_enable>>
    BY <2>2 DEF NothingStarts, Turning
  <2> QED BY <2>1, <2>2 DEF Next, Ctrl, TakeCommand, Receive, PidStep, Tick, outputs, loop
<1> QED BY <1>1, <1>2, StopLeftKept, MotorInvariant, PTL DEF Spec

----------------------------------------------------------------------------
(* The registers of the timers.                                            *)

\* Every speed fits the 16-bit registers of its timer, for every clock up to
\* 1000 MHz and every number of microsteps.
THEOREM RegistersAlwaysFit == Spec => []RegistersFit
<1> DEFINE Fits(reg) == /\ reg.psc \in 0 .. U16_MAX /\ reg.arr \in 0 .. U16_MAX
                        /\ reg.ccr \in 0 .. reg.arr
<1>1. ASSUME NEW r \in Nat PROVE Fits(drv_pwm_set(r))
  <2>1. PICK period \in Nat, pulse \in Nat :
          /\ drv_pwm_set(r) = [psc |-> Scale(r) - 1, arr |-> period - 1, ccr |-> pulse - 1]
          /\ Scale(r) \in 1 .. MAX_PERIOD + 1
          /\ period \in 3 .. MAX_PERIOD /\ pulse \in 2 .. period
    BY <1>1, Registers
  <2>2. U16_MAX = MAX_PERIOD /\ MAX_PERIOD \in Nat
    BY SMT DEF MAX_PERIOD, U16_MAX
  <2>3. /\ Scale(r) - 1 \in 0 .. U16_MAX /\ period - 1 \in 0 .. U16_MAX
        /\ pulse - 1 \in 0 .. period - 1
    BY <2>1, <2>2
  <2> QED BY <2>1, <2>3
<1>2. RegistersFit <=> \A m \in Motors : Fits(drv_pwm_set(rate[m]))
  BY DEF RegistersFit
<1> HIDE DEF Fits
<1>3. TypeOK => RegistersFit
  <2>1. TypeOK => rate \in [Motors -> 0 .. MAX_RPM]
    BY DEF TypeOK
  <2>2. \A k \in 0 .. MAX_RPM : k \in Nat
    BY DEF MAX_RPM
  <2>3. TypeOK => \A m \in Motors : rate[m] \in Nat
    BY <2>1, <2>2
  <2> QED BY <1>1, <1>2, <2>3
<1> QED BY <1>3, MotorTypeCorrect, PTL

\* On the board's timers (PwmDriver's constants as in main.c and drv_pwm.c),
\* every speed the motors are ever given makes as many steps as it asks for, in
\* a control period of the PID thread and when it is one or two periods late,
\* whatever the PID terms and the delays are.
THEOREM StepsAlwaysFollow ==
    Board /\ Gaps \subseteq BoardGaps => (Spec => []StepsFollowCommand)
<1> SUFFICES ASSUME Board, Gaps \subseteq BoardGaps
             PROVE  Spec => []StepsFollowCommand
  OBVIOUS
<1>1. StepsFollowCommand <=> \A m \in Motors, g \in Gaps : Follows(rate[m], g)
  BY DEF StepsFollowCommand, Follows
<1>2. TypeOK => StepsFollowCommand
  <2>1. TypeOK => rate \in [Motors -> BoardSpeeds]
    BY DEF TypeOK, MAX_RPM, BoardSpeeds
  <2>2. TypeOK => \A m \in Motors : rate[m] \in BoardSpeeds
    BY <2>1
  <2> QED BY <1>1, <2>2, BoardSteps
<1> QED BY <1>2, MotorTypeCorrect, PTL
=============================================================================
