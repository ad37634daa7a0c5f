--------------------------- MODULE InspectionLine ---------------------------
(***************************************************************************)
(* The inspection line: the camera program (Camera), the command thread    *)
(* of the board, the operator at the LCD and the web of cloth.             *)
(*                                                                         *)
(* The board serves the camera's bytes before the operator's (uart_ctrl    *)
(* reads uart4 first), in the same switch: the operator may start, reverse *)
(* and jog the motors at any time.  A command takes effect in one step     *)
(* here, a jog in two; MotorControl has its single writes.  The web moves  *)
(* while it is driven, the sensor sees the defect at the web's position    *)
(* and the light barrier is low at the end of the cloth; now and then      *)
(* either is mistaken.                                                     *)
(***************************************************************************)
EXTENDS Camera, Integers

CONSTANTS
    Length,         \* position of the end of the cloth
    Defects,        \* positions of defects
    Keys,           \* the operator's; "jog" is any of hayzdxpq, "other" moves nothing
    MaxBegins,      \* bound on presses of 'b'
    MAX_GLITCHES    \* bound on wrong readings of sensor and light barrier

ASSUME LineAssumption ==
    /\ Length \in Nat \ {0} /\ Defects \subseteq 0 .. Length
    /\ Keys \subseteq {"b", "s", "u", "o", "t", "jog", "other"}
    /\ MaxBegins \in Nat \ {0} /\ MAX_GLITCHES \in Nat

VARIABLES
    keys,           \* the operator's byte that waits in uart2, if any
    driven,         \* "no", or how a motor pulls the web: "fwd", "back" or "jog"
    pos,            \* of the web
    order,          \* history: the last motor command of the camera handled,
    byOperator,     \* the web moves by a later command of the operator,
    ended,          \* and the end of the cloth has come by in this round
    begins, rounds, \* history: 'b' handled, rounds started
    glitches        \* and wrong readings so far

web   == <<driven, pos, order, byOperator, ended>>
line  == <<keys, web, begins, rounds, glitches>>
lvars == <<vars, line>>

LineInit ==
    /\ Init
    /\ keys = <<>> /\ driven = "no" /\ pos = 0
    /\ order = "s" /\ byOperator = FALSE /\ ended = FALSE
    /\ begins = 0 /\ rounds = 0 /\ glitches = 0

\* Plausible coding errors: variants of the definitions below, used only to
\* show that the properties of this module notice them.
NoAnswer(b) == 0
\* motor_continuous_stop acts only if g_motor_run, which 'o' does not set.
StopsForwardOnly(b) ==
    CASE b \in {"u", "t"} -> "fwd"
      [] b = "o"          -> "back"
      [] b = "jog"        -> "jog"
      [] b \in {"s", "b"} /\ driven # "back" -> "no"
      [] OTHER            -> driven

\* The effect of a command byte on the web.
Driven(b) ==
    CASE b \in {"u", "t"} -> "fwd"
      [] b = "o"          -> "back"
      [] b = "jog"        -> "jog"
      [] b \in {"s", "b"} -> "no"
      [] OTHER            -> driven

\* 'b' answers "pp" to the camera.
Answer(b) == IF b = "b" THEN 2 ELSE 0

\* uart_ctrl handles the next byte, unless it is still busy with a jog.
Handle(b) ==
    /\ driven # "jog" /\ driven' = Driven(b)
    /\ rx + Answer(b) <= MaxRx /\ rx' = rx + Answer(b)
    /\ begins' = IF b = "b" THEN begins + 1 ELSE begins
    /\ UNCHANGED <<pc, counts, timer, files, restarts, round, holding, pos, ended, rounds,
                   glitches>>
HandleCamera ==
    /\ out # <<>> /\ Handle(Head(out)) /\ out' = Tail(out)
    /\ \/ Head(out) \in {"u", "s"} /\ order' = Head(out) /\ byOperator' = FALSE
       \/ Head(out) \notin {"u", "s"} /\ UNCHANGED <<order, byOperator>>
    /\ UNCHANGED keys
HandleKey ==
    /\ out = <<>> /\ keys # <<>> /\ Handle(Head(keys)) /\ keys' = <<>>
    /\ byOperator' = (driven' # "no" /\ (Head(keys) # "other" \/ byOperator))
    /\ UNCHANGED <<out, order>>

\* motor_move_steps stops the motor that it started.
JogEnds ==
    /\ driven = "jog" /\ driven' = "no" /\ byOperator' = FALSE
    /\ UNCHANGED <<vars, keys, pos, order, ended, begins, rounds, glitches>>

\* The operator presses a key.
Press(k) ==
    /\ keys = <<>> /\ keys' = <<k>>
    /\ k = "b" => begins < MaxBegins
    /\ UNCHANGED <<vars, web, begins, rounds, glitches>>

\* The web moves a step forward or back.
Move(step) ==
    /\ driven = "jog" \/ driven = (IF step = 1 THEN "fwd" ELSE "back")
    /\ pos + step \in 0 .. Length /\ pos' = pos + step
    /\ ended' = (ended \/ pos' = Length)
    /\ UNCHANGED <<vars, keys, driven, order, byOperator, begins, rounds, glitches>>
Advance == \E step \in {-1, 1} : Move(step)

\* New cloth is put in while the line stands and the camera waits.
Reload ==
    /\ pc = "wait" /\ rx = 0 /\ driven = "no" /\ pos' = 0
    /\ UNCHANGED <<vars, keys, driven, order, byOperator, ended, begins, rounds, glitches>>

\* A reading that is not what the web shows.
Misread(blob, low) ==
    \/ pc = "look" /\ blob # (pos \in Defects)
    \/ pc = "door" /\ low # (pos = Length)

CameraActs ==
    /\ \E blob, low \in BOOLEAN :
          /\ Misread(blob, low) => glitches < MAX_GLITCHES
          /\ CameraStep(blob, low)
          /\ glitches' = IF Misread(blob, low) THEN glitches + 1 ELSE glitches
    /\ rounds' = IF pc = "wait" THEN rounds + 1 ELSE rounds
    /\ ended' = IF pc = "wait" THEN pos = Length ELSE ended
    /\ UNCHANGED <<keys, driven, pos, order, byOperator, begins>>
CameraTicks    == Tick /\ UNCHANGED line
CameraRestarts == Restart /\ UNCHANGED line

Board == HandleCamera \/ HandleKey \/ JogEnds

LineNext ==
    \/ CameraActs \/ CameraTicks \/ CameraRestarts
    \/ Board
    \/ \E k \in Keys : Press(k)
    \/ Advance \/ Reload

LineSpec == LineInit /\ [][LineNext]_lvars

\* The camera's loop has no exit, its timer ticks, uart_ctrl gets the
\* processor, a jog is a delay of fixed length and a driven web moves.  The
\* operator need not do anything.
FairLine ==
    /\ LineSpec
    /\ WF_lvars(CameraActs) /\ WF_lvars(CameraTicks)
    /\ WF_lvars(Board) /\ WF_lvars(Advance)

----------------------------------------------------------------------------
(* Properties.                                                             *)

\* 'b' sends two bytes and any byte starts a round, yet each press of 'b'
\* starts at most one: the camera drops what it did not need.
NoPhantomRound == rounds <= begins

\* While the web is photographed, while the photos are announced and sent, and
\* while the camera waits for its start signal, the last order of the camera
\* that the board obeyed is a stop, and nothing has set the web moving since but
\* the operator's own keys: what the operator started before, in whatever order
\* the two senders' bytes came, is overruled.  This includes the round after a
\* restart of the camera, but not the wait: in mid-round it restarts without a stop.
WebStandsStill ==
    out = <<>> /\ (pc \in {"resume", "announce", "close", "frame"} \/ (pc = "wait" /\ restarts = 0))
        => order = "s" /\ (driven = "no" \/ byOperator)

\* A press of 'b' while the camera waits for it ("begin inspecting", main.c,
\* case 'b') leads to a round that is carried through to its end, unless the
\* camera restarts (nothing else takes it to "reset" but the end of a round) or
\* the operator interferes with a further key.  (A 'b' pressed in any other phase
\* stops the web and starts nothing.)
Waiting == pc = "wait" /\ rx = 0 /\ out = <<>>
BeginLeadsToReport ==
    keys = <<"b">> /\ Waiting ~> pc \in {"drain", "reset"} \/ (keys # <<>> /\ ~Waiting)

\* One false reading of the light barrier never ends the detection unless the
\* end of the cloth has come by in this round (the operator may have moved the
\* web back since).
NoFalseEnd == pc = "stop" /\ glitches <= 1 => ended
=============================================================================
