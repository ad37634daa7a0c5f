------------------------------- MODULE Camera -------------------------------
(***************************************************************************)
(* The camera program, OpenMV/all_endhaha.py: wait for a start byte, watch *)
(* the running web, photograph what looks like a defect, ignore the next   *)
(* HoldOff ticks of the 100 Hz timer, and, when the light barrier closes,  *)
(* announce the photos and send them.  pc is the place in the main loop.   *)
(*                                                                         *)
(* The timer's callback (Tick) interrupts the program between any two      *)
(* statements.  Restart is a reset or an uncaught exception: the program   *)
(* begins anew, the files of earlier photos stay on the card.              *)
(* What the sensor sees (blob) and the light barrier says (low) are inputs;*)
(* InspectionLine supplies them, the board and the behaviours.             *)
(***************************************************************************)
EXTENDS Naturals, Sequences

CONSTANTS
    HoldOff,        \* ticks a detection is followed by (80)
    Slip,           \* ticks that may pass while lines 192 to 195 execute
    MaxCount,       \* bound on count
    MaxPhotos,      \* bound on the photos of a round
    MaxRx, MaxOut,  \* bounds on the bytes waiting for camera and board
    MAX_RESTARTS,   \* bound on restarts
    BoardInTime     \* a photo is taken after the board has handled the bytes

ASSUME CameraAssumption ==
    /\ HoldOff \in Nat \ {0} /\ Slip \in Nat /\ Slip < HoldOff
    /\ MaxCount \in Nat /\ MaxCount >= HoldOff
    /\ MaxPhotos \in Nat \ {0} /\ MaxRx \in Nat \ {0} /\ MaxOut \in Nat \ {0}
    /\ MAX_RESTARTS \in Nat /\ BoardInTime \in BOOLEAN

VARIABLES
    pc,
    count, flag, i, image_num, image_trans_num, stable_low,
    timer,              \* the callback is installed
    rx,                 \* bytes waiting in uart3
    out,                \* bytes sent to the board and not yet handled
    files,              \* compressed/<k>.pgm: of this round, older, or not there
    restarts,
    \* History of the round and of the current hold-off.
    opens, closed,      \* announcements '(', and ')' was sent
    frames, unsent,     \* announced photos sent, and given up
    allNew, hold, slipped

round   == <<opens, closed, frames, unsent, allNew>>
holding == <<hold, slipped>>
counts  == <<count, flag, i, image_num, image_trans_num, stable_low>>
vars    == <<pc, counts, timer, rx, out, files, restarts, round, holding>>

Photos == 1 .. MaxPhotos

Init ==
    /\ pc = "reset"
    /\ count = 0 /\ flag = 1 /\ i = 0 /\ image_num = 0 /\ image_trans_num = 1
    /\ stable_low = 0 /\ timer = FALSE
    /\ rx = 0 /\ out = <<>>
    /\ files \in [Photos -> {"none", "old"}]
    /\ restarts = 0
    /\ opens = 0 /\ closed = FALSE /\ frames = 0 /\ unsent = 0 /\ allNew = TRUE
    /\ hold = 0 /\ slipped = 0

Goto(p, q) == pc = p /\ pc' = q

\* uart3.write
Send(b) == Len(out) < MaxOut /\ out' = Append(out, b)

\* Plausible coding errors: variants of the definitions below, used only to
\* show that the properties of this module notice them.
LeftRunning    == timer
KeptNumber     == image_num
KeptCount      == count
KeptIndex      == i
LeftInBuffer   == rx
EarlyClose(k)  == k > 0
FirstLow(n)    == n >= 1

\* tim.callback(None) before the transmission (lines 211, 228).
TimerOff == FALSE
\* uart3.read(): whatever has been received is dropped.
Emptied == 0
\* The values the main loop starts with.
NoPhotos      == 0
NoneAnnounced == 0
\* count = 0 at the end of a hold-off.
Rearmed == 0

----------------------------------------------------------------------------
(* Waiting for the start byte.                                             *)

Reset ==
    /\ Goto("reset", "quiet")
    /\ count' = 0 /\ flag' = 1 /\ i' = NoneAnnounced /\ image_num' = NoPhotos
    /\ image_trans_num' = 1 /\ stable_low' = 0
    /\ files' = [k \in Photos |-> IF files[k] = "new" THEN "old" ELSE files[k]]
    /\ opens' = 0 /\ closed' = FALSE /\ frames' = 0 /\ unsent' = 0 /\ allNew' = TRUE
    /\ hold' = 0 /\ slipped' = 0
    /\ UNCHANGED <<timer, rx, out, restarts>>

\* The timer is switched off, old input dropped, servo and sensor reset.
Quiet ==
    /\ Goto("quiet", "wait")
    /\ timer' = FALSE /\ rx' = Emptied
    /\ UNCHANGED <<counts, out, files, restarts, round, holding>>

\* One byte, whichever it is, starts the round.
Start ==
    /\ Goto("wait", "reply")
    /\ rx > 0 /\ rx' = rx - 1
    /\ UNCHANGED <<counts, timer, out, files, restarts, round, holding>>

Reply ==
    /\ Goto("reply", "look")
    /\ Send("u")
    /\ UNCHANGED <<counts, timer, rx, files, restarts, round, holding>>

----------------------------------------------------------------------------
(* The detection loop.                                                     *)

\* A snapshot; a blob of the right size is noticed only while flag is set.
Look(blob) ==
    /\ \/ /\ flag = 1 /\ blob /\ image_num < MaxPhotos
          /\ Goto("look", "shoot")
          /\ Send("s")
          /\ image_num' = image_num + 1
       \/ /\ flag = 0 \/ ~blob \/ image_num = MaxPhotos
          /\ Goto("look", "hold")
          /\ UNCHANGED <<out, image_num>>
    /\ UNCHANGED <<count, flag, i, image_trans_num, stable_low, timer, rx, files,
                   restarts, round, holding>>

\* The servo marks the place, both pictures are taken and saved.
Shoot ==
    /\ Goto("shoot", "resume")
    /\ BoardInTime => out = <<>>
    /\ files' = [files EXCEPT ![image_num] = "new"]
    /\ UNCHANGED <<counts, timer, rx, out, restarts, round, holding>>

Resume ==
    /\ Goto("resume", "hold")
    /\ flag' = 0
    /\ Send("u")
    /\ timer' = TRUE
    /\ hold' = 0 /\ slipped' = 0
    /\ UNCHANGED <<count, i, image_num, image_trans_num, stable_low, rx, files, restarts, round>>

\* if count >= 80: count and flag first, the callback afterwards.
Hold ==
    /\ \/ /\ count >= HoldOff
          /\ Goto("hold", "unhook")
          /\ count' = Rearmed /\ flag' = 1
       \/ /\ count < HoldOff
          /\ Goto("hold", "door")
          /\ UNCHANGED <<count, flag>>
    /\ UNCHANGED <<i, image_num, image_trans_num, stable_low, timer, rx, out, files,
                   restarts, round, holding>>

Unhook ==
    /\ Goto("unhook", "door")
    /\ timer' = FALSE
    /\ hold' = 0 /\ slipped' = 0
    /\ UNCHANGED <<counts, rx, out, files, restarts, round>>

\* The light barrier must be low in two consecutive turns of the loop.
Debounced(n) == n >= 2
Door(low) ==
    /\ stable_low' = IF low THEN stable_low + 1 ELSE 0
    /\ \/ /\ low /\ Debounced(stable_low + 1)
          /\ Goto("door", "stop")
          /\ Send("s")
       \/ /\ ~(low /\ Debounced(stable_low + 1))
          /\ Goto("door", "look")
          /\ UNCHANGED out
    /\ UNCHANGED <<count, flag, i, image_num, image_trans_num, timer, rx, files, restarts,
                   round, holding>>

----------------------------------------------------------------------------
(* The transmission.                                                       *)

Stop ==
    /\ Goto("stop", "next")
    /\ timer' = TimerOff
    /\ Send("s")
    /\ UNCHANGED <<counts, rx, files, restarts, round, holding>>

\* while image_trans_num <= image_num
More(k, n) == k <= n
NextPhoto ==
    /\ \/ More(image_trans_num, image_num) /\ Goto("next", "announce") /\ Send("s")
       \/ ~More(image_trans_num, image_num) /\ Goto("next", "drain") /\ UNCHANGED out
    /\ UNCHANGED <<counts, timer, rx, files, restarts, round, holding>>

\* The inner loop runs before the first picture and closes after the last '('.
AllAnnounced(k) == k = image_num
AnnounceOne ==
    /\ \/ /\ i < image_num
          /\ Goto("announce", IF AllAnnounced(i + 1) THEN "close" ELSE "announce")
          /\ Send("(")
          /\ i' = i + 1 /\ opens' = opens + 1
       \/ /\ i >= image_num
          /\ Goto("announce", "frame")
          /\ UNCHANGED <<out, i, opens>>
    /\ UNCHANGED <<count, flag, image_num, image_trans_num, stable_low, timer, rx, files,
                   restarts, closed, frames, unsent, allNew, holding>>
CloseBatch ==
    /\ Goto("close", "announce")
    /\ Send(")")
    /\ closed' = TRUE
    /\ UNCHANGED <<counts, timer, rx, files, restarts, opens, frames, unsent, allNew,
                   holding>>

\* send_frame writes the whole picture, or gives it up: the file cannot be read,
\* has the wrong size, or a write raises (FrameReceiver has the broken frame).
\* The caller is not told and goes on to the next picture.
send_frame(file) ==
    \/ file # "none" /\ frames' = frames + 1 /\ allNew' = (allNew /\ file = "new")
       /\ UNCHANGED unsent
    \/ unsent' = unsent + 1 /\ UNCHANGED <<frames, allNew>>
Frame ==
    /\ Goto("frame", "next")
    /\ timer' = TimerOff
    /\ send_frame(files[image_trans_num])
    /\ image_trans_num' = image_trans_num + 1
    /\ UNCHANGED <<count, flag, i, image_num, stable_low, rx, out, files, restarts,
                   opens, closed, holding>>

\* The end of the loop: input is dropped, the motors are stopped again.
Drain ==
    /\ Goto("drain", "reset")
    /\ rx' = Emptied
    /\ Send("s")
    /\ UNCHANGED <<counts, timer, files, restarts, round, holding>>

----------------------------------------------------------------------------
(* Interrupts and faults.                                                  *)

Tick ==
    /\ timer /\ count < MaxCount
    /\ pc = "unhook" => slipped < Slip
    /\ count' = count + 1
    /\ hold' = IF hold < HoldOff THEN hold + 1 ELSE hold
    /\ slipped' = IF pc = "unhook" THEN slipped + 1 ELSE slipped
    /\ UNCHANGED <<pc, flag, i, image_num, image_trans_num, stable_low, rx, out, files,
                   restarts, timer, round>>

Restart ==
    /\ restarts < MAX_RESTARTS /\ restarts' = restarts + 1
    /\ pc' = "reset" /\ count' = 0 /\ timer' = FALSE /\ rx' = 0
    /\ flag' = 1 /\ i' = 0 /\ image_num' = 0 /\ image_trans_num' = 1 /\ stable_low' = 0
    /\ UNCHANGED <<out, files, round, holding>>

CameraStep(blob, low) ==
    \/ Reset \/ Quiet \/ Start \/ Reply
    \/ Look(blob) \/ Shoot \/ Resume \/ Hold \/ Unhook \/ Door(low)
    \/ Stop \/ NextPhoto \/ AnnounceOne \/ CloseBatch \/ Frame \/ Drain

----------------------------------------------------------------------------
(* Properties.                                                             *)

\* Types, and the photo numbers stay within what was counted.
TypeOK ==
    /\ pc \in {"reset", "quiet", "wait", "reply", "look", "shoot", "resume", "hold", "unhook",
               "door", "stop", "next", "announce", "close", "frame", "drain"}
    /\ count \in 0 .. MaxCount /\ flag \in {0, 1}
    /\ image_num \in 0 .. MaxPhotos /\ i \in 0 .. image_num
    /\ image_trans_num \in 1 .. image_num + 1 /\ stable_low \in 0 .. 2
    /\ timer \in BOOLEAN /\ rx \in 0 .. MaxRx
    /\ out \in Seq({"u", "s", "(", ")"}) /\ Len(out) <= MaxOut
    /\ files \in [Photos -> {"none", "old", "new"}]

\* A round starts with the timer off and no ticks counted, whatever phase the
\* last one was left in and wherever the timer interrupted: otherwise its
\* first hold-off would be cut short ("avoid a residue of count").
RoundStartsClean == pc = "wait" => ~timer /\ count = 0

\* Detection is armed again only after HoldOff ticks, less those that slipped
\* in between the reset of count and the removal of the callback.
HoldOffLasts == pc = "unhook" => hold + Slip >= HoldOff

\* The pictures sent are photos of this round, although the card still holds
\* those of earlier rounds and of rounds cut off by a restart.
PicturesAreOfThisRound == allNew

\* On the two lines to the board the camera keeps to its protocol: all photos
\* announced before the one ')', then each of them tried exactly once, whichever
\* of them send_frame gives up, and no batch left unfinished but by a restart.
Batch == INSTANCE BatchSender WITH restarted <- restarts > 0
BehavesAsBatchSender == Batch!BSpec
=============================================================================
