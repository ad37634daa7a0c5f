---------------------------- MODULE BatchSender ----------------------------
(***************************************************************************)
(* What the camera promises on its lines to the board: a batch is announced*)
(* completely before it is closed, closed once, and then every announced   *)
(* picture is tried exactly once.  A picture that fails is neither repeated*)
(* nor reported, so that fewer pictures than announced may arrive (a round *)
(* of the board then stays short, see InspectionRound), never more.  Only  *)
(* a restart of the camera abandons a batch.                               *)
(***************************************************************************)
EXTENDS Naturals

VARIABLES
    opens,      \* announcements '(' of this batch
    closed,     \* ')' has been sent
    frames,     \* pictures sent
    unsent,     \* pictures that failed
    restarted   \* the camera has restarted

bvars == <<opens, closed, frames, unsent, restarted>>

BInit == opens = 0 /\ closed = FALSE /\ frames = 0 /\ unsent = 0 /\ restarted = FALSE

Announce ==
    /\ ~closed /\ opens' = opens + 1
    /\ UNCHANGED <<closed, frames, unsent, restarted>>

Close ==
    /\ ~closed /\ opens > 0 /\ closed' = TRUE
    /\ UNCHANGED <<opens, frames, unsent, restarted>>

Pending == closed /\ frames + unsent < opens
Picture == Pending /\ frames' = frames + 1 /\ UNCHANGED <<opens, closed, unsent, restarted>>
GiveUp  == Pending /\ unsent' = unsent + 1 /\ UNCHANGED <<opens, closed, frames, restarted>>

\* Every picture has been tried, or a restart abandons the batch.
Finish ==
    /\ restarted \/ (closed /\ frames + unsent = opens)
    /\ opens' = 0 /\ closed' = FALSE /\ frames' = 0 /\ unsent' = 0
    /\ UNCHANGED restarted

Restarts == restarted' = TRUE /\ UNCHANGED <<opens, closed, frames, unsent>>

BSpec == BInit /\ [][Announce \/ Close \/ Picture \/ GiveUp \/ Finish \/ Restarts]_bvars
=============================================================================
