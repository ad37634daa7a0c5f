------------------------- MODULE InspectionService -------------------------
(***************************************************************************)
(* What the inspection line promises its user: a batch of photos is        *)
(* submitted, and later reported, complete and in order, before the next   *)
(* one is accepted.  A photo is the defect class found on it.              *)
(***************************************************************************)
EXTENDS Sequences

CONSTANT Batches            \* the non-empty sequences of classes

VARIABLES pending,          \* the batch that is owed a report, or <<>>
          reported          \* the results last reported

Init == pending = <<>> /\ reported = <<>>

Submit ==
    /\ pending = <<>>
    /\ pending' \in Batches
    /\ UNCHANGED reported

Report ==
    /\ pending # <<>>
    /\ reported' = pending
    /\ pending' = <<>>

Next == Submit \/ Report

\* A batch that was submitted is reported.
Spec == Init /\ [][Next]_<<pending, reported>> /\ WF_<<pending, reported>>(Report)
=============================================================================
