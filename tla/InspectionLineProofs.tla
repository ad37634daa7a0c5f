------------------------ MODULE InspectionLineProofs ------------------------
(***************************************************************************)
(* Proofs about the inspection line (Camera and InspectionLine) for every  *)
(* hold-off, number of photos, length of cloth, set of defects, whatever   *)
(* keys the operator has and however often the camera restarts, fails to   *)
(* send a picture or is misled.                                            *)
(***************************************************************************)
EXTENDS InspectionLine, SequenceTheorems, TLAPS

\* Places in the camera's main loop.
Opening   == {"reset", "quiet", "wait", "reply"}
Detecting == {"look", "shoot", "resume", "hold", "door"}
Sending   == {"next", "announce", "close", "frame", "drain"}

Bytes   == {"u", "s", "(", ")"}
AllKeys == {"b", "s", "u", "o", "t", "jog", "other"}

----------------------------------------------------------------------------
(* The inductive invariant.                                                *)

\* The types, first of the Boolean variables and then of the others.
Flags ==
    /\ timer \in BOOLEAN /\ closed \in BOOLEAN /\ allNew \in BOOLEAN
    /\ byOperator \in BOOLEAN /\ ended \in BOOLEAN
Ranges ==
    /\ pc \in Opening \cup Detecting \cup Sending \cup {"unhook", "stop"}
    /\ count \in 0 .. MaxCount /\ flag \in {0, 1}
    /\ image_num \in 0 .. MaxPhotos /\ i \in 0 .. image_num
    /\ image_trans_num \in 1 .. image_num + 1 /\ stable_low \in 0 .. 2
    /\ rx \in 0 .. MaxRx
    /\ out \in Seq(Bytes) /\ Len(out) <= MaxOut
    /\ files \in [Photos -> {"none", "old", "new"}]
    /\ opens \in Nat /\ frames \in Nat /\ unsent \in Nat
    /\ hold \in 0 .. HoldOff /\ slipped \in 0 .. Slip /\ restarts \in 0 .. MAX_RESTARTS
    /\ pos \in 0 .. Length /\ begins \in Nat /\ rounds \in Nat /\ glitches \in Nat
    /\ driven \in {"no", "fwd", "back", "jog"} /\ order \in {"u", "s"}
    /\ keys \in {<<>>} \cup {<<k>> : k \in AllKeys}

\* The timer runs only from the end of a photo to the end of its hold-off,
\* and flag says which of the two detection is in.
TimerFollowsFlag ==
    /\ pc \in Opening \cup Sending => ~timer
    /\ pc \in {"quiet", "wait", "reply"} => count = 0
    /\ pc \in {"shoot", "resume"} => flag = 1
    /\ pc \in {"quiet", "wait", "reply"} => flag = 1
    /\ pc \in Detecting /\ flag = 1 => ~timer /\ count <= Slip
    /\ pc \in Detecting /\ flag = 0 => slipped = 0 /\ (count <= hold + Slip \/ hold = HoldOff)
    /\ pc = "unhook" => hold + Slip >= HoldOff /\ count <= slipped /\ flag = 1

\* Where the camera is in its batch.
BatchFollowsPc ==
    /\ pc \in {"quiet", "wait", "reply"} \cup Detecting \cup {"unhook", "stop"} =>
           /\ opens = 0 /\ ~closed /\ frames = 0 /\ unsent = 0
           /\ i = 0 /\ image_trans_num = 1
    /\ pc \in {"quiet", "wait", "reply"} => image_num = 0
    /\ pc \in {"shoot", "resume"} => image_num > 0
    /\ pc \in Sending /\ ~closed => /\ image_trans_num = 1 /\ frames = 0 /\ unsent = 0
                                    /\ opens = i
    /\ pc \in Sending /\ closed => opens = image_num /\ i = image_num
                                   /\ frames + unsent = image_trans_num - 1
    /\ pc = "next" /\ ~closed => i = 0
    /\ pc = "announce" /\ ~closed => i < image_num
    /\ pc = "close" => ~closed /\ i = image_num
    /\ pc \in {"announce", "close", "frame"} => image_trans_num <= image_num
    /\ pc = "frame" => closed
    /\ pc = "drain" => image_trans_num > image_num /\ (~closed => i = 0)
    /\ pc = "reset" => \/ restarts > 0
                       \/ closed /\ frames + unsent = opens
                       \/ opens = 0 /\ ~closed /\ frames = 0 /\ unsent = 0

\* The photos counted in this round are on the card.
PhotosAreNew ==
    /\ allNew
    /\ pc # "reset" =>
         \A k \in Photos : k <= image_num /\ ~(pc = "shoot" /\ k = image_num) => files[k] = "new"

\* Of the bytes waiting for the camera's start, one was not yet used.
BytesAreBegins ==
    /\ rounds <= begins
    /\ pc = "wait" /\ rx > 0 => rounds < begins

\* The board has obeyed a stop of the camera, and what moves the web moves by a
\* later command of the operator.
StopObeyed == order = "s" /\ (driven = "no" \/ byOperator)

\* It will have when it has handled the bytes on their way.
WillStand ==
    \/ StopObeyed /\ \A k \in 1 .. Len(out) : out[k] # "u"
    \/ \E k \in 1 .. Len(out) : out[k] = "s" /\ \A j \in k + 1 .. Len(out) : out[j] # "u"
StopsPrecede ==
    /\ pc \in {"shoot", "resume", "stop"} \cup Sending => WillStand
    /\ pc \in {"reset", "quiet", "wait"} /\ restarts = 0 => WillStand

\* Low readings before the end of the cloth came by were wrong ones.
LowsAreGlitches ==
    /\ pc \in {"quiet", "wait", "reply"} => stable_low = 0
    /\ pc \in Detecting \cup {"unhook"} => stable_low <= 1
    /\ pc = "stop" => stable_low = 2
    /\ pc \in {"reply", "unhook"} \cup Detecting /\ pos = Length => ended
    /\ ~ended => glitches >= stable_low

IInv ==
    /\ Flags /\ Ranges /\ TimerFollowsFlag /\ BatchFollowsPc /\ PhotosAreNew
    /\ BytesAreBegins /\ StopsPrecede /\ LowsAreGlitches

----------------------------------------------------------------------------
(* The bytes on their way to the board.                                    *)

\* Whatever was sent before, a stop will be the last order.
LEMMA StandsAfterStop ==
    ASSUME out \in Seq(Bytes), Send("s")
    PROVE  WillStand'
BY AppendProperties DEF Send, WillStand, Bytes

\* Any byte but 'u' leaves it at that.
LEMMA StandsAfterSend ==
    ASSUME out \in Seq(Bytes), WillStand, NEW b \in Bytes \ {"u"}, Send(b),
           UNCHANGED <<driven, order, byOperator>>
    PROVE  WillStand'
<1>1. /\ out' = Append(out, b) /\ Len(out') = Len(out) + 1 /\ Len(out) \in Nat
      /\ \A k \in 1 .. Len(out) : out'[k] = out[k]
      /\ out'[Len(out) + 1] = b
  BY AppendProperties DEF Send
<1>2. CASE StopObeyed /\ \A k \in 1 .. Len(out) : out[k] # "u"
  BY <1>1, <1>2 DEF WillStand, StopObeyed
<1>3. CASE \E k \in 1 .. Len(out) : out[k] = "s" /\ \A j \in k + 1 .. Len(out) : out[j] # "u"
  <2> PICK k \in 1 .. Len(out) : out[k] = "s" /\ \A j \in k + 1 .. Len(out) : out[j] # "u"
    BY <1>3
  <2>1. k \in 1 .. Len(out') /\ out'[k] = "s"
    BY <1>1
  <2>2. \A j \in k + 1 .. Len(out') : out'[j] # "u"
    BY <1>1
  <2> QED BY <2>1, <2>2 DEF WillStand
<1> QED BY <1>2, <1>3 DEF WillStand

\* The board handles the first byte.
LEMMA StandsAfterHandling ==
    ASSUME IInv, WillStand, HandleCamera
    PROVE  WillStand'
<1>1. /\ Len(out') = Len(out) - 1 /\ Len(out) \in Nat \ {0}
      /\ \A k \in 1 .. Len(out') : out'[k] = out[k + 1]
      /\ Head(out) = out[1] /\ Head(out) \in Bytes
  BY HeadTailProperties, EmptySeq DEF IInv, Ranges, HandleCamera
<1>2. ASSUME Head(out) = "s" PROVE StopObeyed'
  BY <1>2 DEF HandleCamera, Handle, Driven, StopObeyed
<1>3. ASSUME StopObeyed, Head(out) # "u" PROVE StopObeyed'
  BY <1>1, <1>2, <1>3 DEF HandleCamera, Handle, Driven, StopObeyed, Bytes
<1>4. CASE StopObeyed /\ \A k \in 1 .. Len(out) : out[k] # "u"
  BY <1>1, <1>3, <1>4 DEF WillStand
<1>5. CASE \E k \in 1 .. Len(out) : out[k] = "s" /\ \A j \in k + 1 .. Len(out) : out[j] # "u"
  <2> PICK k \in 1 .. Len(out) : out[k] = "s" /\ \A j \in k + 1 .. Len(out) : out[j] # "u"
    BY <1>5
  <2>1. CASE k = 1
    BY <1>1, <1>2, <2>1 DEF WillStand
  <2>2. CASE k > 1
    <3>1. k - 1 \in 1 .. Len(out') /\ out'[k - 1] = "s"
      BY <1>1, <2>2
    <3>2. \A j \in (k - 1) + 1 .. Len(out') : out'[j] # "u"
      BY <1>1, <2>2
    <3> QED BY <3>1, <3>2 DEF WillStand
  <2> QED BY <2>1, <2>2
<1> QED BY <1>4, <1>5 DEF WillStand

----------------------------------------------------------------------------
(* Steps.                                                                  *)

\* Every step of the camera's program.
LEMMA CameraActsIInv ==
    ASSUME IInv, CameraActs
    PROVE  IInv'
<1> PICK blob \in BOOLEAN, low \in BOOLEAN :
        /\ CameraStep(blob, low)
        /\ glitches' = IF Misread(blob, low) THEN glitches + 1 ELSE glitches
  BY DEF CameraActs
<1>1. /\ rounds' = IF pc = "wait" THEN rounds + 1 ELSE rounds
      /\ ended' = IF pc = "wait" THEN pos = Length ELSE ended
      /\ UNCHANGED <<keys, driven, pos, order, byOperator, begins>>
  BY DEF CameraActs
<1>2. out \in Seq(Bytes)
  BY DEF IInv, Ranges
<1>0. ASSUME NEW b \in Bytes, Send(b)
      PROVE  out' \in Seq(Bytes) /\ Len(out') <= MaxOut
  BY <1>0, <1>2, AppendProperties, CameraAssumption DEF Send
<1> USE CameraAssumption, LineAssumption DEF IInv
<1> USE DEF Opening, Detecting, Sending, Goto, counts, round, holding
<1>3. CASE Reset
  <2>1. Flags'
    BY <1>1, <1>3 DEF Flags, Reset, NoneAnnounced, NoPhotos
  <2>2. Ranges'
    BY <1>1, <1>3 DEF Ranges, Bytes, Misread, Reset, NoneAnnounced, NoPhotos
  <2>3. TimerFollowsFlag' /\ BatchFollowsPc'
    BY <1>1, <1>3 DEF Flags, Ranges, TimerFollowsFlag, BatchFollowsPc, Reset, NoneAnnounced,
       NoPhotos
  <2>4. BytesAreBegins' /\ LowsAreGlitches'
    BY <1>1, <1>3 DEF Ranges, BytesAreBegins, LowsAreGlitches, Misread, Reset, NoneAnnounced,
       NoPhotos
  <2>5. PhotosAreNew'
    BY <1>1, <1>3 DEF Flags, Ranges, PhotosAreNew, BatchFollowsPc, Photos, Reset, NoneAnnounced,
       NoPhotos
  <2>6. StopsPrecede'
    BY <1>1, <1>3 DEF StopsPrecede, WillStand, StopObeyed, Reset
  <2> QED BY <2>1, <2>2, <2>3, <2>4, <2>5, <2>6
<1>4. CASE Quiet
  <2>1. Flags'
    BY <1>1, <1>4 DEF Flags, Quiet, Emptied
  <2>2. Ranges'
    BY <1>1, <1>4 DEF Ranges, Bytes, Misread, Quiet, Emptied
  <2>3. TimerFollowsFlag' /\ BatchFollowsPc'
    BY <1>1, <1>4 DEF Flags, Ranges, TimerFollowsFlag, BatchFollowsPc, Quiet, Emptied
  <2>4. BytesAreBegins' /\ LowsAreGlitches'
    BY <1>1, <1>4 DEF Ranges, BytesAreBegins, LowsAreGlitches, Misread, Quiet, Emptied
  <2>5. PhotosAreNew'
    BY <1>1, <1>4 DEF Flags, Ranges, PhotosAreNew, BatchFollowsPc, Photos, Quiet, Emptied
  <2>6. StopsPrecede'
    BY <1>1, <1>4 DEF StopsPrecede, WillStand, StopObeyed, Quiet
  <2> QED BY <2>1, <2>2, <2>3, <2>4, <2>5, <2>6
<1>5. CASE Start
  <2>1. Flags'
    BY <1>1, <1>5 DEF Flags, Start
  <2>2. Ranges'
    BY <1>1, <1>5 DEF Ranges, Bytes, Misread, Start
  <2>3. TimerFollowsFlag' /\ BatchFollowsPc'
    BY <1>1, <1>5 DEF Flags, Ranges, TimerFollowsFlag, BatchFollowsPc, Start
  <2>4. BytesAreBegins' /\ LowsAreGlitches'
    <3>1. BytesAreBegins'
      BY <1>1, <1>5 DEF Ranges, BytesAreBegins, Start
    <3>2. pos' = Length => ended'
      BY <1>1, <1>5 DEF Start
    <3> QED BY <1>1, <1>5, <3>1, <3>2 DEF Ranges, LowsAreGlitches, Misread, Start
  <2>5. PhotosAreNew'
    BY <1>1, <1>5 DEF Flags, Ranges, PhotosAreNew, BatchFollowsPc, Photos, Start
  <2>6. StopsPrecede'
    BY <1>1, <1>5 DEF StopsPrecede, WillStand, StopObeyed, Start
  <2> QED BY <2>1, <2>2, <2>3, <2>4, <2>5, <2>6
<1>6. CASE Reply
  <2>1. Flags'
    BY <1>1, <1>6 DEF Flags, Reply, Send
  <2>2. Ranges'
    BY <1>1, <1>6, <1>0 DEF Ranges, Bytes, Misread, Reply
  <2>3. TimerFollowsFlag' /\ BatchFollowsPc'
    BY <1>1, <1>6 DEF Flags, Ranges, TimerFollowsFlag, BatchFollowsPc, Reply, Send
  <2>4. BytesAreBegins' /\ LowsAreGlitches'
    BY <1>1, <1>6 DEF Ranges, BytesAreBegins, LowsAreGlitches, Misread, Reply, Send
  <2>5. PhotosAreNew'
    BY <1>1, <1>6 DEF Flags, Ranges, PhotosAreNew, BatchFollowsPc, Photos, Reply, Send
  <2>6. StopsPrecede'
    BY <1>1, <1>6, <1>2, StandsAfterStop, StandsAfterSend DEF StopsPrecede, WillStand,
       StopObeyed, Bytes, Reply, Send
  <2> QED BY <2>1, <2>2, <2>3, <2>4, <2>5, <2>6
<1>7. CASE Look(blob)
  <2>1. Flags'
    BY <1>1, <1>7 DEF Flags, Look, Send
  <2>2. Ranges'
    BY <1>1, <1>7, <1>0 DEF Ranges, Bytes, Misread, Look
  <2>3. TimerFollowsFlag' /\ BatchFollowsPc'
    BY <1>1, <1>7 DEF Flags, Ranges, TimerFollowsFlag, BatchFollowsPc, Look, Send
  <2>4. BytesAreBegins' /\ LowsAreGlitches'
    BY <1>1, <1>7 DEF Ranges, BytesAreBegins, LowsAreGlitches, Misread, Look, Send
  <2>5. PhotosAreNew'
    BY <1>1, <1>7 DEF Flags, Ranges, PhotosAreNew, BatchFollowsPc, Photos, Look, Send
  <2>6. StopsPrecede'
    BY <1>1, <1>7, <1>2, StandsAfterStop, StandsAfterSend DEF StopsPrecede, WillStand,
       StopObeyed, Bytes, Look, Send
  <2> QED BY <2>1, <2>2, <2>3, <2>4, <2>5, <2>6
<1>8. CASE Shoot
  <2>1. Flags'
    BY <1>1, <1>8 DEF Flags, Shoot
  <2>2. Ranges'
    BY <1>1, <1>8 DEF Ranges, Bytes, Misread, Shoot
  <2>3. TimerFollowsFlag' /\ BatchFollowsPc'
    BY <1>1, <1>8 DEF Flags, Ranges, TimerFollowsFlag, BatchFollowsPc, Shoot
  <2>4. BytesAreBegins' /\ LowsAreGlitches'
    BY <1>1, <1>8 DEF Ranges, BytesAreBegins, LowsAreGlitches, Misread, Shoot
  <2>5. PhotosAreNew'
    BY <1>1, <1>8 DEF Flags, Ranges, PhotosAreNew, BatchFollowsPc, Photos, Shoot
  <2>6. StopsPrecede'
    BY <1>1, <1>8 DEF StopsPrecede, WillStand, StopObeyed, Shoot
  <2> QED BY <2>1, <2>2, <2>3, <2>4, <2>5, <2>6
<1>9. CASE Resume
  <2>1. Flags'
    BY <1>1, <1>9 DEF Flags, Resume, Send
  <2>2. Ranges'
    BY <1>1, <1>9, <1>0 DEF Ranges, Bytes, Misread, Resume
  <2>3. TimerFollowsFlag' /\ BatchFollowsPc'
    BY <1>1, <1>9 DEF Flags, Ranges, TimerFollowsFlag, BatchFollowsPc, Resume, Send
  <2>4. BytesAreBegins' /\ LowsAreGlitches'
    BY <1>1, <1>9 DEF Ranges, BytesAreBegins, LowsAreGlitches, Misread, Resume, Send
  <2>5. PhotosAreNew'
    BY <1>1, <1>9 DEF Flags, Ranges, PhotosAreNew, BatchFollowsPc, Photos, Resume, Send
  <2>6. StopsPrecede'
    BY <1>1, <1>9, <1>2, StandsAfterStop, StandsAfterSend DEF StopsPrecede, WillStand,
       StopObeyed, Bytes, Resume, Send
  <2> QED BY <2>1, <2>2, <2>3, <2>4, <2>5, <2>6
<1>10. CASE Hold
  <2>1. Flags'
    BY <1>1, <1>10 DEF Flags, Hold, Rearmed
  <2>2. Ranges'
    BY <1>1, <1>10 DEF Ranges, Bytes, Misread, Hold, Rearmed
  <2>3. TimerFollowsFlag' /\ BatchFollowsPc'
    BY <1>1, <1>10 DEF Flags, Ranges, TimerFollowsFlag, BatchFollowsPc, Hold, Rearmed
  <2>4. BytesAreBegins' /\ LowsAreGlitches'
    BY <1>1, <1>10 DEF Ranges, BytesAreBegins, LowsAreGlitches, Misread, Hold, Rearmed
  <2>5. PhotosAreNew'
    BY <1>1, <1>10 DEF Flags, Ranges, PhotosAreNew, BatchFollowsPc, Photos, Hold, Rearmed
  <2>6. StopsPrecede'
    BY <1>1, <1>10 DEF StopsPrecede, WillStand, StopObeyed, Hold
  <2> QED BY <2>1, <2>2, <2>3, <2>4, <2>5, <2>6
<1>11. CASE Unhook
  <2>1. Flags'
    BY <1>1, <1>11 DEF Flags, Unhook
  <2>2. Ranges'
    BY <1>1, <1>11 DEF Ranges, Bytes, Misread, Unhook
  <2>3. TimerFollowsFlag' /\ BatchFollowsPc'
    BY <1>1, <1>11 DEF Flags, Ranges, TimerFollowsFlag, BatchFollowsPc, Unhook
  <2>4. BytesAreBegins' /\ LowsAreGlitches'
    BY <1>1, <1>11 DEF Ranges, BytesAreBegins, LowsAreGlitches, Misread, Unhook
  <2>5. PhotosAreNew'
    BY <1>1, <1>11 DEF Flags, Ranges, PhotosAreNew, BatchFollowsPc, Photos, Unhook
  <2>6. StopsPrecede'
    BY <1>1, <1>11 DEF StopsPrecede, WillStand, StopObeyed, Unhook
  <2> QED BY <2>1, <2>2, <2>3, <2>4, <2>5, <2>6
<1>12. CASE Door(low)
  <2>1. Flags'
    BY <1>1, <1>12 DEF Flags, Door, Debounced, Send
  <2>2. Ranges'
    <3>1. stable_low <= 1
      BY <1>12 DEF LowsAreGlitches, Door
    <3>2. stable_low' \in 0 .. 2 /\ glitches' \in Nat
      BY <1>12, <3>1 DEF Ranges, Door
    <3>3. out' \in Seq(Bytes) /\ Len(out') <= MaxOut /\ pc' \in {"look", "stop"}
      BY <1>12, <1>0 DEF Ranges, Bytes, Door
    <3> QED BY <1>1, <1>12, <3>2, <3>3 DEF Ranges, Door
  <2>3. TimerFollowsFlag' /\ BatchFollowsPc'
    BY <1>1, <1>12 DEF Flags, Ranges, TimerFollowsFlag, BatchFollowsPc, Door, Debounced, Send
  <2>4. BytesAreBegins' /\ LowsAreGlitches'
    BY <1>1, <1>12 DEF Ranges, BytesAreBegins, LowsAreGlitches, Misread, Door, Debounced, Send
  <2>5. PhotosAreNew'
    BY <1>1, <1>12 DEF Flags, Ranges, PhotosAreNew, BatchFollowsPc, Photos, Door, Debounced, Send
  <2>6. StopsPrecede'
    BY <1>1, <1>12, <1>2, StandsAfterStop, StandsAfterSend DEF StopsPrecede, WillStand,
       StopObeyed, Bytes, Door, Debounced, Send
  <2> QED BY <2>1, <2>2, <2>3, <2>4, <2>5, <2>6
<1>13. CASE Stop
  <2>1. Flags'
    BY <1>1, <1>13 DEF Flags, Stop, TimerOff, Send
  <2>2. Ranges'
    BY <1>1, <1>13, <1>0 DEF Ranges, Bytes, Misread, Stop, TimerOff
  <2>3. TimerFollowsFlag' /\ BatchFollowsPc'
    BY <1>1, <1>13 DEF Flags, Ranges, TimerFollowsFlag, BatchFollowsPc, Stop, TimerOff, Send
  <2>4. BytesAreBegins' /\ LowsAreGlitches'
    BY <1>1, <1>13 DEF Ranges, BytesAreBegins, LowsAreGlitches, Misread, Stop, TimerOff, Send
  <2>5. PhotosAreNew'
    BY <1>1, <1>13 DEF Flags, Ranges, PhotosAreNew, BatchFollowsPc, Photos, Stop, TimerOff, Send
  <2>6. StopsPrecede'
    BY <1>1, <1>13, <1>2, StandsAfterStop, StandsAfterSend DEF StopsPrecede, WillStand,
       StopObeyed, Bytes, Stop, TimerOff, Send
  <2> QED BY <2>1, <2>2, <2>3, <2>4, <2>5, <2>6
<1>14. CASE NextPhoto
  <2>1. Flags'
    BY <1>1, <1>14 DEF Flags, NextPhoto, More, Send
  <2>2. Ranges'
    BY <1>1, <1>14, <1>0 DEF Ranges, Bytes, Misread, NextPhoto, More
  <2>3. TimerFollowsFlag' /\ BatchFollowsPc'
    BY <1>1, <1>14 DEF Flags, Ranges, TimerFollowsFlag, BatchFollowsPc, NextPhoto, More, Send
  <2>4. BytesAreBegins' /\ LowsAreGlitches'
    BY <1>1, <1>14 DEF Ranges, BytesAreBegins, LowsAreGlitches, Misread, NextPhoto, More, Send
  <2>5. PhotosAreNew'
    BY <1>1, <1>14 DEF Flags, Ranges, PhotosAreNew, BatchFollowsPc, Photos, NextPhoto, More, Send
  <2>6. StopsPrecede'
    BY <1>1, <1>14, <1>2, StandsAfterStop, StandsAfterSend DEF StopsPrecede, WillStand,
       StopObeyed, Bytes, NextPhoto, More, Send
  <2> QED BY <2>1, <2>2, <2>3, <2>4, <2>5, <2>6
<1>15. CASE AnnounceOne
  <2>1. Flags'
    BY <1>1, <1>15 DEF Flags, AnnounceOne, AllAnnounced, Send
  <2>2. Ranges'
    BY <1>1, <1>15, <1>0 DEF Ranges, Bytes, Misread, AnnounceOne, AllAnnounced
  <2>3. TimerFollowsFlag' /\ BatchFollowsPc'
    BY <1>1, <1>15 DEF Flags, Ranges, TimerFollowsFlag, BatchFollowsPc, AnnounceOne,
       AllAnnounced, Send
  <2>4. BytesAreBegins' /\ LowsAreGlitches'
    BY <1>1, <1>15 DEF Ranges, BytesAreBegins, LowsAreGlitches, Misread, AnnounceOne,
       AllAnnounced, Send
  <2>5. PhotosAreNew'
    BY <1>1, <1>15 DEF Flags, Ranges, PhotosAreNew, BatchFollowsPc, Photos, AnnounceOne,
       AllAnnounced, Send
  <2>6. StopsPrecede'
    BY <1>1, <1>15, <1>2, StandsAfterStop, StandsAfterSend DEF StopsPrecede, WillStand,
       StopObeyed, Bytes, AnnounceOne, AllAnnounced, Send
  <2> QED BY <2>1, <2>2, <2>3, <2>4, <2>5, <2>6
<1>16. CASE CloseBatch
  <2>1. Flags'
    BY <1>1, <1>16 DEF Flags, CloseBatch, Send
  <2>2. Ranges'
    BY <1>1, <1>16, <1>0 DEF Ranges, Bytes, Misread, CloseBatch
  <2>3. TimerFollowsFlag' /\ BatchFollowsPc'
    BY <1>1, <1>16 DEF Flags, Ranges, TimerFollowsFlag, BatchFollowsPc, CloseBatch, Send
  <2>4. BytesAreBegins' /\ LowsAreGlitches'
    BY <1>1, <1>16 DEF Ranges, BytesAreBegins, LowsAreGlitches, Misread, CloseBatch, Send
  <2>5. PhotosAreNew'
    BY <1>1, <1>16 DEF Flags, Ranges, PhotosAreNew, BatchFollowsPc, Photos, CloseBatch, Send
  <2>6. StopsPrecede'
    BY <1>1, <1>16, <1>2, StandsAfterStop, StandsAfterSend DEF StopsPrecede, WillStand,
       StopObeyed, Bytes, CloseBatch, Send
  <2> QED BY <2>1, <2>2, <2>3, <2>4, <2>5, <2>6
<1>17. CASE Frame
  <2>0. /\ image_trans_num \in Nat /\ image_num \in Nat /\ image_trans_num <= image_num
        /\ image_trans_num \in Photos /\ files[image_trans_num] = "new"
    BY <1>17 DEF Ranges, PhotosAreNew, BatchFollowsPc, Photos, Frame, send_frame
  <2>1. Flags'
    BY <1>1, <1>17, <2>0 DEF Flags, Frame, send_frame, TimerOff
  <2>2. Ranges'
    BY <1>1, <1>17, <2>0 DEF Ranges, Misread, Frame, send_frame
  <2>3. TimerFollowsFlag' /\ BatchFollowsPc'
    BY <1>1, <1>17, <2>0 DEF Flags, Ranges, TimerFollowsFlag, BatchFollowsPc, Frame,
       send_frame, TimerOff
  <2>4. BytesAreBegins' /\ LowsAreGlitches'
    BY <1>1, <1>17 DEF Ranges, BytesAreBegins, LowsAreGlitches, Misread, Frame
  <2>5. PhotosAreNew'
    BY <1>1, <1>17, <2>0 DEF Ranges, PhotosAreNew, BatchFollowsPc, Photos, Frame, send_frame
  <2>6. StopsPrecede'
    BY <1>1, <1>17 DEF StopsPrecede, WillStand, StopObeyed, Frame
  <2> QED BY <2>1, <2>2, <2>3, <2>4, <2>5, <2>6
<1>18. CASE Drain
  <2>1. Flags'
    BY <1>1, <1>18 DEF Flags, Drain, Emptied, Send
  <2>2. Ranges'
    BY <1>1, <1>18, <1>0 DEF Ranges, Bytes, Misread, Drain, Emptied
  <2>3. TimerFollowsFlag' /\ BatchFollowsPc'
    BY <1>1, <1>18 DEF Flags, Ranges, TimerFollowsFlag, BatchFollowsPc, Drain, Emptied, Send
  <2>4. BytesAreBegins' /\ LowsAreGlitches'
    BY <1>1, <1>18 DEF Ranges, BytesAreBegins, LowsAreGlitches, Misread, Drain, Emptied, Send
  <2>5. PhotosAreNew'
    BY <1>1, <1>18 DEF Flags, Ranges, PhotosAreNew, BatchFollowsPc, Photos, Drain, Emptied, Send
  <2>6. StopsPrecede'
    BY <1>1, <1>18, <1>2, StandsAfterStop, StandsAfterSend DEF StopsPrecede, WillStand,
       StopObeyed, Bytes, Drain, Emptied, Send
  <2> QED BY <2>1, <2>2, <2>3, <2>4, <2>5, <2>6
<1> QED BY <1>3, <1>4, <1>5, <1>6, <1>7, <1>8, <1>9, <1>10, <1>11, <1>12, <1>13, <1>14, <1>15,
           <1>16, <1>17, <1>18 DEF CameraStep

\* The timer's callback, wherever it interrupts.
LEMMA TickIInv ==
    ASSUME IInv, CameraTicks
    PROVE  IInv'
<1> USE CameraAssumption, LineAssumption
    DEF IInv, Opening, Detecting, Sending, CameraTicks, Tick, line, web, round
<1>1. Flags' /\ PhotosAreNew' /\ BatchFollowsPc'
  BY DEF Flags, PhotosAreNew, BatchFollowsPc
<1>2. Ranges'
  BY DEF Ranges
<1>3. TimerFollowsFlag'
  BY DEF Ranges, TimerFollowsFlag
<1>4. BytesAreBegins' /\ LowsAreGlitches' /\ StopsPrecede'
  BY DEF BytesAreBegins, LowsAreGlitches, StopsPrecede, WillStand, StopObeyed
<1> QED BY <1>1, <1>2, <1>3, <1>4

\* A restart of the camera in any place.
LEMMA RestartIInv ==
    ASSUME IInv, CameraRestarts
    PROVE  IInv'
<1> USE CameraAssumption, LineAssumption
    DEF IInv, Opening, Detecting, Sending, CameraRestarts, Restart, line, web, round, holding
<1>1. Flags' /\ PhotosAreNew'
  BY DEF Flags, PhotosAreNew
<1>2. Ranges'
  BY DEF Ranges
<1>3. TimerFollowsFlag' /\ BatchFollowsPc'
  BY DEF Ranges, TimerFollowsFlag, BatchFollowsPc
<1>4. BytesAreBegins' /\ LowsAreGlitches' /\ StopsPrecede'
  BY DEF Ranges, BytesAreBegins, LowsAreGlitches, StopsPrecede
<1> QED BY <1>1, <1>2, <1>3, <1>4

\* uart_ctrl handles a byte of the camera or of the operator, or ends a jog.
LEMMA BoardIInv ==
    ASSUME IInv, Board
    PROVE  IInv'
<1> USE CameraAssumption, LineAssumption
    DEF IInv, Opening, Detecting, Sending, counts, round, holding
<1>1. ASSUME NEW b \in Bytes \cup AllKeys, Handle(b)
      PROVE  /\ driven' \in {"no", "fwd", "back", "jog"}
             /\ rx' \in 0 .. MaxRx /\ begins' \in Nat
             /\ BytesAreBegins'
  <2>1. driven' \in {"no", "fwd", "back", "jog"}
    BY <1>1 DEF Ranges, Handle, Driven
  <2>2. rx' \in 0 .. MaxRx /\ begins' \in Nat
    BY <1>1 DEF Ranges, Handle, Answer
  <2>3. BytesAreBegins'
    BY <1>1 DEF Ranges, Handle, Answer, BytesAreBegins
  <2> QED BY <2>1, <2>2, <2>3
<1>2. ASSUME NEW b, Handle(b)
      PROVE  TimerFollowsFlag' /\ BatchFollowsPc' /\ PhotosAreNew' /\ LowsAreGlitches'
  BY <1>2 DEF Handle, TimerFollowsFlag, BatchFollowsPc, PhotosAreNew, LowsAreGlitches
<1>3. CASE HandleCamera
  <2>1. out \in Seq(Bytes) /\ Head(out) \in Bytes /\ out' \in Seq(Bytes) /\ Len(out') <= MaxOut
    BY <1>3, HeadTailProperties DEF Ranges, HandleCamera
  <2>2. Flags'
    BY <1>3 DEF Flags, HandleCamera, Handle
  <2>3. Ranges'
    BY <1>1, <1>3, <2>1 DEF Ranges, HandleCamera, Handle
  <2>4. StopsPrecede'
    BY <1>3, StandsAfterHandling DEF StopsPrecede, HandleCamera, Handle
  <2> QED BY <1>1, <1>2, <1>3, <2>1, <2>2, <2>3, <2>4 DEF HandleCamera
<1>4. CASE HandleKey
  <2>1. Head(keys) \in AllKeys
    BY <1>4 DEF Ranges, HandleKey
  <2>2. Flags'
    BY <1>4 DEF Flags, HandleKey, Handle
  <2>3. Ranges'
    BY <1>1, <1>4, <2>1 DEF Ranges, HandleKey, Handle
  <2>4. WillStand => WillStand'
    <3>1. WillStand => StopObeyed
      BY <1>4 DEF WillStand, HandleKey
    <3>2. StopObeyed => StopObeyed'
      BY <1>4, <2>1 DEF StopObeyed, HandleKey, Handle, Driven, AllKeys
    <3>3. StopObeyed' => WillStand'
      BY <1>4 DEF WillStand, HandleKey
    <3> QED BY <3>1, <3>2, <3>3
  <2>5. StopsPrecede'
    BY <1>4, <2>4 DEF StopsPrecede, HandleKey, Handle
  <2> QED BY <1>1, <1>2, <1>4, <2>1, <2>2, <2>3, <2>5 DEF HandleKey
<1>5. CASE JogEnds
  <2>1. Flags'
    BY <1>5 DEF Flags, JogEnds, vars
  <2>2. Ranges' /\ TimerFollowsFlag' /\ BatchFollowsPc' /\ PhotosAreNew'
    BY <1>5 DEF Ranges, TimerFollowsFlag, BatchFollowsPc, PhotosAreNew, JogEnds, vars
  <2>3. BytesAreBegins' /\ LowsAreGlitches' /\ StopsPrecede'
    BY <1>5 DEF BytesAreBegins, LowsAreGlitches, StopsPrecede, WillStand, StopObeyed, JogEnds,
                vars
  <2> QED BY <2>1, <2>2, <2>3
<1> QED BY <1>3, <1>4, <1>5 DEF Board

\* The operator and the web.
LEMMA EnvironmentIInv ==
    ASSUME IInv, (\E k \in Keys : Press(k)) \/ Advance \/ Reload
    PROVE  IInv'
<1> USE CameraAssumption, LineAssumption
    DEF IInv, Opening, Detecting, Sending, vars, counts, round, holding
<1>1. CASE \E k \in Keys : Press(k)
  <2>1. Flags' /\ TimerFollowsFlag' /\ BatchFollowsPc' /\ PhotosAreNew' /\ BytesAreBegins'
    BY <1>1 DEF Press, web, Flags, TimerFollowsFlag, BatchFollowsPc, PhotosAreNew, BytesAreBegins
  <2>2. Ranges'
    BY <1>1 DEF Press, web, Ranges, AllKeys
  <2>3. StopsPrecede' /\ LowsAreGlitches'
    BY <1>1 DEF Press, web, StopsPrecede, WillStand, StopObeyed, LowsAreGlitches
  <2> QED BY <2>1, <2>2, <2>3
<1>2. CASE Advance
  <2> PICK step \in {-1, 1} : Move(step)
    BY <1>2 DEF Advance
  <2>1. Flags'
    BY DEF Move, Flags
  <2>2. Ranges'
    BY DEF Move, Ranges
  <2>3. TimerFollowsFlag' /\ BatchFollowsPc' /\ PhotosAreNew' /\ BytesAreBegins'
    BY DEF Move, TimerFollowsFlag, BatchFollowsPc, PhotosAreNew, BytesAreBegins
  <2>4. StopsPrecede'
    BY DEF Move, StopsPrecede, WillStand, StopObeyed
  <2>5. LowsAreGlitches'
    BY DEF Move, Flags, LowsAreGlitches
  <2> QED BY <2>1, <2>2, <2>3, <2>4, <2>5
<1>3. CASE Reload
  <2>1. Flags' /\ TimerFollowsFlag' /\ BatchFollowsPc' /\ PhotosAreNew' /\ BytesAreBegins'
    BY <1>3 DEF Reload, Flags, TimerFollowsFlag, BatchFollowsPc, PhotosAreNew, BytesAreBegins
  <2>2. Ranges'
    BY <1>3 DEF Reload, Ranges
  <2>3. StopsPrecede' /\ LowsAreGlitches'
    BY <1>3 DEF Reload, StopsPrecede, WillStand, StopObeyed, LowsAreGlitches
  <2> QED BY <2>1, <2>2, <2>3
<1> QED BY <1>1, <1>2, <1>3

\* The invariant holds at the start and is kept by every step.
LEMMA InitIInv == LineInit => IInv
<1> SUFFICES ASSUME LineInit PROVE IInv
  OBVIOUS
<1> USE CameraAssumption, LineAssumption DEF LineInit, Init
<1>1. Flags
  BY DEF Flags
<1>2. Ranges
  BY DEF Ranges, Opening, Photos, Bytes
<1>3. TimerFollowsFlag /\ BatchFollowsPc /\ PhotosAreNew
  BY DEF TimerFollowsFlag, BatchFollowsPc, PhotosAreNew, Opening, Detecting, Sending
<1>4. BytesAreBegins /\ StopsPrecede /\ LowsAreGlitches
  BY DEF BytesAreBegins, StopsPrecede, WillStand, StopObeyed, LowsAreGlitches, Detecting, Sending
<1> QED BY <1>1, <1>2, <1>3, <1>4 DEF IInv

\* Every step of camera, board, operator and web, and a stutter.
LEMMA NextIInv == IInv /\ [LineNext]_lvars => IInv'
<1> SUFFICES ASSUME IInv, [LineNext]_lvars PROVE IInv'
  OBVIOUS
<1>1. CASE UNCHANGED lvars
  BY <1>1 DEF lvars, line, web, vars, counts, round, holding, IInv, Flags, Ranges, TimerFollowsFlag,
              BatchFollowsPc, PhotosAreNew, BytesAreBegins, StopsPrecede, WillStand, StopObeyed,
              LowsAreGlitches
<1> QED BY <1>1, CameraActsIInv, TickIInv, RestartIInv, BoardIInv, EnvironmentIInv DEF LineNext

\* What every other theorem of this module uses.
THEOREM LineInvariant == LineSpec => []IInv
BY InitIInv, NextIInv, PTL DEF LineSpec

----------------------------------------------------------------------------
(* Theorems.                                                               *)

\* The camera's variables keep their types: no photo number beyond what was
\* counted, no tick beyond the bound, whatever interrupts its main loop.
THEOREM CameraTypeCorrect == LineSpec => []TypeOK
<1>1. IInv => TypeOK
  <2> SUFFICES ASSUME IInv PROVE TypeOK
    OBVIOUS
  <2>1. timer \in BOOLEAN
    BY DEF IInv, Flags
  <2>2. TypeOK
    BY <2>1 DEF IInv, Ranges, TypeOK, Opening, Detecting, Sending, Bytes
  <2> QED BY <2>2
<1> QED BY <1>1, LineInvariant, PTL

\* A round starts with the timer off and no ticks counted.
THEOREM StartsClean == LineSpec => []RoundStartsClean
<1>1. IInv => RoundStartsClean
  BY DEF IInv, TimerFollowsFlag, RoundStartsClean, Opening
<1> QED BY <1>1, LineInvariant, PTL

\* A hold-off lasts HoldOff ticks but those that slip in while it is undone.
THEOREM HoldsOff == LineSpec => []HoldOffLasts
<1>1. IInv => HoldOffLasts
  BY DEF IInv, TimerFollowsFlag, HoldOffLasts
<1> QED BY <1>1, LineInvariant, PTL

\* No picture of an earlier round is ever sent.
THEOREM SendsOwnPictures == LineSpec => []PicturesAreOfThisRound
<1>1. IInv => PicturesAreOfThisRound
  BY DEF IInv, PhotosAreNew, PicturesAreOfThisRound
<1> QED BY <1>1, LineInvariant, PTL

\* No press of 'b' starts two rounds.
THEOREM NoRoundUnasked == LineSpec => []NoPhantomRound
<1>1. IInv => NoPhantomRound
  BY DEF IInv, BytesAreBegins, NoPhantomRound
<1> QED BY <1>1, LineInvariant, PTL

\* While the web is photographed, while photos are announced and sent, and while
\* the camera waits, the camera's last order obeyed is a stop; what moves the web
\* all the same moves by a command that the operator gave after it.
THEOREM StandsStill == LineSpec => []WebStandsStill
<1>1. IInv => WebStandsStill
  BY DEF IInv, StopsPrecede, WillStand, StopObeyed, WebStandsStill, Sending, Ranges
<1> QED BY <1>1, LineInvariant, PTL

\* A single wrong reading never ends the detection before the end of the cloth
\* has come by.
THEOREM EndsAtTheEnd == LineSpec => []NoFalseEnd
<1>1. IInv => NoFalseEnd
  BY DEF IInv, LowsAreGlitches, NoFalseEnd, Ranges
<1> QED BY <1>1, LineInvariant, PTL

\* On its two lines the camera keeps to the protocol of BatchSender, in whatever
\* surroundings and whichever pictures send_frame gives up: the step simulation
\* from the line to BatchSender.
THEOREM CameraIsBatchSender == LineSpec => BehavesAsBatchSender
<1> USE CameraAssumption, LineAssumption
<1>1. LineInit => Batch!BInit
  BY DEF LineInit, Init, Batch!BInit
<1>2. IInv /\ IInv' /\ [LineNext]_lvars =>
          [Batch!Announce \/ Batch!Close \/ Batch!Picture \/ Batch!GiveUp \/ Batch!Finish
             \/ Batch!Restarts]_Batch!bvars
  <2> SUFFICES ASSUME IInv, IInv', [LineNext]_lvars
               PROVE  \/ Batch!Announce \/ Batch!Close \/ Batch!Picture \/ Batch!GiveUp
                      \/ Batch!Finish \/ Batch!Restarts \/ UNCHANGED Batch!bvars
    OBVIOUS
  <2>1. CASE UNCHANGED <<opens, closed, frames, unsent, restarts>>
    BY <2>1 DEF Batch!bvars
  <2>2. CASE CameraRestarts
    BY <2>2 DEF CameraRestarts, Restart, round, Batch!Restarts, IInv, Ranges
  <2>3. CASE CameraActs
    <3> PICK blob \in BOOLEAN, low \in BOOLEAN : CameraStep(blob, low)
      BY <2>3 DEF CameraActs
    <3> USE DEF IInv, Ranges, Flags, BatchFollowsPc, Opening, Sending, Goto
    <3>1. CASE Reset
      BY <3>1 DEF Reset, Batch!Finish, Batch!bvars
    <3>2. CASE AnnounceOne
      BY <3>2 DEF AnnounceOne, Batch!Announce, Batch!bvars
    <3>3. CASE CloseBatch
      BY <3>3 DEF CloseBatch, Batch!Close
    <3>4. CASE Frame
      BY <3>4 DEF Frame, send_frame, Batch!Picture, Batch!GiveUp, Batch!Pending
    <3>5. CASE ~(Reset \/ AnnounceOne \/ CloseBatch \/ Frame)
      BY <2>1, <3>5 DEF CameraStep, Quiet, Start, Reply, Look, Shoot, Resume, Hold, Unhook,
                        Door, Stop, NextPhoto, Drain, round
    <3> QED BY <3>1, <3>2, <3>3, <3>4, <3>5
  <2>4. CASE CameraTicks \/ Board \/ (\E k \in Keys : Press(k)) \/ Advance \/ Reload
              \/ UNCHANGED lvars
    BY <2>1, <2>4 DEF CameraTicks, Tick, Board, HandleCamera, HandleKey, Handle, JogEnds, Press,
                      Advance, Move, Reload, lvars, vars, round
  <2> QED BY <2>2, <2>3, <2>4 DEF LineNext
<1> QED BY <1>1, <1>2, LineInvariant, PTL DEF LineSpec, BehavesAsBatchSender, Batch!BSpec
=============================================================================
