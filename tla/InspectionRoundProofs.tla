----------------------- MODULE InspectionRoundProofs -----------------------
(***************************************************************************)
(* Proofs about an inspection round, for every number of classes, places   *)
(* in last_detect, photos in a batch, waiting commands and faults.         *)
(*                                                                         *)
(* Three inductive invariants: RInv holds of every behaviour; PInv of      *)
(* those in which the board keeps up with the camera and the SD card       *)
(* works; SInv of those without any fault but the network's.               *)
(***************************************************************************)
EXTENDS InspectionRound, SequenceTheorems, FiniteSetTheorems, TLAPS

Uploading == {"upload", "count", "beep", "beeping", "reset"}
Places    == {"wait", "copy", "copying", "open", "write"} \cup Uploading

----------------------------------------------------------------------------
(* The invariant of every behaviour, by the state it is about.             *)

Flags == torn \in BOOLEAN /\ overrun \in BOOLEAN

CameraOK ==
    /\ cam \in {"idle", "announce", "close", "frames"}
    /\ batch \in Batches \cup {<<>>}
    /\ i \in 0 .. MaxPhotos /\ faults \in 0 .. MAX_FAULTS
    /\ cmds \in Seq({"(", ")"})
    /\ cam # "idle" => batch \in Batches
    /\ cam \in {"announce", "frames"} => i < Len(batch)

ControlOK ==
    /\ ctrl \in {"idle", "beep1", "gap", "beep2"}
    /\ image_count \in 0 .. U8 - 1 /\ detection_round_cnt \in 0 .. U8 - 1
    /\ buzzer \in {0, 1}

PictureOK == image_buffer \in Class /\ frame_ready \in {0, 1}

TallyOK ==
    /\ detect_round \in 0 .. U8 - 1
    /\ defect_counter \in [Class -> 0 .. U16 - 1]
    /\ last_detect \in [0 .. MaxRound - 1 -> Class]
    /\ inspected \in Seq(Class)

OutputOK ==
    /\ total \in 0 .. U8 - 1
    /\ csv \in Seq(Class) /\ cloud \in Seq(Class)
    /\ cloud_count \in [Class -> 0 .. U16 - 1] /\ accepted \in 0 .. 2
    /\ img = "upload" => accepted = 0
    /\ img = "count" => accepted <= 1

RInv ==
    /\ img \in Places
    /\ Flags /\ CameraOK /\ ControlOK /\ PictureOK /\ TallyOK /\ OutputOK
    /\ TalliesAgree /\ BuzzerSilent

----------------------------------------------------------------------------
(* Arithmetic, batches and tallies.                                        *)

\* The remainder is the only one of its range.
LEMMA Remainder ==
    ASSUME NEW x \in Int, NEW m \in Nat \ {0}, NEW q \in Int, NEW r \in 0 .. m - 1,
           x = m * q + r
    PROVE  x % m = r
<1> DEFINE d == x \div m
<1> DEFINE z == x % m
<1>1. x = m * d + z /\ d \in Int /\ z \in 0 .. m - 1
  OBVIOUS
<1> HIDE DEF d, z
<1>2. CASE q - d >= 1
  <2>1. m * (q - d) >= m
    BY <1>1, <1>2
  <2>2. m * (q - d) = m * q - m * d
    BY <1>1
  <2> QED BY <1>1, <2>1, <2>2
<1>3. CASE q - d <= -1
  <2>1. m * (d - q) >= m
    BY <1>1, <1>3
  <2>2. m * (d - q) = m * d - m * q
    BY <1>1
  <2> QED BY <1>1, <2>1, <2>2
<1>4. CASE q = d
  BY <1>1, <1>4 DEF z
<1> QED BY <1>1, <1>2, <1>3, <1>4

\* x++ on an unsigned integer of modulus m.
LEMMA Wraps ==
    ASSUME NEW n \in Nat, NEW m \in Nat \ {0}
    PROVE  /\ n % m \in 0 .. m - 1
           /\ ((n % m) + 1) % m = (n + 1) % m
           /\ n < m => n % m = n
<1> DEFINE d == n \div m
<1> DEFINE z == n % m
<1>1. n = m * d + z /\ d \in Int /\ z \in 0 .. m - 1
  OBVIOUS
<1> HIDE DEF d, z
<1>2. n < m => n % m = n
  <2>1. n = m * 0 + n
    OBVIOUS
  <2> QED BY <2>1, Remainder
<1>3. (z + 1) % m = (n + 1) % m
  <2>1. CASE z + 1 < m
    <3>1. n + 1 = m * d + (z + 1) /\ z + 1 = m * 0 + (z + 1) /\ z + 1 \in 0 .. m - 1
      BY <1>1, <2>1
    <3>2. (n + 1) % m = z + 1
      BY <1>1, <3>1, Remainder
    <3>3. (z + 1) % m = z + 1
      BY <1>1, <3>1, Remainder
    <3> QED BY <3>2, <3>3
  <2>2. CASE z + 1 = m
    <3>1. n + 1 = m * (d + 1) + 0 /\ z + 1 = m * 1 + 0
      BY <1>1, <2>2
    <3>2. (n + 1) % m = 0
      BY <1>1, <3>1, Remainder
    <3>3. (z + 1) % m = 0
      BY <1>1, <3>1, Remainder
    <3> QED BY <3>2, <3>3
  <2> QED BY <1>1, <2>1, <2>2
<1> QED BY <1>1, <1>2, <1>3 DEF z

\* What is known of a batch of photos.
LEMMA BatchFacts ==
    ASSUME NEW b \in Batches
    PROVE  /\ b \in Seq(Class) /\ Len(b) \in 1 .. MaxPhotos /\ b # <<>>
           /\ \A k \in 1 .. Len(b) : b[k] \in Class
<1>1. PICK n \in 1 .. MaxPhotos : b \in [1 .. n -> Class]
  BY DEF Batches
<1>2. n \in Nat /\ b \in Seq(Class) /\ Len(b) = n
  BY <1>1, RoundAssumption
<1> QED BY <1>1, <1>2, EmptySeq, RoundAssumption

\* The tally of a sequence of results has a 16-bit count per class.
LEMMA TallyType ==
    ASSUME NEW s \in Seq(Class)
    PROVE  Tally(s) \in [Class -> 0 .. U16 - 1]
<1> SUFFICES ASSUME NEW c \in Class
             PROVE  Cardinality(Positions(s, c)) % U16 \in 0 .. U16 - 1
  BY DEF Tally
<1>1. IsFiniteSet(1 .. Len(s))
  BY LenProperties, FS_Interval
<1>2. IsFiniteSet(Positions(s, c))
  BY LenProperties, <1>1, FS_Subset DEF Positions
<1>3. Cardinality(Positions(s, c)) \in Nat
  BY <1>2, FS_CardinalityType
<1> QED BY <1>3, RoundAssumption

\* Counting one more result counts it in its class.
LEMMA TallyAppend ==
    ASSUME NEW s \in Seq(Class), NEW e \in Class
    PROVE  Tally(Append(s, e)) = Counted(Tally(s), e)
<1>1. /\ Append(s, e) \in Seq(Class) /\ Len(s) \in Nat /\ DOMAIN s = 1 .. Len(s)
      /\ DOMAIN Append(s, e) = 1 .. Len(s) + 1
      /\ \A k \in 1 .. Len(s) : Append(s, e)[k] = s[k]
      /\ Append(s, e)[Len(s) + 1] = e
  BY AppendProperties, LenProperties
<1>2. ASSUME NEW c \in Class
      PROVE  /\ Cardinality(Positions(s, c)) \in Nat
             /\ Cardinality(Positions(Append(s, e), c))
                = IF c = e THEN Cardinality(Positions(s, c)) + 1
                           ELSE Cardinality(Positions(s, c))
  <2>1. IsFiniteSet(1 .. Len(s))
    BY <1>1, FS_Interval
  <2>2. IsFiniteSet(Positions(s, c))
    BY <1>1, <2>1, FS_Subset DEF Positions
  <2>3. Cardinality(Positions(s, c)) \in Nat
    BY <2>2, FS_CardinalityType
  <2>4. CASE c = e
    <3>1. Positions(Append(s, e), c) = Positions(s, c) \cup {Len(s) + 1}
      BY <1>1, <2>4 DEF Positions
    <3>2. Len(s) + 1 \notin Positions(s, c)
      BY <1>1 DEF Positions
    <3> QED BY <2>2, <2>3, <2>4, <3>1, <3>2, FS_AddElement
  <2>5. CASE c # e
    <3>1. Positions(Append(s, e), c) = Positions(s, c)
      BY <1>1, <2>5 DEF Positions
    <3> QED BY <2>2, <2>3, <2>5, <3>1
  <2> QED BY <2>2, <2>3, <2>4, <2>5
<1>3. ASSUME NEW c \in Class
      PROVE  Tally(Append(s, e))[c] = Counted(Tally(s), e)[c]
  <2>1. /\ Tally(Append(s, e))[c] = Cardinality(Positions(Append(s, e), c)) % U16
        /\ Tally(s)[c] = Cardinality(Positions(s, c)) % U16
    BY DEF Tally
  <2>2. Counted(Tally(s), e)[c] = IF c = e THEN (Tally(s)[c] + 1) % U16 ELSE Tally(s)[c]
    BY DEF Counted, Tally
  <2>3. CASE c = e
    <3>1. ((Cardinality(Positions(s, c)) % U16) + 1) % U16
          = (Cardinality(Positions(s, c)) + 1) % U16
      BY <1>2, Wraps, RoundAssumption
    <3> QED BY <1>2, <2>1, <2>2, <2>3, <3>1
  <2>4. CASE c # e
    BY <1>2, <2>1, <2>2, <2>4
  <2> QED BY <2>3, <2>4
<1>4. Tally(Append(s, e)) \in [Class -> 0 .. U16 - 1] /\ Tally(s) \in [Class -> 0 .. U16 - 1]
  BY <1>1, TallyType
<1>5. Counted(Tally(s), e) \in [Class -> 0 .. U16 - 1]
  BY <1>4, RoundAssumption DEF Counted
<1> QED BY <1>3, <1>4, <1>5

\* Nothing inspected, nothing counted.
LEMMA TallyEmpty == Tally(<<>>) = ZeroCounts
<1>1. \A c \in Class : Cardinality(Positions(<<>>, c)) = 0
  BY FS_EmptySet DEF Positions
<1>2. 0 % U16 = 0
  BY RoundAssumption, Wraps
<1>3. \A c \in Class : Tally(<<>>)[c] = 0
  BY <1>1, <1>2 DEF Tally
<1>4. <<>> \in Seq(Class)
  BY EmptySeq
<1>5. Tally(<<>>) \in [Class -> 0 .. U16 - 1]
  BY <1>4, TallyType
<1>6. ZeroCounts \in [Class -> 0 .. U16 - 1] /\ \A c \in Class : ZeroCounts[c] = 0
  BY RoundAssumption DEF ZeroCounts
<1> QED BY <1>3, <1>5, <1>6

----------------------------------------------------------------------------
(* Every behaviour: RInv.                                                  *)

\* Each part of the invariant is about its own variables.
LEMMA CameraKept == CameraOK /\ UNCHANGED <<camera, faults, cmds>> => CameraOK'
BY DEF CameraOK, camera

\* Steps that leave uart_ctrl's state alone.
LEMMA ControlKept == ControlOK /\ UNCHANGED <<control, buzzer>> => ControlOK'
BY DEF ControlOK, control

\* Steps that leave the picture buffer alone.
LEMMA PictureKept == PictureOK /\ Flags /\ UNCHANGED <<picture, overrun>> => PictureOK' /\ Flags'
BY DEF PictureOK, Flags, picture

\* Steps that leave the counters and the history alone.
LEMMA TallyKept == TallyOK /\ TalliesAgree /\ UNCHANGED tally => TallyOK' /\ TalliesAgree'
BY DEF TallyOK, TalliesAgree, tally

\* Steps that leave the report and the cloud alone.
LEMMA OutputKept ==
    ASSUME OutputOK, UNCHANGED output, img' = img \/ img' \notin {"upload", "count"}
    PROVE  OutputOK'
BY DEF OutputOK, output

\* The round starts with everything reset.
LEMMA RoundInit == Init => RInv
<1> SUFFICES ASSUME Init PROVE RInv
  OBVIOUS
<1> USE RoundAssumption DEF Init
<1>1. 0 \in Class
  BY DEF Class
<1>2. Flags /\ CameraOK
  <2>1. Flags
    BY DEF Flags
  <2>2. <<>> \in Seq({"(", ")"})
    BY EmptySeq
  <2> QED BY <2>1, <2>2 DEF CameraOK
<1>3. img \in Places /\ ControlOK /\ PictureOK /\ BuzzerSilent
  BY <1>1 DEF Places, ControlOK, PictureOK, BuzzerSilent
<1>4. ZeroCounts \in [Class -> 0 .. U16 - 1] /\ ZeroRound \in [0 .. MaxRound - 1 -> Class]
  BY <1>1 DEF ZeroCounts, ZeroRound
<1>5. <<>> \in Seq(Class) /\ Len(<<>>) = 0
  BY EmptySeq
<1>6. TallyOK
  BY <1>4, <1>5 DEF TallyOK
<1>7. OutputOK
  BY <1>4, <1>5 DEF OutputOK
<1>8. TalliesAgree
  <2>1. 0 % U8 = 0
    BY Wraps
  <2> QED BY <1>5, <2>1, TallyEmpty DEF TalliesAgree
<1> QED BY <1>2, <1>3, <1>6, <1>7, <1>8 DEF RInv

\* Steps of the camera: a batch, a byte, a frame, a reset.
LEMMA CameraSteps ==
    ASSUME RInv, StartBatch \/ Camera \/ CameraReset
    PROVE  RInv'
<1> USE DEF RInv
<1>1. UNCHANGED <<control, img, tally, output, buzzer, overrun>>
  BY DEF StartBatch, Camera, WriteOpen, WriteClose, Write, SendFrame, CameraReset
<1>2. img' \in Places /\ ControlOK' /\ BuzzerSilent'
  BY <1>1, ControlKept DEF BuzzerSilent, control
<1>3. TallyOK' /\ TalliesAgree' /\ OutputOK'
  BY <1>1, TallyKept, OutputKept
<1>4. CASE StartBatch
  <2>1. \A b \in Batches : Len(b) \in 1 .. MaxPhotos
    BY BatchFacts
  <2>2. batch' \in Batches /\ cam' = "announce" /\ i' = 0 /\ UNCHANGED <<faults, cmds>>
    BY <1>4 DEF StartBatch
  <2>3. CameraOK'
    BY <2>1, <2>2, RoundAssumption DEF CameraOK
  <2>4. PictureOK' /\ Flags'
    BY <1>1, <1>4, PictureKept DEF StartBatch
  <2> QED BY <1>2, <1>3, <2>3, <2>4
<1>5. CASE Camera
  <2>1. /\ batch \in Batches /\ batch' = batch /\ Len(batch) \in 1 .. MaxPhotos /\ i \in Nat
        /\ \A k \in 1 .. Len(batch) : batch[k] \in Class
    BY <1>5, BatchFacts DEF CameraOK, Camera, WriteOpen, WriteClose, Write, SendFrame
  <2>2. faults' \in 0 .. MAX_FAULTS
    BY <1>5, RoundAssumption
       DEF CameraOK, Camera, WriteOpen, WriteClose, Write, SendFrame, Lost
  <2>3. cmds' \in Seq({"(", ")"})
    BY <1>5, AppendProperties DEF CameraOK, Camera, WriteOpen, WriteClose, Write, SendFrame
  <2>4. CASE WriteOpen
    <3>1. CameraOK'
      BY <2>1, <2>2, <2>3, <2>4, RoundAssumption DEF CameraOK, WriteOpen
    <3>2. PictureOK' /\ Flags'
      BY <1>1, <2>4, PictureKept DEF WriteOpen, Write
    <3> QED BY <1>2, <1>3, <3>1, <3>2
  <2>5. CASE WriteClose
    <3>1. CameraOK'
      BY <2>1, <2>2, <2>3, <2>5, RoundAssumption DEF CameraOK, WriteClose
    <3>2. PictureOK' /\ Flags'
      BY <1>1, <2>5, PictureKept DEF WriteClose, Write
    <3> QED BY <1>2, <1>3, <3>1, <3>2
  <2>6. CASE SendFrame
    <3>1. CameraOK'
      BY <2>1, <2>2, <2>3, <2>6, RoundAssumption DEF CameraOK, SendFrame
    <3>2. i + 1 \in 1 .. Len(batch)
      BY <2>1, <2>6 DEF CameraOK, SendFrame
    <3>3. PictureOK'
      BY <2>1, <2>6, <3>2 DEF PictureOK, SendFrame, picture
    <3>4. Flags'
      BY <1>1, <2>6 DEF Flags, SendFrame, picture
    <3> QED BY <1>2, <1>3, <3>1, <3>3, <3>4
  <2> QED BY <1>5, <2>4, <2>5, <2>6 DEF Camera
<1>6. CASE CameraReset
  <2>1. CameraOK'
    BY <1>6, RoundAssumption DEF CameraOK, CameraReset, Lost
  <2>2. PictureOK' /\ Flags'
    BY <1>1, <1>6, PictureKept DEF CameraReset
  <2> QED BY <1>2, <1>3, <2>1, <2>2
<1> QED BY <1>4, <1>5, <1>6

\* Steps of uart_ctrl: it counts, publishes and beeps.
LEMMA CtrlSteps ==
    ASSUME RInv, Ctrl
    PROVE  RInv'
<1> USE DEF RInv
<1>1. UNCHANGED <<camera, faults, picture, img, tally, output, overrun>>
  BY DEF Ctrl, CountPhoto, CloseBatch, CtrlBeep, SetRound
<1>2. img' \in Places /\ PictureOK' /\ Flags'
  BY <1>1, PictureKept
<1>3. TallyOK' /\ TalliesAgree' /\ OutputOK'
  BY <1>1, TallyKept, OutputKept
<1>4. CameraOK'
  <2>1. cmds' \in Seq({"(", ")"})
    BY HeadTailProperties DEF CameraOK, Ctrl, CountPhoto, CloseBatch, CtrlBeep, SetRound
  <2> QED BY <1>1, <2>1 DEF CameraOK, camera
<1>5. ControlOK'
  <2>1. Incremented(image_count) \in 0 .. U8 - 1
    BY RoundAssumption, Wraps DEF ControlOK, Incremented
  <2> QED BY <2>1, RoundAssumption
          DEF ControlOK, Ctrl, CountPhoto, CloseBatch, CtrlBeep, SetRound, CountAfterClose
<1>6. BuzzerSilent'
  BY <1>1 DEF BuzzerSilent, Ctrl, CountPhoto, CloseBatch, CtrlBeep, SetRound
<1> QED BY <1>2, <1>3, <1>4, <1>5, <1>6

\* What a report holds are classes.
LEMMA ResultsType ==
    ASSUME RInv, NEW n \in 0 .. U8 - 1
    PROVE  Results(n) \in Seq(Class)
<1> DEFINE m == IF n <= MaxRound THEN n ELSE MaxRound
<1>1. m \in Nat /\ m <= MaxRound
  BY RoundAssumption
<1>2. Results(n) = [k \in 1 .. m |-> last_detect[k - 1]]
  BY DEF Results
<1>3. \A k \in 1 .. m : last_detect[k - 1] \in Class
  BY <1>1, RoundAssumption DEF RInv, TallyOK
<1> HIDE DEF m
<1> QED BY <1>1, <1>2, <1>3

\* The classification of a picture, with both counters and the history.
LEMMA InspectStep ==
    ASSUME RInv, defect_inspect_main
    PROVE  RInv'
<1> USE DEF RInv
<1>0. PICK max_idx \in Class :
         /\ last_detect' = IF StoreAt(detect_round, detection_round_cnt) /\ detect_round < MaxRound
                           THEN [last_detect EXCEPT ![detect_round] = max_idx]
                           ELSE last_detect
         /\ defect_counter' = Counted(defect_counter, max_idx)
         /\ inspected' = Append(inspected, max_idx)
  BY DEF defect_inspect_main, PictureOK
<1>1. UNCHANGED <<camera, faults, cmds, control, picture, output, buzzer>>
  BY DEF defect_inspect_main
<1>2. img' \in {"open", "wait"}
  BY DEF defect_inspect_main
<1>3. CameraOK' /\ ControlOK' /\ PictureOK' /\ OutputOK'
  BY <1>1, <1>2, CameraKept, ControlKept, OutputKept DEF PictureOK, picture
<1>4. Flags'
  BY <1>1 DEF Flags, defect_inspect_main, picture
<1>5. BuzzerSilent'
  BY <1>1 DEF BuzzerSilent, defect_inspect_main, control
<1>6. /\ inspected \in Seq(Class) /\ inspected' \in Seq(Class) /\ Len(inspected) \in Nat
      /\ Len(inspected') = Len(inspected) + 1
  BY <1>0, AppendProperties, LenProperties DEF TallyOK
<1>7. detect_round' \in 0 .. U8 - 1 /\ detect_round' = Len(inspected') % U8
  <2>1. detect_round' = (detect_round + 1) % U8 /\ detect_round = Len(inspected) % U8
    BY DEF defect_inspect_main, Incremented, TalliesAgree
  <2>2. U8 \in Nat \ {0}
    BY RoundAssumption
  <2>3. ((Len(inspected) % U8) + 1) % U8 = (Len(inspected) + 1) % U8
    BY <1>6, <2>2, Wraps
  <2>4. (Len(inspected) + 1) % U8 \in 0 .. U8 - 1
    <3>1. Len(inspected) + 1 \in Nat
      BY <1>6
    <3> QED BY <2>2, <3>1, Wraps
  <2> QED BY <1>6, <2>1, <2>3, <2>4
<1>8. TalliesAgree'
  <2>1. Tally(inspected') = Counted(Tally(inspected), max_idx)
    BY <1>0, <1>6, TallyAppend
  <2> QED BY <1>0, <1>7, <2>1 DEF TalliesAgree
<1>9. TallyOK'
  <2>1. defect_counter' \in [Class -> 0 .. U16 - 1]
    BY <1>6, <1>8, TallyType DEF TalliesAgree
  <2>2. last_detect' \in [0 .. MaxRound - 1 -> Class]
    BY <1>0 DEF TallyOK
  <2> QED BY <1>6, <1>7, <2>1, <2>2 DEF TallyOK
<1> QED BY <1>2, <1>3, <1>4, <1>5, <1>8, <1>9 DEF Places

\* Steps of uart_img.
LEMMA ImgSteps ==
    ASSUME RInv, Img
    PROVE  RInv'
<1> USE DEF RInv
<1>1. CASE TakeFrame \/ BeginCopy
  <2>1. /\ UNCHANGED <<camera, faults, cmds, control, image_buffer, tally, output, buzzer, overrun>>
        /\ img' \in {"copy", "copying"} /\ frame_ready' \in {0, frame_ready} /\ torn' \in {torn,
            FALSE}
        /\ img # "beeping"
    BY <1>1 DEF TakeFrame, BeginCopy
  <2>2. CameraOK' /\ ControlOK' /\ OutputOK' /\ TallyOK' /\ TalliesAgree'
    BY <2>1, CameraKept, ControlKept, OutputKept, TallyKept
  <2>3. img' \in Places /\ PictureOK' /\ BuzzerSilent'
    BY <2>1 DEF Places, PictureOK, BuzzerSilent, control
  <2>4. Flags'
    BY <2>1 DEF Flags
  <2> QED BY <2>2, <2>3, <2>4
<1>2. CASE defect_inspect_main
  BY <1>2, InspectStep
<1>3. CASE OpenCsv
  <2>1. /\ UNCHANGED <<camera, cmds, control, picture, tally, output, buzzer, overrun>>
        /\ img' \in {"write", "wait"} /\ img # "beeping"
        /\ faults' = faults \/ (faults' = faults + 1 /\ faults < MAX_FAULTS)
    BY <1>3 DEF OpenCsv, Lost
  <2>2. ControlOK' /\ OutputOK' /\ TallyOK' /\ TalliesAgree' /\ PictureOK' /\ Flags'
    BY <2>1, ControlKept, OutputKept, TallyKept, PictureKept
  <2>3. CameraOK'
    BY <2>1, RoundAssumption DEF CameraOK, camera
  <2>4. img' \in Places /\ BuzzerSilent'
    BY <2>1 DEF Places, BuzzerSilent, control
  <2> QED BY <2>2, <2>3, <2>4
<1>4. CASE WriteCsv
  <2>1. /\ UNCHANGED <<camera, faults, cmds, control, picture, tally, cloud, cloud_count, buzzer>>
        /\ total' = detection_round_cnt /\ csv' = Results(detection_round_cnt) /\ accepted' = 0
        /\ img' = "upload" /\ img # "beeping"
    BY <1>4 DEF WriteCsv
  <2>2. CameraOK' /\ ControlOK' /\ TallyOK' /\ TalliesAgree' /\ PictureOK'
    BY <2>1, CameraKept, ControlKept, TallyKept DEF PictureOK, picture
  <2>3. Flags'
    BY <1>4 DEF Flags, WriteCsv, picture
  <2>4. img' \in Places /\ BuzzerSilent'
    BY <2>1 DEF Places, Uploading, BuzzerSilent, control
  <2>5. OutputOK'
    <3>1. detection_round_cnt \in 0 .. U8 - 1
      BY DEF ControlOK
    <3>2. csv' \in Seq(Class)
      BY <2>1, <3>1, ResultsType
    <3> QED BY <2>1, <3>1, <3>2 DEF OutputOK
  <2> QED BY <2>2, <2>3, <2>4, <2>5
<1>5. CASE onenet_upload_defect_report
  <2>1. /\ UNCHANGED <<camera, faults, cmds, control, picture, tally, total, csv, cloud_count,
                       buzzer, overrun>>
        /\ img' = "count" /\ img = "upload"
        /\ cloud' \in {cloud, Results(total)} /\ accepted' \in {accepted, accepted + 1}
    BY <1>5 DEF onenet_upload_defect_report
  <2>2. CameraOK' /\ ControlOK' /\ TallyOK' /\ TalliesAgree' /\ PictureOK' /\ Flags'
    BY <2>1, CameraKept, ControlKept, TallyKept, PictureKept
  <2>3. img' \in Places /\ BuzzerSilent'
    BY <2>1 DEF Places, Uploading, BuzzerSilent, control
  <2>4. OutputOK'
    <3>1. Results(total) \in Seq(Class)
      BY ResultsType DEF OutputOK
    <3> QED BY <2>1, <3>1 DEF OutputOK
  <2> QED BY <2>2, <2>3, <2>4
<1>6. CASE onenet_upload_defect_count
  <2>1. /\ UNCHANGED <<camera, faults, cmds, control, picture, tally, total, csv, cloud,
                       buzzer, overrun>>
        /\ img' = "beep" /\ img = "count"
        /\ cloud_count' \in {cloud_count, defect_counter} /\ accepted' \in {accepted, accepted + 1}
    BY <1>6 DEF onenet_upload_defect_count
  <2>2. CameraOK' /\ ControlOK' /\ TallyOK' /\ TalliesAgree' /\ PictureOK' /\ Flags'
    BY <2>1, CameraKept, ControlKept, TallyKept, PictureKept
  <2>3. img' \in Places /\ BuzzerSilent'
    BY <2>1 DEF Places, Uploading, BuzzerSilent, control
  <2>4. OutputOK'
    BY <2>1 DEF OutputOK, TallyOK
  <2> QED BY <2>2, <2>3, <2>4
<1>7. CASE BeepOn \/ BeepOff
  <2>1. /\ UNCHANGED <<camera, faults, cmds, control, picture, tally, output, overrun>>
        /\ \/ img' = "beeping" /\ buzzer' = 1
           \/ img' = "reset" /\ buzzer' = 0
    BY <1>7 DEF BeepOn, BeepOff
  <2>2. CameraOK' /\ TallyOK' /\ TalliesAgree' /\ PictureOK' /\ Flags' /\ OutputOK'
    BY <2>1, CameraKept, TallyKept, PictureKept, OutputKept
  <2>3. img' \in Places /\ BuzzerSilent' /\ ControlOK'
    BY <2>1 DEF Places, Uploading, BuzzerSilent, ControlOK, control
  <2> QED BY <2>2, <2>3
<1>8. CASE Reset
  <2>1. /\ UNCHANGED <<camera, faults, cmds, control, picture, output, buzzer, overrun>>
        /\ img' = "wait" /\ img = "reset" /\ defect_counter' = ZeroCounts
        /\ last_detect' = ZeroRound /\ detect_round' = 0 /\ inspected' = <<>>
    BY <1>8 DEF Reset, CountsAfterReset
  <2>2. CameraOK' /\ ControlOK' /\ PictureOK' /\ Flags' /\ OutputOK'
    BY <2>1, CameraKept, ControlKept, PictureKept, OutputKept
  <2>3. img' \in Places /\ BuzzerSilent'
    BY <2>1 DEF Places, BuzzerSilent, control
  <2>4. 0 \in Class /\ 0 \in 0 .. U16 - 1 /\ 0 \in 0 .. U8 - 1 /\ U8 \in Nat \ {0}
    BY RoundAssumption DEF Class
  <2>5. TallyOK'
    BY <2>1, <2>4, EmptySeq DEF TallyOK, ZeroCounts, ZeroRound
  <2>6. TalliesAgree'
    <3>1. Len(<<>>) = 0 /\ 0 % U8 = 0
      BY <2>4, EmptySeq, Wraps
    <3> QED BY <2>1, <3>1, TallyEmpty DEF TalliesAgree
  <2> QED BY <2>2, <2>3, <2>5, <2>6
<1> QED BY <1>1, <1>2, <1>3, <1>4, <1>5, <1>6, <1>7, <1>8 DEF Img

\* A step of something else.
LEMMA RoundStutter == RInv /\ UNCHANGED vars => RInv'
BY CameraKept, ControlKept, PictureKept, TallyKept, OutputKept DEF RInv, vars, BuzzerSilent, control

\* The inductive invariant of every behaviour of the round.
THEOREM RoundInvariant == Spec => []RInv
<1>1. RInv /\ [Next]_vars => RInv'
  BY CameraSteps, CtrlSteps, ImgSteps, RoundStutter DEF Next
<1> QED BY <1>1, RoundInit, PTL DEF Spec

\* Types and ranges of the counters, for every interleaving and fault.
THEOREM RoundTypeCorrect == Spec => []TypeOK
<1>1. RInv => TypeOK
  <2> SUFFICES ASSUME RInv PROVE TypeOK
    OBVIOUS
  <2>1. torn \in BOOLEAN /\ overrun \in BOOLEAN
    BY DEF RInv, Flags
  <2> QED BY <2>1 DEF RInv, TypeOK, Places, Uploading, CameraOK, ControlOK, PictureOK, TallyOK,
                      OutputOK
<1> QED BY <1>1, RoundInvariant, PTL

\* parse_output_result, detect_round and the resets keep the same tally,
\* modulo the widths of the counters, whatever interleaves or fails.
THEOREM TalliesAlwaysAgree == Spec => []TalliesAgree
<1>1. RInv => TalliesAgree
  BY DEF RInv
<1> QED BY <1>1, RoundInvariant, PTL

\* The buzzer is silent when neither thread that drives it is beeping.
THEOREM BuzzerFallsSilent == Spec => []BuzzerSilent
<1>1. RInv => BuzzerSilent
  BY DEF RInv
<1> QED BY <1>1, RoundInvariant, PTL

----------------------------------------------------------------------------
(* The board keeps up with the camera and the SD card works: PInv.         *)

Paced  == ImgInTime /\ CtrlInTime
InTime == Paced /\ "sd" \notin FaultKinds

\* A step that leaves the number of faults alone lost nothing.
LEMMA NotLost ==
    ASSUME RInv, faults' = faults
    PROVE  \A kind : ~Lost(kind)
<1>1. faults \in Nat
  BY RoundAssumption DEF RInv, CameraOK
<1> QED BY <1>1 DEF Lost

\* uart_ctrl is at rest while uart_img has a picture or a report to do, so
\* that the number of photos does not change in between.
Quiet == ~ImgIdle => CtrlIdle

\* While a round goes on every result is stored in its place, ...
Storing ==
    img \in {"wait", "copy", "copying"} =>
        /\ Len(inspected) <= U8 - 2
        /\ ~overrun => \A k \in 1 .. Len(inspected) :
                          k <= MaxRound /\ last_detect[k - 1] = inspected[k]

\* ... and when it is over, those the report will show.
Complete ==
    img \in {"open", "write"} =>
        /\ detection_round_cnt <= Len(inspected)
        /\ ~overrun => \A k \in 1 .. detection_round_cnt :
                          k <= MaxRound /\ last_detect[k - 1] = inspected[k]

Reported == ~overrun => ReportIsInspectedPrefix

PInv == Quiet /\ Storing /\ Complete /\ Reported

\* Nothing is inspected or reported at first.
LEMMA KeepsUpInit == Init => PInv
<1> SUFFICES ASSUME Init PROVE PInv
  OBVIOUS
<1>1. Len(<<>>) = 0
  BY EmptySeq
<1>2. Quiet
  BY DEF Init, Quiet, ImgIdle
<1>3. Storing /\ Complete /\ Reported
  BY <1>1, RoundAssumption DEF Init, Storing, Complete, Reported, ReportIsInspectedPrefix
<1> QED BY <1>2, <1>3 DEF PInv

\* Neither the camera nor uart_ctrl touches what uart_img works on.
LEMMA KeepsUpOthers ==
    ASSUME Paced, RInv, PInv, StartBatch \/ Camera \/ CameraReset \/ Ctrl
    PROVE  PInv'
<1>1. UNCHANGED <<img, tally, output, overrun>>
  BY DEF StartBatch, Camera, WriteOpen, WriteClose, Write, SendFrame, CameraReset,
         Ctrl, CountPhoto, CloseBatch, CtrlBeep, SetRound
<1>2. Storing' /\ Reported'
  BY <1>1 DEF PInv, Storing, Reported, ReportIsInspectedPrefix, tally, output
<1>3. CASE Ctrl
  <2>1. ImgIdle
    BY <1>3 DEF PInv, Quiet, CtrlIdle, Ctrl, CountPhoto, CloseBatch, CtrlBeep, SetRound
  <2>2. frame_ready' = frame_ready
    BY <1>3 DEF Ctrl, CountPhoto, CloseBatch, CtrlBeep, SetRound, picture
  <2>3. Quiet' /\ Complete'
    BY <1>1, <2>1, <2>2 DEF Quiet, Complete, ImgIdle
  <2> QED BY <1>2, <2>3 DEF PInv
<1>4. CASE StartBatch \/ Camera \/ CameraReset
  <2>1. UNCHANGED control
    BY <1>4 DEF StartBatch, Camera, WriteOpen, WriteClose, Write, SendFrame, CameraReset
  <2>2. Complete'
    BY <1>1, <2>1 DEF PInv, Complete, tally, control
  <2>3. CASE WriteOpen \/ WriteClose
    <3>1. ImgIdle /\ UNCHANGED picture
      BY <2>3 DEF Paced, WriteOpen, WriteClose, Write
    <3>2. Quiet'
      BY <1>1, <3>1 DEF Quiet, ImgIdle, picture
    <3> QED BY <1>2, <2>2, <3>2 DEF PInv
  <2>4. CASE SendFrame
    <3>1. CtrlIdle /\ cmds' = cmds
      BY <2>4 DEF Paced, SendFrame
    <3>2. Quiet'
      BY <2>1, <3>1 DEF Quiet, CtrlIdle, control
    <3> QED BY <1>2, <2>2, <3>2 DEF PInv
  <2>5. CASE StartBatch \/ CameraReset
    <3>1. UNCHANGED <<picture, cmds>>
      BY <2>5 DEF StartBatch, CameraReset
    <3>2. Quiet'
      BY <1>1, <2>1, <3>1 DEF PInv, Quiet, ImgIdle, CtrlIdle, picture, control
    <3> QED BY <1>2, <2>2, <3>2 DEF PInv
  <2> QED BY <1>4, <2>3, <2>4, <2>5 DEF Camera
<1> QED BY <1>3, <1>4

\* Without a failing SD card detect_round does not wrap.
LEMMA NoWrap ==
    ASSUME RInv, PInv, img \in {"wait", "copy", "copying"}
    PROVE  /\ Len(inspected) \in Nat /\ detect_round = Len(inspected)
           /\ Incremented(detect_round) = Len(inspected) + 1
<1>1. Len(inspected) \in Nat
  BY LenProperties DEF RInv, TallyOK
<1>2. U8 \in Nat \ {0} /\ Len(inspected) <= U8 - 2 /\ detect_round = Len(inspected) % U8
  BY RoundAssumption DEF RInv, PInv, Storing, TalliesAgree
<1>3. Len(inspected) % U8 = Len(inspected)
  <2>1. Len(inspected) < U8
    BY <1>1, <1>2
  <2> QED BY <1>1, <1>2, <2>1, Wraps
<1>4. Len(inspected) + 1 \in Nat /\ Len(inspected) + 1 < U8
  BY <1>1, <1>2
<1>5. (Len(inspected) + 1) % U8 = Len(inspected) + 1
  BY <1>2, <1>4, Wraps
<1> QED BY <1>1, <1>2, <1>3, <1>5 DEF Incremented

\* uart_img inspects a picture: the result goes to its place in last_detect.
LEMMA KeepsUpInspecting ==
    ASSUME RInv, PInv, defect_inspect_main
    PROVE  Storing' /\ Complete' /\ Reported'
<1>1. /\ Len(inspected) \in Nat /\ detect_round = Len(inspected) /\ img = "copying"
      /\ detect_round' = Len(inspected) + 1
  BY NoWrap DEF defect_inspect_main
<1>2. /\ detection_round_cnt \in Nat /\ detection_round_cnt' = detection_round_cnt
      /\ detection_round_cnt <= U8 - 1 /\ MaxRound \in Nat /\ U8 \in Nat
  BY RoundAssumption DEF RInv, ControlOK, defect_inspect_main, control
<1>3. PICK e \in Class :
        /\ last_detect' = IF detect_round < detection_round_cnt /\ detect_round < MaxRound
                          THEN [last_detect EXCEPT ![detect_round] = e]
                          ELSE last_detect
        /\ inspected' = Append(inspected, e)
  BY DEF RInv, PictureOK, defect_inspect_main, StoreAt
<1>4. /\ Len(inspected') = Len(inspected) + 1
      /\ \A k \in 1 .. Len(inspected) : inspected'[k] = inspected[k]
      /\ inspected'[Len(inspected) + 1] = e
  BY <1>3, AppendProperties DEF RInv, TallyOK
<1>5. ~overrun' => ~overrun /\ (detect_round < detection_round_cnt => detect_round < MaxRound)
  <2> SUFFICES ASSUME ~overrun'
               PROVE  ~overrun /\ (detect_round < detection_round_cnt => detect_round < MaxRound)
    OBVIOUS
  <2>1. ~overrun /\ ~(detect_round < detection_round_cnt /\ detect_round >= MaxRound)
    BY DEF defect_inspect_main, StoreAt
  <2> QED BY <1>1, <1>2, <2>1
<1>6. ~overrun => \A k \in 1 .. Len(inspected) :
                     k <= MaxRound /\ last_detect[k - 1] = inspected[k]
  BY <1>1 DEF PInv, Storing
<1>7. /\ img' = IF detect_round' >= detection_round_cnt THEN "open" ELSE "wait"
  BY DEF defect_inspect_main, RoundDone
<1>8. last_detect \in [0 .. MaxRound - 1 -> Class]
  BY DEF RInv, TallyOK
<1>9. CASE detect_round < detection_round_cnt
  <2>1. ~overrun' => \A k \in 1 .. Len(inspected') :
                        k <= MaxRound /\ last_detect'[k - 1] = inspected'[k]
    <3> SUFFICES ASSUME ~overrun', NEW k \in 1 .. Len(inspected')
                 PROVE  k <= MaxRound /\ last_detect'[k - 1] = inspected'[k]
      OBVIOUS
    <3>1. /\ last_detect' = [last_detect EXCEPT ![Len(inspected)] = e]
          /\ Len(inspected) \in 0 .. MaxRound - 1
      BY <1>1, <1>2, <1>3, <1>5, <1>9
    <3>2. CASE k \in 1 .. Len(inspected)
      <4>1. k <= MaxRound /\ last_detect[k - 1] = inspected[k]
        BY <1>5, <1>6, <3>2
      <4>2. last_detect'[k - 1] = last_detect[k - 1]
        BY <1>1, <1>2, <1>8, <3>1, <3>2, <4>1
      <4> QED BY <1>4, <3>2, <4>1, <4>2
    <3>3. CASE k = Len(inspected) + 1
      BY <1>1, <1>2, <1>4, <1>8, <3>1, <3>3
    <3> QED BY <1>1, <1>4, <3>2, <3>3
  <2>2. Storing'
    BY <1>1, <1>2, <1>4, <1>7, <2>1 DEF Storing
  <2>3. Complete'
    BY <1>1, <1>2, <1>4, <1>7, <1>9, <2>1 DEF Complete
  <2> QED BY <1>7, <2>2, <2>3 DEF Reported, ReportIsInspectedPrefix
<1>10. CASE ~(detect_round < detection_round_cnt)
  <2>1. last_detect' = last_detect /\ img' = "open"
    BY <1>1, <1>2, <1>3, <1>7, <1>10
  <2>2. detection_round_cnt <= Len(inspected)
    BY <1>1, <1>2, <1>10
  <2>3. ~overrun' => \A k \in 1 .. detection_round_cnt :
                        k <= MaxRound /\ last_detect'[k - 1] = inspected'[k]
    BY <1>1, <1>2, <1>4, <1>5, <1>6, <2>1, <2>2
  <2>4. Complete'
    BY <1>1, <1>2, <1>4, <2>2, <2>3 DEF Complete
  <2> QED BY <2>1, <2>4 DEF Storing, Reported, ReportIsInspectedPrefix
<1> QED BY <1>9, <1>10

\* The report is written from last_detect.
LEMMA KeepsUpWriting ==
    ASSUME RInv, PInv, WriteCsv
    PROVE  Reported'
<1> SUFFICES ASSUME ~overrun'
             PROVE  total' <= Len(inspected') /\ csv' = SubSeq(inspected', 1, total')
  BY DEF Reported, ReportIsInspectedPrefix
<1> DEFINE n == detection_round_cnt
<1>1. /\ total' = n /\ csv' = Results(n) /\ inspected' = inspected /\ ~overrun
      /\ ~(n > MaxRound) /\ img = "write"
  BY DEF WriteCsv, tally
<1>2. n \in Nat /\ MaxRound \in Nat /\ inspected \in Seq(Class) /\ Len(inspected) \in Nat
  BY RoundAssumption, LenProperties DEF RInv, ControlOK, TallyOK
<1>3. n <= Len(inspected) /\ \A k \in 1 .. n : last_detect[k - 1] = inspected[k]
  BY <1>1 DEF PInv, Complete
<1>4. Results(n) = [k \in 1 .. n |-> last_detect[k - 1]]
  BY <1>1, <1>2 DEF Results
<1> HIDE DEF n
<1>5. SubSeq(inspected, 1, n) = [k \in 1 .. n |-> inspected[k]]
  BY <1>2, <1>3
<1> QED BY <1>1, <1>2, <1>3, <1>4, <1>5

\* Steps of uart_img on a board that keeps up.
LEMMA KeepsUpImg ==
    ASSUME RInv, PInv, Img, "sd" \notin FaultKinds \/ faults' = faults
    PROVE  PInv'
<1>1. Quiet'
  <2>1. ~ImgIdle /\ UNCHANGED <<cmds, control>>
    BY DEF ImgIdle, Img, TakeFrame, BeginCopy, defect_inspect_main, OpenCsv, WriteCsv,
           onenet_upload_defect_report, onenet_upload_defect_count, BeepOn, BeepOff, Reset
  <2> QED BY <2>1 DEF PInv, Quiet, CtrlIdle, control
<1>2. CASE TakeFrame \/ BeginCopy
  <2>1. UNCHANGED <<tally, overrun>> /\ {img, img'} \subseteq {"wait", "copy", "copying"}
    BY <1>2 DEF TakeFrame, BeginCopy
  <2>2. Storing' /\ Complete' /\ Reported'
    BY <2>1 DEF PInv, Storing, Complete, Reported, ReportIsInspectedPrefix, tally
  <2> QED BY <1>1, <2>2 DEF PInv
<1>3. CASE defect_inspect_main
  BY <1>1, <1>3, KeepsUpInspecting DEF PInv
<1>4. CASE OpenCsv
  <2>1. ~Lost("sd")
    BY NotLost DEF Lost
  <2>2. UNCHANGED <<tally, overrun, control>> /\ img = "open" /\ img' = "write"
    BY <1>4, <2>1 DEF OpenCsv
  <2>3. Storing' /\ Complete' /\ Reported'
    BY <2>2 DEF PInv, Storing, Complete, Reported, ReportIsInspectedPrefix, tally, control
  <2> QED BY <1>1, <2>3 DEF PInv
<1>5. CASE WriteCsv
  <2>1. Reported'
    BY <1>5, KeepsUpWriting
  <2>2. Storing' /\ Complete'
    BY <1>5 DEF WriteCsv, Storing, Complete
  <2> QED BY <1>1, <2>1, <2>2 DEF PInv
<1>6. CASE onenet_upload_defect_report \/ onenet_upload_defect_count \/ BeepOn \/ BeepOff
  <2>1. UNCHANGED <<inspected, overrun, total, csv>> /\ {img, img'} \subseteq Uploading
    BY <1>6 DEF onenet_upload_defect_report, onenet_upload_defect_count, BeepOn, BeepOff,
                tally, output, Uploading
  <2>2. Storing' /\ Complete' /\ Reported'
    BY <2>1 DEF PInv, Storing, Complete, Reported, ReportIsInspectedPrefix, Uploading
  <2> QED BY <1>1, <2>2 DEF PInv
<1>7. CASE Reset
  <2>1. img' = "wait" /\ inspected' = <<>> /\ Len(<<>>) = 0
    BY <1>7, EmptySeq DEF Reset
  <2>2. Storing' /\ Complete' /\ Reported'
    BY <2>1, RoundAssumption DEF Storing, Complete, Reported, ReportIsInspectedPrefix
  <2> QED BY <1>1, <2>2 DEF PInv
<1> QED BY <1>2, <1>3, <1>4, <1>5, <1>6, <1>7 DEF Img

\* A step of something else.
LEMMA KeepsUpStutter == PInv /\ UNCHANGED vars => PInv'
BY DEF PInv, Quiet, ImgIdle, CtrlIdle, Storing, Complete, Reported, ReportIsInspectedPrefix, vars,
       control, picture, tally, output

\* generate_defect_stat_csv reports exactly the first results since the last
\* reset, also when pictures, command bytes or the camera are lost and rounds
\* run into each other, provided that the board keeps up with the camera, the
\* SD card works and no more photos are announced than last_detect holds.
THEOREM ReportsPrefix ==
    ASSUME InTime
    PROVE  Spec => [](~overrun => ReportIsInspectedPrefix)
<1>1. RInv /\ PInv /\ [Next]_vars => PInv'
  BY KeepsUpOthers, KeepsUpImg, KeepsUpStutter DEF Next, InTime
<1>2. PInv => (~overrun => ReportIsInspectedPrefix)
  BY DEF PInv, Reported
<1> QED BY <1>1, <1>2, KeepsUpInit, RoundInvariant, PTL DEF Spec

----------------------------------------------------------------------------
(* No fault but the network's, and no more photos than places: SInv.  The  *)
(* steps are those without a fault, so that SInv also holds from where a   *)
(* disturbed line has come to rest.                                        *)

Fitting == Paced /\ MaxPhotos <= MaxRound
Sound   == Fitting /\ FaultKinds \subseteq {"net"}

\* The round that the camera has announced, from the commands on their way to
\* the number of photos that uart_ctrl published.
AllOpen(s) == \A k \in 1 .. Len(s) : s[k] = "("
Announcing == ctrl = "idle" /\ AllOpen(cmds) /\ image_count + Len(cmds) = i
Closing ==
    \/ /\ ctrl = "idle" /\ cmds # <<>> /\ cmds[Len(cmds)] = ")"
       /\ \A k \in 1 .. Len(cmds) - 1 : cmds[k] = "("
       /\ image_count + Len(cmds) = Len(batch) + 1
    \/ ctrl # "idle" /\ cmds = <<>> /\ image_count = Len(batch)
Published == CtrlIdle /\ image_count = 0 /\ detection_round_cnt = Len(batch)

Untouched == ImgIdle /\ inspected = <<>>

\* The first n photos of the batch were inspected, and no others.
Inspected(n) ==
    Len(inspected) = n /\ \A k \in 1 .. Len(inspected) : inspected[k] = batch[k]

\* A picture was sent: it is in image_buffer, or was inspected.
InHand ==
    /\ i > 0 /\ image_buffer = batch[i] /\ Inspected(i - 1)
    /\ \/ img = "wait" /\ frame_ready = 1
       \/ img = "copy" /\ frame_ready = 0
       \/ img = "copying" /\ frame_ready = 0 /\ ~torn

Progress ==
    /\ cam \in {"announce", "close"} => Announcing /\ Untouched
    /\ cam = "close" => i = Len(batch)
    /\ cam = "frames" =>
         \/ Closing /\ Untouched /\ i = 0
         \/ Published /\ (InHand \/ (ImgIdle /\ Inspected(i)))
    /\ cam = "idle" =>
         \/ CtrlIdle /\ image_count = 0 /\ Untouched
         \/ /\ Published /\ i = Len(batch) /\ batch \in Batches
            /\ InHand \/ (img \notin {"wait", "copy", "copying"} /\ frame_ready = 0
                          /\ Inspected(i))

\* What the cloud has of this round.
Uploads ==
    /\ img \in Uploading => total = Len(batch) /\ csv = batch
    /\ img = "upload" => csv = Results(total)
    /\ img = "count" /\ accepted = 1 => cloud = inspected
    /\ img \in Uploading => CloudAgrees

SInv == PInv /\ ~overrun /\ Progress /\ Uploads

\* When uart_img is at work, the number of photos is known, and the picture in
\* its hands is the last one sent.
LEMMA ImgAtWork ==
    ASSUME Progress, cam \in {"idle", "announce", "close", "frames"}, ~ImgIdle
    PROVE  /\ Published /\ cam \in {"frames", "idle"}
           /\ cam = "idle" => i = Len(batch) /\ batch \in Batches
           /\ \/ InHand
              \/ /\ cam = "idle" /\ img \notin {"wait", "copy", "copying"} /\ frame_ready = 0
                 /\ Inspected(i)
BY DEF Progress, Untouched

\* When uart_ctrl is, no picture was inspected yet.
LEMMA CtrlAtWork ==
    ASSUME Progress, cam \in {"idle", "announce", "close", "frames"}, ~CtrlIdle
    PROVE  /\ Untouched
           /\ \/ cam \in {"announce", "close"} /\ Announcing
              \/ cam = "frames" /\ Closing /\ i = 0
BY DEF Progress, Published

\* A sound line starts with nothing under way.
LEMMA SoundInit == Init => SInv
<1> SUFFICES ASSUME Init PROVE SInv
  OBVIOUS
<1>1. PInv /\ ~overrun
  BY KeepsUpInit DEF Init
<1>2. Progress
  BY DEF Init, Progress, CtrlIdle, Untouched, ImgIdle
<1>3. Uploads
  BY DEF Init, Uploads, Uploading
<1> QED BY <1>1, <1>2, <1>3 DEF SInv

\* Nothing of the upload changes while the camera or uart_ctrl steps.
LEMMA SoundKept ==
    ASSUME SInv, UNCHANGED <<img, tally, output, overrun>>, img = "wait"
    PROVE  ~overrun' /\ Uploads'
BY DEF SInv, Uploads, Uploading

\* The camera announces, closes and sends on a sound line.
LEMMA SoundCamera ==
    ASSUME Fitting, RInv, SInv, StartBatch \/ Camera \/ CameraReset, faults' = faults
    PROVE  SInv'
<1>1. PInv'
  BY KeepsUpOthers DEF SInv, Fitting
<1>2. UNCHANGED <<img, tally, output, overrun, control>> /\ ImgIdle /\ ~CameraReset
  BY NotLost DEF Fitting, Paced, StartBatch, Camera, WriteOpen, WriteClose, Write, SendFrame,
                 CameraReset
<1>3. ~overrun' /\ Uploads'
  BY <1>2, SoundKept DEF ImgIdle
<1>4. /\ Progress /\ cam \in {"idle", "announce", "close", "frames"} /\ i \in Nat
      /\ cmds \in Seq({"(", ")"}) /\ Len(cmds) \in Nat /\ image_count \in Nat
      /\ cam # "idle" => batch \in Batches /\ Len(batch) \in 1 .. MaxPhotos
  BY BatchFacts, LenProperties DEF SInv, RInv, CameraOK, ControlOK
<1>5. CASE StartBatch
  <2>1. /\ cam = "idle" /\ cam' = "announce" /\ i' = 0 /\ UNCHANGED <<cmds, picture>>
    BY <1>5 DEF StartBatch
  <2>2. CtrlIdle /\ image_count = 0 /\ Untouched
    BY <1>2, <1>4, <2>1 DEF Progress, InHand, ImgIdle
  <2>3. Announcing' /\ Untouched'
    BY <1>2, <2>1, <2>2, EmptySeq
       DEF Announcing, AllOpen, Untouched, ImgIdle, CtrlIdle, control, picture, tally
  <2>4. Progress'
    BY <2>1, <2>3 DEF Progress
  <2> QED BY <1>1, <1>3, <2>4 DEF SInv
<1>6. CASE WriteOpen
  <2>1. /\ cam = "announce" /\ i' = i + 1 /\ cmds' = Append(cmds, "(")
        /\ UNCHANGED <<batch, picture>>
        /\ cam' = IF i + 1 = Len(batch) THEN "close" ELSE "announce"
    BY <1>6, NotLost DEF WriteOpen, Write
  <2>2. Announcing /\ Untouched
    BY <1>4, <2>1 DEF Progress
  <2>3. /\ Len(cmds') = Len(cmds) + 1 /\ cmds'[Len(cmds) + 1] = "("
        /\ \A k \in 1 .. Len(cmds) : cmds'[k] = cmds[k]
    BY <1>4, <2>1, AppendProperties
  <2>4. AllOpen(cmds')
    BY <1>4, <2>2, <2>3 DEF Announcing, AllOpen
  <2>5. Announcing'
    BY <1>2, <1>4, <2>1, <2>2, <2>3, <2>4 DEF Announcing, control
  <2>6. Untouched'
    BY <1>2, <2>1, <2>2 DEF Untouched, ImgIdle, picture, tally
  <2>7. Progress'
    BY <2>1, <2>5, <2>6 DEF Progress
  <2> QED BY <1>1, <1>3, <2>7 DEF SInv
<1>7. CASE WriteClose
  <2>1. /\ cam = "close" /\ i' = 0 /\ cmds' = Append(cmds, ")") /\ cam' = "frames"
        /\ UNCHANGED <<batch, picture>>
    BY <1>7, NotLost DEF WriteClose, Write
  <2>2. Announcing /\ Untouched /\ i = Len(batch)
    BY <1>4, <2>1 DEF Progress
  <2>3. /\ Len(cmds') = Len(cmds) + 1 /\ cmds'[Len(cmds) + 1] = ")"
        /\ \A k \in 1 .. Len(cmds) : cmds'[k] = cmds[k]
    BY <1>4, <2>1, AppendProperties
  <2>4. cmds' # <<>>
    BY <1>4, <2>3, EmptySeq
  <2>5. \A k \in 1 .. Len(cmds') - 1 : cmds'[k] = "("
    BY <1>4, <2>2, <2>3 DEF Announcing, AllOpen
  <2>6. image_count' + Len(cmds') = Len(batch') + 1 /\ ctrl' = "idle"
    BY <1>2, <1>4, <2>1, <2>2, <2>3 DEF Announcing, control
  <2>7. cmds'[Len(cmds')] = ")"
    BY <2>3
  <2>8. Closing'
    BY <2>4, <2>5, <2>6, <2>7 DEF Closing
  <2>9. Untouched'
    BY <1>2, <2>1, <2>2 DEF Untouched, ImgIdle, picture, tally
  <2>10. Progress'
    BY <2>1, <2>8, <2>9 DEF Progress
  <2> QED BY <1>1, <1>3, <2>10 DEF SInv
<1>8. CASE SendFrame
  <2>1. /\ cam = "frames" /\ i' = i + 1 /\ CtrlIdle /\ UNCHANGED <<batch, cmds>>
        /\ cam' = IF i + 1 = Len(batch) THEN "idle" ELSE "frames"
        /\ image_buffer' = batch[i + 1] /\ frame_ready' = 1
    BY <1>8, NotLost DEF Fitting, Paced, SendFrame
  <2>2. Published /\ Inspected(i)
    BY <1>2, <1>4, <2>1 DEF Progress, Closing, InHand, ImgIdle, CtrlIdle
  <2>3. Published'
    BY <1>2, <2>1, <2>2 DEF Published, CtrlIdle, control
  <2>4. InHand'
    BY <1>2, <1>4, <2>1, <2>2 DEF InHand, Inspected, ImgIdle, tally
  <2>5. Progress'
    BY <1>4, <2>1, <2>3, <2>4 DEF Progress
  <2> QED BY <1>1, <1>3, <2>5 DEF SInv
<1> QED BY <1>2, <1>5, <1>6, <1>7, <1>8 DEF Camera

\* uart_ctrl counts what was announced and publishes it before the first frame.
LEMMA SoundCtrl ==
    ASSUME Fitting, RInv, SInv, Ctrl, faults' = faults
    PROVE  SInv'
<1>1. PInv'
  BY KeepsUpOthers DEF SInv, Fitting
<1>2. UNCHANGED <<img, tally, output, overrun, camera, picture>> /\ ~CtrlIdle
  BY DEF Ctrl, CountPhoto, CloseBatch, CtrlBeep, SetRound, CtrlIdle
<1>3. /\ Progress /\ cam \in {"idle", "announce", "close", "frames"} /\ i \in 0 .. MaxPhotos
      /\ cmds \in Seq({"(", ")"}) /\ Len(cmds) \in Nat /\ image_count \in Nat
      /\ cam # "idle" => batch \in Batches /\ Len(batch) \in 1 .. MaxPhotos
      /\ MaxPhotos <= MaxRound /\ MaxRound < U8 /\ {MaxPhotos, MaxRound, U8} \subseteq Nat
  BY BatchFacts, LenProperties, RoundAssumption DEF SInv, Fitting, RInv, CameraOK, ControlOK
<1>4. /\ Untouched
      /\ \/ cam \in {"announce", "close"} /\ Announcing
         \/ cam = "frames" /\ Closing /\ i = 0
  BY <1>2, <1>3, CtrlAtWork
<1>5. ~overrun' /\ Uploads' /\ Untouched'
  BY <1>2, <1>4, SoundKept DEF Untouched, ImgIdle, picture, tally
<1>6. cam' = cam /\ i' = i /\ batch' = batch
  BY <1>2 DEF camera
<1>7. cam = "close" => i = Len(batch)
  BY <1>3 DEF Progress
<1>8. CASE CountPhoto \/ CloseBatch
  <2>1. /\ ctrl = "idle" /\ cmds # <<>> /\ cmds' = Tail(cmds)
        /\ detection_round_cnt' = detection_round_cnt
    BY <1>8 DEF CountPhoto, CloseBatch
  <2>2. /\ Len(cmds) \in Nat \ {0} /\ Len(cmds') = Len(cmds) - 1 /\ Head(cmds) = cmds[1]
        /\ cmds' \in Seq({"(", ")"})
        /\ \A k \in 1 .. Len(cmds') : cmds'[k] = cmds[k + 1]
    BY <1>3, <2>1, HeadTailProperties, EmptySeq
  <2>3. CASE CountPhoto
    <3>1. ctrl' = ctrl /\ cmds[1] = "(" /\ image_count' = Incremented(image_count)
      BY <2>2, <2>3 DEF CountPhoto
    <3>2. image_count + 1 < U8
      BY <1>3, <1>4, <2>1, <2>2, <3>1 DEF Announcing, Closing
    <3>3. image_count' = image_count + 1
      <4>1. image_count + 1 \in Nat /\ U8 \in Nat \ {0}
        BY <1>3
      <4> QED BY <3>1, <3>2, <4>1, Wraps DEF Incremented
    <3>4. CASE cam \in {"announce", "close"} /\ Announcing
      <4>1. Announcing'
        BY <1>3, <1>6, <2>1, <2>2, <3>1, <3>3, <3>4 DEF Announcing, AllOpen
      <4>2. Progress'
        BY <1>5, <1>6, <1>7, <3>4, <4>1 DEF Progress
      <4> QED BY <1>1, <1>3, <1>5, <2>1, <4>2 DEF SInv
    <3>5. CASE cam = "frames" /\ Closing /\ i = 0
      <4>1. /\ cmds[Len(cmds)] = ")" /\ \A k \in 1 .. Len(cmds) - 1 : cmds[k] = "("
            /\ image_count + Len(cmds) = Len(batch) + 1
        BY <2>1, <3>5 DEF Closing
      <4>2. Len(cmds) > 1
        BY <2>2, <3>1, <4>1
      <4>3. cmds' # <<>>
        BY <2>2, <4>2, EmptySeq
      <4>4. cmds'[Len(cmds')] = ")" /\ \A k \in 1 .. Len(cmds') - 1 : cmds'[k] = "("
        BY <2>2, <4>1, <4>2
      <4>5. image_count' + Len(cmds') = Len(batch') + 1
        BY <1>3, <1>6, <2>2, <3>3, <3>5, <4>1
      <4>6. Closing'
        BY <2>1, <3>1, <4>3, <4>4, <4>5 DEF Closing
      <4>7. Progress'
        BY <1>5, <1>6, <3>5, <4>6 DEF Progress
      <4> QED BY <1>1, <1>3, <1>5, <2>1, <4>7 DEF SInv
    <3> QED BY <1>4, <3>4, <3>5
  <2>4. CASE CloseBatch
    <3>1. ctrl' = "beep1" /\ cmds[1] = ")" /\ image_count' = image_count
      BY <2>2, <2>4 DEF CloseBatch
    <3>2. cam = "frames" /\ Closing /\ i = 0
      BY <1>4, <2>2, <3>1 DEF Announcing, AllOpen
    <3>3. Len(cmds) = 1 /\ image_count = Len(batch)
      <4>1. /\ \A k \in 1 .. Len(cmds) - 1 : cmds[k] = "("
            /\ image_count + Len(cmds) = Len(batch) + 1
        BY <2>1, <3>2 DEF Closing
      <4> QED BY <1>3, <2>2, <3>1, <3>2, <4>1
    <3>4. cmds' = <<>>
      BY <2>2, <3>3, EmptySeq
    <3>5. Closing'
      BY <1>6, <3>1, <3>3, <3>4 DEF Closing
    <3>6. Progress'
      BY <1>5, <1>6, <3>2, <3>5 DEF Progress
    <3> QED BY <1>1, <1>3, <1>5, <2>1, <3>6 DEF SInv
  <2> QED BY <1>8, <2>3, <2>4
<1>9. CASE CtrlBeep \/ SetRound
  <2>1. ctrl # "idle" /\ cmds' = cmds
    BY <1>9 DEF CtrlBeep, SetRound
  <2>2. cam = "frames" /\ i = 0 /\ cmds = <<>> /\ image_count = Len(batch)
    BY <1>4, <2>1 DEF Announcing, Closing
  <2>3. CASE CtrlBeep
    <3>1. ctrl' # "idle" /\ image_count' = image_count /\ detection_round_cnt' = detection_round_cnt
      BY <2>3 DEF CtrlBeep
    <3>2. Closing'
      BY <1>6, <2>1, <2>2, <3>1 DEF Closing
    <3>3. Progress'
      BY <1>5, <1>6, <2>2, <3>2 DEF Progress
    <3> QED BY <1>1, <1>3, <1>5, <3>1, <3>3 DEF SInv
  <2>4. CASE SetRound
    <3>1. ctrl' = "idle" /\ image_count' = 0 /\ detection_round_cnt' = Len(batch)
      BY <2>2, <2>4 DEF SetRound, CountAfterClose
    <3>2. Published'
      BY <1>6, <2>1, <2>2, <3>1 DEF Published, CtrlIdle
    <3>3. ImgIdle' /\ Inspected(i)'
      BY <1>5, <1>6, <2>2, EmptySeq DEF Untouched, Inspected
    <3>4. Progress'
      BY <1>6, <2>2, <3>2, <3>3 DEF Progress
    <3> QED BY <1>1, <1>5, <3>4 DEF SInv
  <2> QED BY <1>9, <2>3, <2>4
<1> QED BY <1>8, <1>9 DEF Ctrl

\* The picture inspected is the one the camera sent last.
LEMMA SoundInspect ==
    ASSUME Fitting, RInv, SInv, defect_inspect_main, faults' = faults
    PROVE  SInv'
<1>1. PInv'
  BY KeepsUpImg DEF SInv, Img
<1>2. /\ UNCHANGED <<camera, cmds, control, picture, output>> /\ img = "copying"
      /\ img' \in {"open", "wait"} /\ detect_round' = Incremented(detect_round)
      /\ img' = IF detect_round' >= detection_round_cnt THEN "open" ELSE "wait"
  BY DEF defect_inspect_main, RoundDone
<1>3. /\ Progress /\ cam \in {"idle", "announce", "close", "frames"} /\ i \in Nat
      /\ cam = "frames" => i < Len(batch)
      /\ detection_round_cnt \in Nat /\ {MaxRound, MaxPhotos} \subseteq Nat
      /\ inspected \in Seq(Class) /\ image_buffer \in Class /\ MaxPhotos <= MaxRound
      /\ i <= MaxPhotos
  BY RoundAssumption DEF Fitting, SInv, RInv, CameraOK, ControlOK, TallyOK, PictureOK
<1>4. /\ Published /\ cam \in {"frames", "idle"} /\ InHand
      /\ cam = "idle" => i = Len(batch) /\ batch \in Batches
  BY <1>2, <1>3, ImgAtWork DEF ImgIdle
<1>5. ~torn /\ frame_ready = 0
  BY <1>2, <1>4 DEF InHand
<1>6. inspected' = Append(inspected, batch[i])
  BY <1>4, <1>5 DEF defect_inspect_main, InHand
<1>7. batch[i] \in Class
  BY <1>3, <1>4 DEF InHand
<1>8. /\ Len(inspected) = i - 1 /\ detect_round = i - 1 /\ detect_round' = i /\ i > 0
      /\ \A k \in 1 .. Len(inspected) : inspected[k] = batch[k]
  BY <1>2, <1>3, <1>4, NoWrap DEF SInv, InHand, Inspected
<1>9. Inspected(i)'
  <2>1. /\ Len(inspected') = Len(inspected) + 1 /\ inspected'[Len(inspected) + 1] = batch[i]
        /\ \A k \in 1 .. Len(inspected) : inspected'[k] = inspected[k]
    BY <1>3, <1>6, <1>7, AppendProperties
  <2>2. i' = i /\ batch' = batch
    BY <1>2 DEF camera
  <2> QED BY <1>3, <1>8, <2>1, <2>2 DEF Inspected
<1>10. Published' /\ cam' = cam /\ i' = i /\ batch' = batch /\ frame_ready' = 0
  BY <1>2, <1>4, <1>5 DEF Published, CtrlIdle, camera, control, picture
<1>11. detection_round_cnt = Len(batch)
  BY <1>4 DEF Published
<1>12. Progress'
  <2>1. CASE cam = "frames"
    <3>1. img' = "wait"
      BY <1>2, <1>3, <1>8, <1>11, <2>1
    <3>2. ImgIdle'
      BY <1>10, <3>1 DEF ImgIdle
    <3> QED BY <1>9, <1>10, <2>1, <3>2 DEF Progress
  <2>2. CASE cam = "idle"
    <3>1. img' = "open"
      BY <1>2, <1>3, <1>4, <1>8, <1>11, <2>2
    <3> QED BY <1>4, <1>9, <1>10, <2>2, <3>1 DEF Progress
  <2> QED BY <1>4, <2>1, <2>2
<1>13. ~overrun'
  <2>1. ~(detect_round >= MaxRound)
    BY <1>3, <1>4, <1>8, <1>11
  <2>2. ~overrun
    BY DEF SInv
  <2> QED BY <2>1, <2>2 DEF defect_inspect_main
<1>14. Uploads'
  BY <1>2 DEF Uploads, Uploading
<1> QED BY <1>1, <1>12, <1>13, <1>14 DEF SInv

\* The table that is written is that of the batch.
LEMMA SoundTable ==
    ASSUME Fitting, RInv, SInv, WriteCsv
    PROVE  /\ csv' = batch /\ total' = Len(batch) /\ ~overrun'
           /\ cam = "idle" /\ frame_ready = 0 /\ batch \in Batches /\ Published /\ Inspected(i)
           /\ i = Len(batch) /\ inspected = batch
<1>1. /\ Progress /\ cam \in {"idle", "announce", "close", "frames"} /\ img = "write"
      /\ detection_round_cnt \in Nat /\ {MaxRound, MaxPhotos} \subseteq Nat
      /\ MaxPhotos <= MaxRound /\ i <= MaxPhotos
      /\ inspected \in Seq(Class) /\ total' = detection_round_cnt /\ ~overrun
      /\ inspected' = inspected
  BY RoundAssumption DEF Fitting, SInv, RInv, CameraOK, ControlOK, TallyOK, WriteCsv, tally
<1>2. /\ Published /\ cam = "idle" /\ frame_ready = 0 /\ Inspected(i)
      /\ i = Len(batch) /\ batch \in Batches
  BY <1>1, ImgAtWork DEF ImgIdle, InHand
<1>3. batch \in Seq(Class)
  BY <1>2, BatchFacts
<1>4. inspected = batch
  BY <1>1, <1>2, <1>3, SeqEqual DEF Inspected
<1>5. ~overrun'
  <2>1. ~(detection_round_cnt > MaxRound)
    BY <1>1, <1>2 DEF Published
  <2> QED BY <1>1, <2>1 DEF WriteCsv
<1>6. csv' = SubSeq(inspected, 1, total') /\ total' = Len(batch)
  <2>1. Reported' /\ img' = "upload"
    BY KeepsUpWriting DEF SInv, WriteCsv
  <2> QED BY <1>1, <1>2, <1>5, <2>1 DEF Reported, ReportIsInspectedPrefix, Published
<1>7. SubSeq(batch, 1, Len(batch)) = batch
  BY <1>3
<1> QED BY <1>2, <1>4, <1>5, <1>6, <1>7

\* Steps of uart_img on a sound line.
LEMMA SoundImg ==
    ASSUME Fitting, RInv, SInv, Img, faults' = faults
    PROVE  SInv'
<1>1. PInv'
  BY KeepsUpImg DEF SInv
<1>2. /\ Progress /\ cam \in {"idle", "announce", "close", "frames"} /\ ~overrun
  BY DEF SInv, RInv, CameraOK
<1>3. /\ ~ImgIdle /\ UNCHANGED <<camera, cmds, control>>
  BY DEF ImgIdle, Img, TakeFrame, BeginCopy, defect_inspect_main, OpenCsv, WriteCsv,
         onenet_upload_defect_report, onenet_upload_defect_count, BeepOn, BeepOff, Reset
<1>4. /\ Published /\ cam \in {"frames", "idle"}
      /\ cam = "idle" => i = Len(batch) /\ batch \in Batches
      /\ \/ InHand
         \/ /\ cam = "idle" /\ img \notin {"wait", "copy", "copying"} /\ frame_ready = 0
            /\ Inspected(i)
  BY <1>2, <1>3, ImgAtWork
<1>5. /\ Published' /\ cam' = cam /\ i' = i /\ batch' = batch
      /\ detection_round_cnt' = detection_round_cnt
  BY <1>3, <1>4 DEF Published, CtrlIdle, camera, control
<1>6. CASE TakeFrame \/ BeginCopy
  <2>1. UNCHANGED <<tally, output, overrun, image_buffer>>
    BY <1>6 DEF TakeFrame, BeginCopy
  <2>2. \/ img = "wait" /\ img' = "copy" /\ frame_ready' = 0
        \/ img = "copy" /\ img' = "copying" /\ torn' = FALSE /\ frame_ready' = frame_ready
    BY <1>6 DEF TakeFrame, BeginCopy
  <2>3. InHand /\ (img = "copy" => frame_ready = 0)
    BY <1>4, <2>2 DEF InHand
  <2>4. i' > 0 /\ image_buffer' = batch'[i'] /\ Inspected(i - 1)'
    BY <1>5, <2>1, <2>3 DEF InHand, Inspected, tally
  <2>5. InHand'
    BY <1>5, <2>2, <2>3, <2>4 DEF InHand
  <2>6. Progress'
    BY <1>4, <1>5, <2>5 DEF Progress
  <2>7. Uploads' /\ ~overrun'
    BY <1>2, <2>1, <2>2 DEF Uploads, Uploading
  <2> QED BY <1>1, <1>2, <1>5, <2>6, <2>7 DEF SInv
<1>7. CASE defect_inspect_main
  BY <1>7, SoundInspect
<1>8. CASE OpenCsv \/ BeepOn \/ BeepOff
  <2>1. /\ UNCHANGED <<tally, output, overrun, picture>> /\ img \notin {"wait", "copy", "copying"}
        /\ \/ img = "open" /\ img' = "write"
           \/ img = "beep" /\ img' = "beeping"
           \/ img = "beeping" /\ img' = "reset"
    BY <1>8, NotLost DEF OpenCsv, BeepOn, BeepOff
  <2>2. cam = "idle" /\ frame_ready = 0 /\ Inspected(i)
    BY <1>4, <2>1 DEF InHand
  <2>3. Inspected(i)' /\ frame_ready' = 0
    BY <1>5, <2>1, <2>2 DEF Inspected, tally, picture
  <2>4. Progress'
    BY <1>4, <1>5, <2>1, <2>2, <2>3 DEF Progress
  <2>5. Uploads' /\ ~overrun'
    BY <1>2, <1>5, <2>1 DEF SInv, Uploads, CloudAgrees, Uploading, output
  <2> QED BY <1>1, <1>2, <1>5, <2>4, <2>5 DEF SInv
<1>9. CASE WriteCsv
  <2>1. /\ csv' = batch /\ total' = Len(batch) /\ ~overrun'
        /\ cam = "idle" /\ frame_ready = 0 /\ batch \in Batches /\ Inspected(i)
        /\ i = Len(batch) /\ inspected = batch
    BY <1>9, SoundTable
  <2>2. /\ img' = "upload" /\ UNCHANGED <<tally, picture>> /\ accepted' = 0
        /\ csv' = Results(detection_round_cnt) /\ total' = detection_round_cnt
    BY <1>9 DEF WriteCsv
  <2>3. Inspected(i)' /\ frame_ready' = 0
    BY <1>5, <2>1, <2>2 DEF Inspected, tally, picture
  <2>4. Progress'
    BY <1>5, <2>1, <2>2, <2>3 DEF Progress
  <2>5. csv' = Results(total)'
    BY <2>2 DEF Results, tally
  <2>6. CloudAgrees'
    BY <2>2 DEF CloudAgrees
  <2>7. Uploads'
    <3>1. total' = Len(batch') /\ csv' = batch' /\ img' = "upload"
      BY <1>5, <2>1, <2>2
    <3> QED BY <2>5, <2>6, <3>1 DEF Uploads
  <2> QED BY <1>1, <2>1, <2>4, <2>7 DEF SInv
<1>10. CASE onenet_upload_defect_report \/ onenet_upload_defect_count
  <2>1. /\ UNCHANGED <<tally, total, csv, overrun, picture>>
        /\ img \in {"upload", "count"} /\ img' \in {"count", "beep"}
        /\ img = "upload" => img' = "count"
        /\ img = "count" => img' = "beep"
    BY <1>10 DEF onenet_upload_defect_report, onenet_upload_defect_count
  <2>2. cam = "idle" /\ frame_ready = 0 /\ Inspected(i)
    BY <1>4, <2>1 DEF InHand
  <2>3. Inspected(i)' /\ frame_ready' = 0
    BY <1>5, <2>1, <2>2 DEF Inspected, tally, picture
  <2>4. Progress'
    BY <1>4, <1>5, <2>1, <2>2, <2>3 DEF Progress
  <2>5. total = Len(batch) /\ csv = batch /\ (img = "upload" => csv = Results(total))
    BY <2>1 DEF SInv, Uploads, Uploading
  <2>6. inspected = batch
    <3>1. batch \in Seq(Class) /\ inspected \in Seq(Class)
      BY <1>4, <2>2, BatchFacts DEF RInv, TallyOK
    <3> QED BY <1>4, <2>2, <3>1, SeqEqual DEF Inspected
  <2>7. accepted \in Nat /\ (img = "upload" => accepted = 0) /\ (img = "count" => accepted <= 1)
    BY DEF RInv, OutputOK
  <2>8. CASE onenet_upload_defect_report
    <3>1. /\ img = "upload"
          /\ \/ cloud' = Results(total) /\ accepted' = 1
             \/ accepted' = 0
      BY <2>7, <2>8 DEF onenet_upload_defect_report
    <3>2. CloudAgrees'
      BY <3>1 DEF CloudAgrees
    <3>3. Uploads'
      BY <1>5, <2>1, <2>5, <2>6, <3>1, <3>2 DEF Uploads, tally
    <3> QED BY <1>1, <1>2, <2>1, <2>4, <3>3 DEF SInv
  <2>9. CASE onenet_upload_defect_count
    <3>1. /\ img = "count" /\ cloud' = cloud
          /\ \/ cloud_count' = defect_counter /\ accepted' = accepted + 1
             \/ accepted' = accepted
      BY <2>9 DEF onenet_upload_defect_count
    <3>2. defect_counter = Tally(inspected)
      BY DEF RInv, TalliesAgree
    <3>3. accepted = 1 => cloud = inspected
      BY <3>1 DEF SInv, Uploads
    <3>4. accepted' = 2 => accepted = 1 /\ cloud_count' = defect_counter
      BY <2>7, <3>1
    <3>5. CloudAgrees'
      BY <3>1, <3>2, <3>3, <3>4 DEF CloudAgrees
    <3>6. Uploads'
      BY <1>5, <2>1, <2>5, <3>1, <3>5 DEF Uploads
    <3> QED BY <1>1, <1>2, <2>1, <2>4, <3>6 DEF SInv
  <2> QED BY <1>10, <2>8, <2>9
<1>11. CASE Reset
  <2>1. /\ UNCHANGED <<output, overrun, picture>> /\ img = "reset" /\ img' = "wait"
        /\ inspected' = <<>>
    BY <1>11 DEF Reset
  <2>2. cam = "idle" /\ frame_ready = 0
    BY <1>4, <2>1 DEF InHand
  <2>3. CtrlIdle' /\ image_count' = 0 /\ Untouched'
    BY <1>5, <2>1, <2>2 DEF Published, Untouched, ImgIdle, picture
  <2>4. Progress'
    BY <1>5, <2>2, <2>3 DEF Progress
  <2>5. Uploads' /\ ~overrun'
    BY <1>2, <2>1 DEF Uploads, Uploading
  <2> QED BY <1>1, <1>2, <1>5, <2>4, <2>5 DEF SInv
<1> QED BY <1>6, <1>7, <1>8, <1>9, <1>10, <1>11 DEF Img

\* A step of something else.
LEMMA SoundStutter == SInv /\ UNCHANGED vars => SInv'
<1> SUFFICES ASSUME SInv, UNCHANGED vars PROVE SInv'
  OBVIOUS
<1>1. PInv' /\ ~overrun'
  BY KeepsUpStutter DEF SInv, vars
<1>2. Progress'
  BY DEF SInv, Progress, Announcing, AllOpen, Closing, Published, Untouched, Inspected, InHand,
         ImgIdle, CtrlIdle, vars, camera, control, picture, tally
<1>3. Uploads'
  BY DEF SInv, Uploads, CloudAgrees, Results, vars, camera, tally, output
<1> QED BY <1>1, <1>2, <1>3 DEF SInv

\* Steps without a fault keep the round sound, ...
LEMMA SoundStep ==
    ASSUME Fitting, RInv, SInv, [Next]_vars, faults' = faults
    PROVE  SInv'
BY SoundCamera, SoundCtrl, SoundImg, SoundStutter DEF Next

\* ... and on a sound line there are no others.
LEMMA NoFaults ==
    ASSUME Sound, [Next]_vars
    PROVE  faults' = faults
<1>1. \A kind \in {"frame", "open", "close", "reset", "sd"} : ~Lost(kind)
  BY DEF Sound, Lost
<1>2. CASE StartBatch \/ Camera \/ CameraReset
  BY <1>1, <1>2 DEF StartBatch, Camera, WriteOpen, WriteClose, Write, SendFrame, CameraReset
<1>3. CASE Ctrl
  BY <1>3 DEF Ctrl, CountPhoto, CloseBatch, CtrlBeep, SetRound
<1>4. CASE Img
  BY <1>1, <1>4 DEF Img, TakeFrame, BeginCopy, defect_inspect_main, OpenCsv, WriteCsv,
                    onenet_upload_defect_report, onenet_upload_defect_count, BeepOn, BeepOff, Reset
<1>5. CASE UNCHANGED vars
  BY <1>5 DEF vars
<1> QED BY <1>2, <1>3, <1>4, <1>5 DEF Next

\* The inductive invariant of a board that keeps up with a camera which sends
\* what it announces.
THEOREM SoundInvariant ==
    ASSUME Sound
    PROVE  Spec => []SInv
<1>1. RInv /\ SInv /\ [Next]_vars => SInv'
  BY SoundStep, NoFaults DEF Sound
<1> QED BY <1>1, SoundInit, RoundInvariant, PTL DEF Spec

\* The two uploads of a round agree in the cloud whenever both were accepted,
\* also after rounds in which the network failed.
THEOREM CloudAlwaysAgrees ==
    ASSUME Sound
    PROVE  Spec => []CloudAgrees
<1>1. Init => CloudAgrees
  BY DEF Init, CloudAgrees
<1>2. RInv /\ SInv /\ SInv' /\ CloudAgrees /\ [Next]_vars => CloudAgrees'
  <2> SUFFICES ASSUME SInv', CloudAgrees, [Next]_vars, ~(img' \in Uploading) PROVE CloudAgrees'
    BY DEF SInv, Uploads
  <2>1. UNCHANGED output
    BY DEF Next, StartBatch, Camera, WriteOpen, WriteClose, Write, SendFrame, CameraReset,
           Ctrl, CountPhoto, CloseBatch, CtrlBeep, SetRound,
           Img, TakeFrame, BeginCopy, defect_inspect_main, OpenCsv, WriteCsv,
           onenet_upload_defect_report, onenet_upload_defect_count, BeepOn, BeepOff, Reset,
           Uploading, vars
  <2> QED BY <2>1 DEF CloudAgrees, output
<1> QED BY <1>1, <1>2, SoundInvariant, RoundInvariant, PTL DEF Spec

\* last_detect and the column titles are not overrun if the camera never
\* announces more photos than they have places for.
THEOREM StaysInBounds ==
    ASSUME Sound
    PROVE  Spec => []InBounds
<1>1. SInv => InBounds
  BY DEF SInv, InBounds
<1> QED BY <1>1, SoundInvariant, PTL

\* A step of a sound round is a step of the inspection service or none.
LEMMA ServiceStep ==
    ASSUME Fitting, RInv, SInv, [Next]_vars, faults' = faults
    PROVE  [Service!Next]_<<Pending, csv>>
<1>1. Progress /\ cam \in {"idle", "announce", "close", "frames"}
  BY DEF SInv, RInv, CameraOK
<1>2. CASE StartBatch
  <2>1. ~Owed /\ Owed' /\ batch' \in Batches /\ csv' = csv
    BY <1>2 DEF Fitting, Paced, StartBatch, Owed, ImgIdle, output
  <2> QED BY <2>1 DEF Service!Next, Service!Submit, Pending
<1>3. CASE WriteCsv
  <2>1. csv' = batch /\ cam = "idle" /\ frame_ready = 0 /\ batch \in Batches /\ batch # <<>>
    BY <1>3, SoundTable, BatchFacts
  <2>2. Owed /\ ~Owed'
    BY <1>3, <2>1 DEF WriteCsv, Owed, camera, picture
  <2> QED BY <2>1, <2>2 DEF Service!Next, Service!Report, Pending
<1>4. CASE Camera \/ CameraReset
  <2>1. Owed /\ Owed' /\ batch' = batch /\ csv' = csv
    BY <1>4, NotLost DEF Camera, WriteOpen, WriteClose, Write, SendFrame, CameraReset, Owed, output
  <2> QED BY <2>1 DEF Pending
<1>5. CASE Ctrl
  <2>1. UNCHANGED <<cam, batch, frame_ready, img, csv>>
    BY <1>5 DEF Ctrl, CountPhoto, CloseBatch, CtrlBeep, SetRound, camera, picture, output
  <2> QED BY <2>1 DEF Pending, Owed
<1>6. CASE TakeFrame \/ BeginCopy \/ OpenCsv
  <2>1. Owed /\ Owed' /\ batch' = batch /\ csv' = csv
    BY <1>6, NotLost DEF TakeFrame, BeginCopy, OpenCsv, Owed, camera, output
  <2> QED BY <2>1 DEF Pending
<1>7. CASE defect_inspect_main
  <2>1. SInv' /\ img = "copying"
    BY <1>7, SoundInspect DEF defect_inspect_main
  <2>2. UNCHANGED <<batch, csv, cam>> /\ img' \in {"open", "wait"}
    BY <1>7 DEF defect_inspect_main, camera, output
  <2>3. Owed'
    <3>1. CASE img' = "open"
      BY <3>1 DEF Owed
    <3>2. CASE img' = "wait" /\ cam = "idle"
      <4>1. i = Len(batch) /\ batch \in Batches /\ Published /\ InHand
        BY <1>1, <2>1, <3>2, ImgAtWork DEF ImgIdle
      <4>2. detect_round' = i /\ i = detection_round_cnt
        BY <1>7, <2>1, <4>1, NoWrap
           DEF defect_inspect_main, SInv, InHand, Inspected, Published, RInv, CameraOK
      <4>3. i \in Nat
        BY DEF RInv, CameraOK
      <4> QED BY <1>7, <3>2, <4>2, <4>3 DEF defect_inspect_main, RoundDone
    <3>3. CASE img' = "wait" /\ cam # "idle"
      BY <2>2, <3>3 DEF Owed
    <3> QED BY <2>2, <3>1, <3>2, <3>3
  <2>4. Owed
    BY <2>1 DEF Owed
  <2> QED BY <2>2, <2>3, <2>4 DEF Pending
<1>8. CASE onenet_upload_defect_report \/ onenet_upload_defect_count \/ BeepOn \/ BeepOff
           \/ Reset
  <2>1. /\ UNCHANGED <<cam, batch, frame_ready, csv>> /\ img \in Uploading
        /\ img' \in Uploading \cup {"wait"}
    BY <1>8 DEF onenet_upload_defect_report, onenet_upload_defect_count, BeepOn, BeepOff, Reset,
                Uploading, camera, picture, output
  <2>2. cam = "idle" /\ frame_ready = 0
    BY <1>1, <2>1, ImgAtWork DEF ImgIdle, InHand, Uploading
  <2>3. ~Owed /\ ~Owed'
    BY <2>1, <2>2 DEF Owed, Uploading
  <2> QED BY <2>1, <2>3 DEF Pending
<1>9. CASE UNCHANGED vars
  BY <1>9 DEF Pending, Owed, vars, camera, picture, output
<1> QED BY <1>2, <1>3, <1>4, <1>5, <1>6, <1>7, <1>8, <1>9 DEF Next, Img

\* Every step of the round is a step of the inspection service or none: each
\* batch gets one table, with the results of all its photos in order.
THEOREM RoundIsService ==
    ASSUME Sound
    PROVE  Spec => Service!Init /\ [][Service!Next]_<<Pending, csv>>
<1>1. Init => Service!Init
  BY DEF Init, Service!Init, Pending, Owed
<1>2. RInv /\ SInv /\ [Next]_vars => [Service!Next]_<<Pending, csv>>
  BY ServiceStep, NoFaults DEF Sound
<1> QED BY <1>1, <1>2, RoundInvariant, SoundInvariant, PTL DEF Spec

----------------------------------------------------------------------------
(* After a disturbance.                                                    *)

\* Nothing is under way and nothing is left over: no photo announced and not
\* closed, no picture waiting, no result since the last reset.
AtRest ==
    /\ cam = "idle" /\ CtrlIdle /\ image_count = 0
    /\ Untouched
    /\ ~overrun

\* A step in which nothing is lost; uploads may still fail.
FaultFree == faults' = faults

\* While a round is uploaded its table is that of the batch, and the cloud
\* agrees with itself.
ShownIsBatch == img \in Uploading => csv = batch /\ CloudAgrees

\* Lost pictures, lost command bytes, a restarted camera and a failing SD card
\* leave no trace once the line has come to rest: from there, for as long as
\* no fault happens, it is an inspection service again, reports nothing of the
\* disturbed rounds, stays within last_detect, and what the cloud shows of each
\* later round agrees.
THEOREM RestIsSound ==
    ASSUME Fitting
    PROVE  Spec => [](AtRest /\ [][FaultFree]_vars =>
                        [][Service!Next]_<<Pending, csv>> /\ []InBounds /\ []ShownIsBatch)
<1>1. RInv /\ AtRest => SInv
  <2> SUFFICES ASSUME RInv, AtRest PROVE SInv
    OBVIOUS
  <2>1. img = "wait" /\ frame_ready = 0 /\ inspected = <<>> /\ ~overrun
    BY DEF AtRest, Untouched, ImgIdle
  <2>2. PInv
    <3>1. Len(inspected) = 0
      BY <2>1, EmptySeq
    <3>2. Quiet
      BY <2>1 DEF Quiet, ImgIdle
    <3>3. Storing /\ Complete /\ Reported
      BY <2>1, <3>1, RoundAssumption DEF Storing, Complete, Reported, ReportIsInspectedPrefix
    <3> QED BY <3>2, <3>3 DEF PInv
  <2>3. Progress
    BY DEF AtRest, Progress
  <2>4. Uploads
    BY <2>1 DEF Uploads, Uploading
  <2> QED BY <2>1, <2>2, <2>3, <2>4 DEF SInv
<1>2. RInv /\ SInv /\ [Next]_vars /\ [FaultFree]_vars => SInv' /\ [Service!Next]_<<Pending, csv>>
  <2> SUFFICES ASSUME RInv, SInv, [Next]_vars, [FaultFree]_vars
               PROVE  SInv' /\ [Service!Next]_<<Pending, csv>>
    OBVIOUS
  <2>1. faults' = faults
    BY DEF vars, FaultFree
  <2> QED BY <2>1, SoundStep, ServiceStep
<1>3. SInv => InBounds /\ ShownIsBatch
  BY DEF SInv, InBounds, Uploads, ShownIsBatch
<1> QED BY <1>1, <1>2, <1>3, RoundInvariant, PTL DEF Spec

----------------------------------------------------------------------------
(* Why a round completes.  Liveness itself is TLC's; the two facts it      *)
(* rests on hold for every batch: every step takes something off the work  *)
(* that is left, and while work is left some actor can step.               *)

\* The steps that are left to the camera, and those of uart_ctrl and uart_img
\* that its bytes and pictures will cause; to uart_ctrl; to uart_img.
CamWork ==
    IF cam = "announce" THEN 2 * (Len(batch) - i) + 5 + 11 * Len(batch)
    ELSE IF cam = "close" THEN 5 + 11 * Len(batch)
    ELSE IF cam = "frames" THEN 11 * (Len(batch) - i) ELSE 0
CmdWork == Len(cmds) + IF cmds # <<>> /\ cmds[Len(cmds)] = ")" THEN 3 ELSE 0
CtrlWork ==
    IF ctrl = "beep1" THEN 3 ELSE IF ctrl = "gap" THEN 2 ELSE IF ctrl = "beep2" THEN 1 ELSE 0
Stages == <<"reset", "beeping", "beep", "count", "upload", "write", "open", "copying", "copy">>
LeftAt(place, ready) ==
    IF place = "wait" THEN 10 * ready ELSE CHOOSE n \in 1 .. 9 : Stages[n] = place
ImgWork == LeftAt(img, frame_ready)
Work == CamWork + CmdWork + CtrlWork + ImgWork

\* The guards of the steps, written out: the camera's, uart_ctrl's, uart_img's.
CameraReady ==
    \/ cam \in {"announce", "close"} /\ ImgIdle /\ Len(cmds) < MaxQueue
    \/ cam = "frames" /\ ImgIdle /\ CtrlIdle
CtrlReady == CtrlMayRun /\ ~CtrlIdle
ImgReady  == ~ImgIdle

\* The work of each actor is a number.
LEMMA WorkType ==
    ASSUME RInv
    PROVE  CamWork \in Nat /\ CmdWork \in Nat /\ CtrlWork \in Nat
<1>1. /\ cam \in {"idle", "announce", "close", "frames"} /\ i \in Nat
      /\ cmds \in Seq({"(", ")"}) /\ Len(cmds) \in Nat
      /\ cam # "idle" => Len(batch) \in Nat
      /\ cam \in {"announce", "frames"} => i < Len(batch)
  BY BatchFacts, LenProperties DEF RInv, CameraOK
<1>2. CamWork \in Nat
  BY <1>1 DEF CamWork
<1>3. CmdWork \in Nat
  BY <1>1 DEF CmdWork
<1>4. CtrlWork \in Nat
  BY DEF CtrlWork
<1> QED BY <1>2, <1>3, <1>4

\* What is left to uart_img, place by place.
LEMMA LeftIs ==
    ASSUME NEW ready
    PROVE  /\ LeftAt("wait", ready) = 10 * ready
           /\ LeftAt("copy", ready) = 9 /\ LeftAt("copying", ready) = 8
           /\ LeftAt("open", ready) = 7 /\ LeftAt("write", ready) = 6
           /\ LeftAt("upload", ready) = 5 /\ LeftAt("count", ready) = 4
           /\ LeftAt("beep", ready) = 3 /\ LeftAt("beeping", ready) = 2
           /\ LeftAt("reset", ready) = 1
<1>1. ASSUME NEW n \in 1 .. 9 PROVE LeftAt(Stages[n], ready) = n
  <2>1. \A m \in 1 .. 9 : Stages[m] = Stages[n] => m = n
    BY DEF Stages
  <2>2. Stages[n] # "wait"
    BY DEF Stages
  <2>3. LeftAt(Stages[n], ready) = CHOOSE m \in 1 .. 9 : Stages[m] = Stages[n]
    BY <2>2 DEF LeftAt
  <2> QED BY <2>1, <2>3
<1>2. LeftAt("wait", ready) = 10 * ready
  BY DEF LeftAt
<1>3. /\ Stages[1] = "reset" /\ Stages[2] = "beeping" /\ Stages[3] = "beep"
      /\ Stages[4] = "count" /\ Stages[5] = "upload" /\ Stages[6] = "write"
      /\ Stages[7] = "open" /\ Stages[8] = "copying" /\ Stages[9] = "copy"
  BY DEF Stages
<1>4. /\ LeftAt(Stages[1], ready) = 1 /\ LeftAt(Stages[2], ready) = 2
      /\ LeftAt(Stages[3], ready) = 3 /\ LeftAt(Stages[4], ready) = 4
      /\ LeftAt(Stages[5], ready) = 5 /\ LeftAt(Stages[6], ready) = 6
      /\ LeftAt(Stages[7], ready) = 7 /\ LeftAt(Stages[8], ready) = 8
      /\ LeftAt(Stages[9], ready) = 9
  BY <1>1
<1> QED BY <1>2, <1>3, <1>4

\* The camera's steps: a '(' leaves one to be counted, the ')' four for
\* uart_ctrl, a picture at most ten for uart_img.
LEMMA CameraWorks ==
    ASSUME Fitting, RInv, SInv, Camera \/ CameraReset, faults' = faults
    PROVE  Work' < Work
<1>1. /\ UNCHANGED <<batch, ctrl, img>> /\ ImgIdle /\ ~CameraReset
  BY NotLost DEF Fitting, Paced, Camera, WriteOpen, WriteClose, Write, SendFrame, CameraReset,
                 control
<1>2. /\ i \in Nat /\ cmds \in Seq({"(", ")"}) /\ Len(cmds) \in Nat
      /\ cam # "idle" => Len(batch) \in Nat
      /\ cam \in {"announce", "frames"} => i < Len(batch)
  BY BatchFacts, LenProperties DEF RInv, CameraOK
<1>3. CtrlWork' = CtrlWork /\ CtrlWork \in Nat /\ CamWork \in Nat /\ CmdWork \in Nat
  BY <1>1, WorkType DEF CtrlWork
<1>4. img = "wait" /\ img' = "wait" /\ ImgWork = 0
  <2>1. img = "wait" /\ frame_ready = 0
    BY <1>1 DEF ImgIdle
  <2>2. LeftAt("wait", 0) = 0
    BY LeftIs
  <2> QED BY <1>1, <2>1, <2>2 DEF ImgWork
<1>5. ImgWork' = 10 * frame_ready'
  BY <1>4, LeftIs DEF ImgWork
<1>6. ASSUME NEW ch, cmds' = Append(cmds, ch)
      PROVE  /\ ch = "(" => CmdWork' = Len(cmds) + 1
             /\ ch = ")" => CmdWork' = Len(cmds) + 4
             /\ Len(cmds) <= CmdWork
  <2> SUFFICES ASSUME ch \in {"(", ")"}
               PROVE  /\ ch = "(" => CmdWork' = Len(cmds) + 1
                      /\ ch = ")" => CmdWork' = Len(cmds) + 4
                      /\ Len(cmds) <= CmdWork
    BY <1>2 DEF CmdWork
  <2>1. Len(cmds') = Len(cmds) + 1 /\ cmds'[Len(cmds) + 1] = ch
    BY <1>2, <1>6, AppendProperties
  <2>2. cmds' # <<>>
    BY <1>2, <2>1, EmptySeq
  <2>3. CmdWork' = Len(cmds) + 1 + IF ch = ")" THEN 3 ELSE 0
    BY <2>1, <2>2 DEF CmdWork
  <2>4. Len(cmds) <= CmdWork
    BY <1>2 DEF CmdWork
  <2> QED BY <1>2, <2>3, <2>4
<1>7. CASE WriteOpen
  <2>1. /\ cam = "announce" /\ i' = i + 1 /\ cmds' = Append(cmds, "(") /\ UNCHANGED picture
        /\ cam' = IF i + 1 = Len(batch) THEN "close" ELSE "announce"
    BY <1>7, NotLost DEF WriteOpen, Write
  <2>2. CamWork' = CamWork - 2
    BY <1>1, <1>2, <2>1 DEF CamWork
  <2>3. CmdWork' = Len(cmds) + 1 /\ Len(cmds) <= CmdWork
    BY <1>6, <2>1
  <2>4. ImgWork' = 0
    BY <1>1, <1>5, <2>1 DEF ImgIdle, picture
  <2> QED BY <1>2, <1>3, <1>4, <2>2, <2>3, <2>4 DEF Work
<1>8. CASE WriteClose
  <2>1. /\ cam = "close" /\ i' = 0 /\ cmds' = Append(cmds, ")") /\ cam' = "frames"
        /\ UNCHANGED picture
    BY <1>8, NotLost DEF WriteClose, Write
  <2>2. CamWork' = CamWork - 5
    BY <1>1, <1>2, <2>1 DEF CamWork
  <2>3. CmdWork' = Len(cmds) + 4 /\ Len(cmds) <= CmdWork
    BY <1>6, <2>1
  <2>4. ImgWork' = 0
    BY <1>1, <1>5, <2>1 DEF ImgIdle, picture
  <2> QED BY <1>2, <1>3, <1>4, <2>2, <2>3, <2>4 DEF Work
<1>9. CASE SendFrame
  <2>1. /\ cam = "frames" /\ i' = i + 1 /\ UNCHANGED cmds /\ frame_ready' = 1
        /\ cam' = IF i + 1 = Len(batch) THEN "idle" ELSE "frames"
    BY <1>9, NotLost DEF SendFrame
  <2>2. CamWork' = CamWork - 11
    BY <1>1, <1>2, <2>1 DEF CamWork
  <2>3. CmdWork' = CmdWork
    BY <2>1 DEF CmdWork
  <2>4. ImgWork' = 10
    BY <1>5, <2>1
  <2> QED BY <1>3, <1>4, <2>2, <2>3, <2>4 DEF Work
<1> QED BY <1>1, <1>7, <1>8, <1>9 DEF Camera

\* Sums with a smaller part.
LEMMA SmallerSum ==
    ASSUME NEW a \in Nat, NEW b \in Nat, NEW c \in Nat, NEW d \in Nat,
           NEW p \in Nat, NEW q \in Nat, p + q < b + c
    PROVE  a + p + q + d < a + b + c + d
OBVIOUS

\* The same, for the last part.
LEMMA SmallerLast ==
    ASSUME NEW a \in Nat, NEW b \in Nat, NEW c \in Nat, NEW d \in Nat, NEW p \in Nat, p < d
    PROVE  a + b + c + p < a + b + c + d
OBVIOUS

\* uart_ctrl's steps.  The ')' is the last byte of its batch.
LEMMA CtrlWorks ==
    ASSUME Fitting, RInv, SInv, Ctrl
    PROVE  Work' < Work
<1>1. UNCHANGED <<camera, picture, img>> /\ ~CtrlIdle
  BY DEF Ctrl, CountPhoto, CloseBatch, CtrlBeep, SetRound, CtrlIdle
<1>2. /\ Progress /\ cam \in {"idle", "announce", "close", "frames"} /\ img \in Places
      /\ cmds \in Seq({"(", ")"}) /\ Len(cmds) \in Nat /\ image_count \in Nat
      /\ frame_ready \in {0, 1}
      /\ cam # "idle" => Len(batch) \in Nat
  BY BatchFacts, LenProperties DEF SInv, RInv, CameraOK, ControlOK, PictureOK
<1>3. /\ \/ cam \in {"announce", "close"} /\ Announcing
         \/ cam = "frames" /\ Closing /\ i = 0
  BY <1>1, <1>2, CtrlAtWork
<1>4. CamWork' = CamWork /\ ImgWork' = ImgWork
  BY <1>1 DEF CamWork, ImgWork, camera, picture
<1>5. CamWork \in Nat /\ CmdWork \in Nat /\ CtrlWork \in Nat
  BY WorkType
<1>6. ImgWork \in Nat
  BY <1>2, LeftIs DEF Places, Uploading, ImgWork
<1>9. CmdWork' + CtrlWork' < CmdWork + CtrlWork /\ CmdWork' \in Nat /\ CtrlWork' \in Nat
  <2>7. CASE CountPhoto \/ CloseBatch
    <3>1. ctrl = "idle" /\ cmds # <<>> /\ cmds' = Tail(cmds)
      BY <2>7 DEF CountPhoto, CloseBatch
    <3>2. /\ Len(cmds) \in Nat \ {0} /\ Len(cmds') = Len(cmds) - 1 /\ Head(cmds) = cmds[1]
          /\ cmds' \in Seq({"(", ")"})
          /\ \A k \in 1 .. Len(cmds') : cmds'[k] = cmds[k + 1]
      BY <1>2, <3>1, HeadTailProperties, EmptySeq
    <3>3. CtrlWork = 0
      BY <3>1 DEF CtrlWork
    <3>4. CASE CountPhoto
      <4>1. ctrl' = ctrl /\ cmds[1] = "("
        BY <3>2, <3>4 DEF CountPhoto
      <4>2. CtrlWork' = 0
        BY <3>1, <4>1 DEF CtrlWork
      <4>3. CASE cmds' = <<>>
        <5>1. Len(cmds) = 1
          BY <3>2, <4>3, EmptySeq
        <5>2. CmdWork = 1 /\ CmdWork' = 0
          BY <3>2, <4>1, <4>3, <5>1 DEF CmdWork
        <5> QED BY <3>3, <4>2, <5>2
      <4>4. CASE cmds' # <<>>
        <5>1. Len(cmds') > 0
          BY <3>2, <4>4, EmptySeq
        <5>2. cmds'[Len(cmds')] = cmds[Len(cmds)]
          BY <3>2, <5>1
        <5>3. CmdWork' = CmdWork - 1
          BY <3>1, <3>2, <4>4, <5>2 DEF CmdWork
        <5>4. CmdWork >= 1
          BY <3>2 DEF CmdWork
        <5> QED BY <1>5, <3>3, <4>2, <5>3, <5>4
      <4> QED BY <4>3, <4>4
    <3>5. CASE CloseBatch
      <4>1. ctrl' = "beep1" /\ cmds[1] = ")"
        BY <3>2, <3>5 DEF CloseBatch
      <4>2. cam = "frames" /\ Closing
        BY <1>3, <3>2, <4>1 DEF Announcing, AllOpen
      <4>3. Len(cmds) = 1
        <5>1. \A k \in 1 .. Len(cmds) - 1 : cmds[k] = "("
          BY <3>1, <4>2 DEF Closing
        <5> QED BY <3>2, <4>1, <5>1
      <4>4. cmds' = <<>>
        BY <3>2, <4>3, EmptySeq
      <4>5. CmdWork = 4 /\ CmdWork' = 0
        BY <3>1, <4>1, <4>3, <4>4, EmptySeq DEF CmdWork
      <4>6. CtrlWork' = 3
        BY <4>1 DEF CtrlWork
      <4> QED BY <3>3, <4>5, <4>6
    <3> QED BY <2>7, <3>4, <3>5
  <2>8. CASE CtrlBeep \/ SetRound
    <3>1. CmdWork' = CmdWork
      BY <2>8 DEF CtrlBeep, SetRound, CmdWork
    <3>2. CtrlWork \in Nat /\ CtrlWork' = CtrlWork - 1 /\ CtrlWork >= 1
      BY <2>8 DEF CtrlBeep, SetRound, CtrlWork
    <3> QED BY <1>5, <3>1, <3>2
  <2> QED BY <2>7, <2>8 DEF Ctrl
<1> QED BY <1>4, <1>5, <1>6, <1>9, SmallerSum, Zenon DEF Work

\* uart_img's steps.
LEMMA ImgWorks ==
    ASSUME Fitting, RInv, SInv, Img, faults' = faults
    PROVE  Work' < Work
<1>1. ~ImgIdle /\ UNCHANGED <<camera, cmds, control>>
  BY DEF ImgIdle, Img, TakeFrame, BeginCopy, defect_inspect_main, OpenCsv, WriteCsv,
         onenet_upload_defect_report, onenet_upload_defect_count, BeepOn, BeepOff, Reset
<1>2. Progress /\ cam \in {"idle", "announce", "close", "frames"} /\ frame_ready \in {0, 1}
  BY DEF SInv, RInv, CameraOK, PictureOK
<1>3. \/ img = "wait" /\ frame_ready = 1
      \/ frame_ready = 0
  BY <1>1, <1>2, ImgAtWork DEF InHand
<1>4. CamWork' = CamWork /\ CmdWork' = CmdWork /\ CtrlWork' = CtrlWork
  BY <1>1 DEF CamWork, CmdWork, CtrlWork, camera, control
<1>5. CamWork \in Nat /\ CmdWork \in Nat /\ CtrlWork \in Nat
  BY WorkType
<1>9. ImgWork' < ImgWork /\ ImgWork \in Nat /\ ImgWork' \in Nat
  <2>6. CASE TakeFrame
    <3>1. img = "wait" /\ frame_ready = 1 /\ img' = "copy"
      BY <2>6 DEF TakeFrame
    <3>2. LeftAt("wait", 1) = 10
      BY LeftIs
    <3>3. LeftAt("copy", frame_ready') = 9
      BY LeftIs
    <3> QED BY <3>1, <3>2, <3>3 DEF ImgWork
  <2>7. CASE img = "wait" /\ frame_ready = 1 /\ ~TakeFrame
    BY <2>7 DEF Img, BeginCopy, defect_inspect_main, OpenCsv, WriteCsv,
           onenet_upload_defect_report, onenet_upload_defect_count, BeepOn, BeepOff, Reset
  <2>8. CASE frame_ready = 0 /\ ~TakeFrame
    <3>1. frame_ready' = 0
      BY <2>8 DEF Img, BeginCopy, defect_inspect_main, OpenCsv, WriteCsv, picture,
           onenet_upload_defect_report, onenet_upload_defect_count, BeepOn, BeepOff, Reset
    <3>2. \/ img = "copy" /\ img' = "copying"
          \/ img = "copying" /\ img' \in {"open", "wait"}
          \/ img = "open" /\ img' = "write"
          \/ img = "write" /\ img' = "upload"
          \/ img = "upload" /\ img' = "count"
          \/ img = "count" /\ img' = "beep"
          \/ img = "beep" /\ img' = "beeping"
          \/ img = "beeping" /\ img' = "reset"
          \/ img = "reset" /\ img' = "wait"
      BY <2>8, NotLost DEF Img, BeginCopy, defect_inspect_main, OpenCsv, WriteCsv,
           onenet_upload_defect_report, onenet_upload_defect_count, BeepOn, BeepOff, Reset
    <3>3. ImgWork = LeftAt(img, 0) /\ ImgWork' = LeftAt(img', 0)
      BY <2>8, <3>1 DEF ImgWork
    <3>4. LeftAt("wait", 0) = 0
      BY LeftIs
    <3>5. /\ LeftAt("copy", 0) = 9 /\ LeftAt("copying", 0) = 8
          /\ LeftAt("open", 0) = 7 /\ LeftAt("write", 0) = 6
          /\ LeftAt("upload", 0) = 5 /\ LeftAt("count", 0) = 4
          /\ LeftAt("beep", 0) = 3 /\ LeftAt("beeping", 0) = 2
          /\ LeftAt("reset", 0) = 1
      BY LeftIs
    <3> QED BY <3>2, <3>3, <3>4, <3>5
  <2> QED BY <1>3, <2>6, <2>7, <2>8
<1> QED BY <1>4, <1>5, <1>9, SmallerLast, Zenon DEF Work

\* The camera starts its next batch when nothing is left to anyone.
LEMMA StartsAtRest ==
    ASSUME Fitting, RInv, SInv, StartBatch
    PROVE  Work = 0
<1>1. cam = "idle" /\ img = "wait" /\ frame_ready = 0 /\ Progress
  BY DEF StartBatch, Fitting, Paced, ImgIdle, SInv
<1>2. ctrl = "idle" /\ cmds = <<>>
  BY <1>1 DEF Progress, Published, CtrlIdle
<1>3. CamWork = 0
  BY <1>1 DEF CamWork
<1>4. CmdWork = 0
  <2>1. Len(<<>>) = 0
    OBVIOUS
  <2> QED BY <1>2, <2>1 DEF CmdWork
<1>5. CtrlWork = 0
  BY <1>2 DEF CtrlWork
<1>6. ImgWork = 0
  <2>1. LeftAt("wait", 0) = 0
    BY LeftIs
  <2> QED BY <1>1, <2>1 DEF ImgWork
<1> QED BY <1>3, <1>4, <1>5, <1>6 DEF Work

\* The work that is left is a number, and no actor has any when it is zero.
LEMMA WorkIsNatural ==
    ASSUME RInv
    PROVE  Work \in Nat /\ (Work = 0 => cam = "idle" /\ CtrlIdle /\ ImgIdle)
<1>1. CamWork \in Nat /\ CmdWork \in Nat /\ CtrlWork \in Nat
  BY WorkType
<1>2. img \in Places /\ frame_ready \in {0, 1}
  BY DEF RInv, PictureOK
<1>3. ImgWork \in Nat
  BY <1>2, LeftIs DEF Places, Uploading, ImgWork
<1>4. Work \in Nat
  BY <1>1, <1>3 DEF Work
<1>5. ASSUME Work = 0 PROVE cam = "idle" /\ CtrlIdle /\ ImgIdle
  <2>1. CamWork = 0 /\ CmdWork = 0 /\ CtrlWork = 0 /\ ImgWork = 0
    BY <1>1, <1>3, <1>5 DEF Work
  <2>2. /\ cam \in {"idle", "announce", "close", "frames"} /\ i \in Nat
        /\ ctrl \in {"idle", "beep1", "gap", "beep2"}
        /\ cmds \in Seq({"(", ")"}) /\ Len(cmds) \in Nat
        /\ cam # "idle" => Len(batch) \in Nat
        /\ cam \in {"announce", "frames"} => i < Len(batch)
    BY BatchFacts, LenProperties DEF RInv, CameraOK, ControlOK
  <2>3. cam = "idle"
    BY <2>1, <2>2 DEF CamWork
  <2>4. ctrl = "idle"
    BY <2>1, <2>2 DEF CtrlWork
  <2>5. Len(cmds) = 0
    BY <2>1, <2>2 DEF CmdWork
  <2>6. cmds = <<>>
    BY <2>2, <2>5, EmptySeq
  <2>7. img = "wait"
    BY <1>2, <2>1, LeftIs DEF Places, Uploading, ImgWork
  <2>8. 10 * frame_ready = 0
    BY <2>1, <2>7, LeftIs DEF ImgWork
  <2>9. frame_ready = 0
    BY <1>2, <2>8
  <2> QED BY <2>3, <2>4, <2>6, <2>7, <2>9 DEF CtrlIdle, ImgIdle
<1> QED BY <1>4, <1>5

\* A step of a sound line: the camera starts a batch when all work is done, and
\* every other step leaves less of it.
Shrinks == (StartBatch /\ Work = 0) \/ Work' < Work

\* With the camera in time and nothing lost but uploads, every step of the
\* camera, uart_ctrl and uart_img after a batch has started brings its report
\* nearer: a batch of n photos is over after at most 13 * n + 5 steps (Work just
\* after StartBatch), none of which is undone or done again, and the camera
\* never starts a batch while work of the last one is left.
THEOREM RoundShrinks ==
    ASSUME Sound
    PROVE  Spec => [][Shrinks]_vars
<1>1. RInv /\ SInv /\ [Next]_vars /\ UNCHANGED faults => [Shrinks]_vars
  <2> SUFFICES ASSUME RInv, SInv, Next, faults' = faults PROVE Shrinks
    OBVIOUS
  <2>1. Fitting
    BY DEF Sound
  <2> QED BY <2>1, CameraWorks, CtrlWorks, ImgWorks, StartsAtRest DEF Next, Shrinks
<1>2. [Next]_vars => UNCHANGED faults
  BY NoFaults
<1> QED BY <1>1, <1>2, RoundInvariant, SoundInvariant, PTL DEF Spec

\* Whatever is left to do, someone can do it: uart_img, or uart_ctrl, or the
\* camera.  When nothing is left the batch is over and its round is reset.
NeverStuck ==
    /\ Work \in Nat
    /\ Work > 0 => CameraReady \/ CtrlReady \/ ImgReady
    /\ Work = 0 => cam = "idle" /\ ImgIdle /\ detect_round = 0

\* The camera, uart_ctrl and uart_img never all wait for each other in the
\* middle of a batch, and they stop only where RoundCompletes wants them.
THEOREM RoundNeverStuck ==
    ASSUME Sound
    PROVE  Spec => []NeverStuck
<1>1. RInv /\ SInv => NeverStuck
  <2> SUFFICES ASSUME RInv, SInv PROVE NeverStuck
    OBVIOUS
  <2>1. Work \in Nat /\ (Work = 0 => cam = "idle" /\ CtrlIdle /\ ImgIdle)
    BY WorkIsNatural
  <2>2. cam \in {"idle", "announce", "close", "frames"} /\ Progress /\ TalliesAgree
    BY DEF RInv, CameraOK, SInv
  <2>3. ASSUME Work > 0 PROVE CameraReady \/ CtrlReady \/ ImgReady
    <3> SUFFICES ASSUME ImgIdle, CtrlIdle PROVE CameraReady
      BY DEF ImgReady, CtrlReady, CtrlMayRun, ImgIdle
    <3>1. Len(cmds) < MaxQueue
      <4>1. Len(<<>>) = 0
        OBVIOUS
      <4> QED BY <4>1, RoundAssumption DEF CtrlIdle
    <3>2. cam # "idle"
      <4> SUFFICES ASSUME cam = "idle" PROVE FALSE
        OBVIOUS
      <4>1. CamWork = 0
        BY DEF CamWork
      <4>2. CmdWork = 0
        <5>1. Len(<<>>) = 0
          OBVIOUS
        <5> QED BY <5>1 DEF CmdWork, CtrlIdle
      <4>3. CtrlWork = 0
        BY DEF CtrlWork, CtrlIdle
      <4>4. ImgWork = 0
        <5>1. LeftAt("wait", 0) = 0
          BY LeftIs
        <5> QED BY <5>1 DEF ImgWork, ImgIdle
      <4>5. Work = 0
        BY <4>1, <4>2, <4>3, <4>4 DEF Work
      <4> QED BY <2>3, <4>5
    <3> QED BY <2>2, <3>1, <3>2 DEF CameraReady
  <2>4. ASSUME Work = 0 PROVE cam = "idle" /\ ImgIdle /\ detect_round = 0
    <3>1. cam = "idle" /\ ImgIdle
      BY <2>1, <2>4
    <3>2. inspected = <<>>
      BY <2>2, <3>1 DEF Progress, InHand, Untouched, ImgIdle
    <3>3. Len(<<>>) = 0 /\ 0 % U8 = 0
      BY RoundAssumption
    <3> QED BY <2>2, <3>1, <3>2, <3>3 DEF TalliesAgree
  <2> QED BY <2>1, <2>3, <2>4 DEF NeverStuck
<1> QED BY <1>1, RoundInvariant, SoundInvariant, PTL
=============================================================================
