-------------------------- MODULE InspectionRound --------------------------
(***************************************************************************)
(* One inspection round, from the camera's batch of photos to the report.  *)
(*                                                                         *)
(* Actors:                                                                 *)
(*  - the camera announces n photos on the command line ('(' n times, then *)
(*    ')') and then sends the n pictures on the picture line;              *)
(*  - the receive interrupt of the picture line puts a picture in          *)
(*    image_buffer and sets frame_ready (FrameReceiver has the details);   *)
(*  - uart_ctrl (priority 20) counts the '(' and, on ')', beeps twice and  *)
(*    publishes the count as detection_round_cnt;                          *)
(*  - uart_img (priority 10) takes a picture, classifies it and, when the  *)
(*    announced number is reached, writes the CSV, uploads, beeps, resets. *)
(*                                                                         *)
(* A picture is the class the network gives it.  A picture overwritten by  *)
(* the interrupt while uart_img copies it is torn: any class may come out. *)
(* uart_img outranks uart_ctrl, so uart_ctrl only runs where uart_img      *)
(* blocks (a delay, the SD card or the network): CtrlMayRun.               *)
(***************************************************************************)
EXTENDS Integers, Sequences, FiniteSets

CONSTANTS
    ClassCnt,       \* DEFECT_CLASS_CNT (7)
    MaxRound,       \* DEFAULT_DETECTION_ROUND_CNT: length of last_detect (10)
    U8, U16,        \* moduli of the uint8_t and uint16_t counters (256 and 65536)
    MaxPhotos,      \* photos in a batch; nothing in the camera's code caps it
    MaxQueue,       \* bound on command bytes the camera is ahead of uart_ctrl
    FaultKinds,     \* what may fail: pictures, command bytes, the camera, SD, network
    MAX_FAULTS,     \* bound on those faults, except the network's
    CtrlInTime,     \* pictures wait until uart_ctrl has handled the commands
    ImgInTime       \* the camera waits until uart_img is idle again

ASSUME RoundAssumption ==
    /\ ClassCnt \in Nat \ {0}
    /\ MaxRound \in Nat \ {0}
    /\ U8 \in Nat /\ U8 > MaxRound /\ U16 \in Nat \ {0}
    /\ MaxPhotos \in Nat \ {0}
    /\ MaxQueue \in Nat \ {0}
    /\ FaultKinds \subseteq {"frame", "open", "close", "reset", "sd", "net"}
    /\ MAX_FAULTS \in Nat
    /\ CtrlInTime \in BOOLEAN /\ ImgInTime \in BOOLEAN

Class   == 0 .. ClassCnt - 1
Batches == UNION {[1 .. n -> Class] : n \in 1 .. MaxPhotos}

VARIABLES
    cam,                    \* "idle", "announce", "close", "frames"
    batch,                  \* classes of the photos of the current batch
    i,                      \* photos announced, then pictures sent
    faults,
    cmds,                   \* command bytes received and not yet handled
    ctrl,                   \* uart_ctrl: "idle", "beep1", "gap", "beep2"
    image_count,
    detection_round_cnt,
    image_buffer, frame_ready,
    img,                    \* uart_img: where it is
    torn,                   \* image_buffer changed while being copied
    detect_round, defect_counter, last_detect,
    total,                  \* local of generate_defect_stat_csv
    csv,                    \* results in /defect_stat.csv
    cloud, cloud_count,     \* last report and counts the cloud accepted
    accepted,               \* uploads of this round that were accepted
    buzzer,
    inspected,              \* history: results since the last reset
    overrun                 \* history: an index left last_detect or names

camera  == <<cam, batch, i>>
control == <<ctrl, image_count, detection_round_cnt>>
picture == <<image_buffer, frame_ready, torn>>
tally   == <<detect_round, defect_counter, last_detect, inspected>>
output  == <<total, csv, cloud, cloud_count, accepted>>
vars    == <<camera, faults, cmds, control, picture, img, tally, output, buzzer, overrun>>

ZeroCounts == [c \in Class |-> 0]
ZeroRound  == [k \in 0 .. MaxRound - 1 |-> 0]

Init ==
    /\ cam = "idle" /\ batch = <<>> /\ i = 0
    /\ faults = 0
    /\ cmds = <<>>
    /\ ctrl = "idle" /\ image_count = 0 /\ detection_round_cnt = MaxRound
    /\ image_buffer = 0 /\ frame_ready = 0 /\ torn = FALSE
    /\ img = "wait"
    /\ detect_round = 0 /\ defect_counter = ZeroCounts /\ last_detect = ZeroRound
    /\ inspected = <<>>
    /\ total = 0 /\ csv = <<>> /\ cloud = <<>> /\ cloud_count = ZeroCounts /\ accepted = 0
    /\ buzzer = 0
    /\ overrun = FALSE

ImgIdle  == img = "wait" /\ frame_ready = 0
CtrlIdle == ctrl = "idle" /\ cmds = <<>>

\* uart_ctrl has the lower priority: it does not run while uart_img computes.
CtrlMayRun == img \notin {"copy", "copying"}

Lost(kind) == kind \in FaultKinds /\ faults < MAX_FAULTS /\ faults' = faults + 1

----------------------------------------------------------------------------
(* Plausible coding errors: variants of the definitions below, used only   *)
(* to show that the properties of this module notice them.                 *)

Unwrapped(x)         == x + 1
ForgottenCount       == image_count
LateDone(round, n)   == round > n
StoreShort(round, n) == round + 1 < n
KeptCounts           == defect_counter

\* A failed open() that restarts the round but keeps the counts.
HalfReset ==
    /\ img = "open"
    /\ \/ img' = "write" /\ UNCHANGED <<faults, detect_round>>
       \/ img' = "wait" /\ Lost("sd") /\ detect_round' = 0
    /\ UNCHANGED <<camera, cmds, control, picture, defect_counter, last_detect, inspected,
                   output, buzzer, overrun>>

BeepLeftOn ==
    /\ img = "beeping"
    /\ img' = "reset"
    /\ UNCHANGED <<camera, faults, cmds, control, picture, tally, output, buzzer, overrun>>

----------------------------------------------------------------------------
\* x++ on a uint8_t.
Incremented(x) == (x + 1) % U8

----------------------------------------------------------------------------
(* The camera.                                                             *)

StartBatch ==
    /\ cam = "idle"
    /\ ImgInTime => ImgIdle
    /\ \E b \in Batches : batch' = b
    /\ cam' = "announce"
    /\ i' = 0
    /\ UNCHANGED <<faults, cmds, control, picture, img, tally, output, buzzer, overrun>>

\* uart3.write('(') / uart3.write(')'): the byte arrives or is lost.
Write(ch, kind) ==
    /\ ImgInTime => ImgIdle
    /\ Len(cmds) < MaxQueue
    /\ \/ cmds' = Append(cmds, ch) /\ UNCHANGED faults
       \/ Lost(kind) /\ UNCHANGED cmds
    /\ UNCHANGED <<batch, control, picture, img, tally, output, buzzer, overrun>>

WriteOpen ==
    /\ cam = "announce"
    /\ Write("(", "open")
    /\ i' = i + 1
    /\ cam' = IF i + 1 = Len(batch) THEN "close" ELSE "announce"

WriteClose ==
    /\ cam = "close"
    /\ Write(")", "close")
    /\ cam' = "frames"
    /\ i' = 0

\* send_frame, seen from the board: the last byte of the frame makes
\* uart_rx_callback store the picture, whatever uart_img is doing.  A frame
\* is lost when send_frame gives it up or the line drops a byte of it; bytes
\* changed on the way, or left over from such a frame, make it another picture.
SendFrame ==
    /\ cam = "frames"
    /\ ImgInTime => ImgIdle
    /\ CtrlInTime => CtrlIdle
    /\ i' = i + 1
    /\ cam' = IF i + 1 = Len(batch) THEN "idle" ELSE "frames"
    /\ \/ /\ \/ image_buffer' = batch[i + 1] /\ UNCHANGED faults
             \/ image_buffer' \in Class /\ Lost("frame")
          /\ frame_ready' = 1
          /\ torn' = (torn \/ img = "copying")
       \/ Lost("frame") /\ UNCHANGED picture
    /\ UNCHANGED <<batch, cmds, control, img, tally, output, buzzer, overrun>>

\* The camera restarts: the rest of the batch is never sent.
CameraReset ==
    /\ cam # "idle"
    /\ Lost("reset")
    /\ cam' = "idle"
    /\ i' = 0
    /\ UNCHANGED <<batch, cmds, control, picture, img, tally, output, buzzer, overrun>>

----------------------------------------------------------------------------
(* uart_ctrl.                                                              *)

\* case '(' : image_count++ on a uint8_t.
CountPhoto ==
    /\ CtrlMayRun
    /\ ctrl = "idle" /\ cmds # <<>> /\ Head(cmds) = "("
    /\ cmds' = Tail(cmds)
    /\ image_count' = Incremented(image_count)
    /\ UNCHANGED <<camera, faults, ctrl, detection_round_cnt, picture, img, tally, output,
                   buzzer, overrun>>

\* case ')' : two beeps, each with delays in which uart_img may run ...
CloseBatch ==
    /\ CtrlMayRun
    /\ ctrl = "idle" /\ cmds # <<>> /\ Head(cmds) = ")"
    /\ cmds' = Tail(cmds)
    /\ buzzer' = 1
    /\ ctrl' = "beep1"
    /\ UNCHANGED <<camera, faults, image_count, detection_round_cnt, picture, img, tally,
                   output, overrun>>

CtrlBeep ==
    /\ CtrlMayRun
    /\ \/ ctrl = "beep1" /\ ctrl' = "gap"   /\ buzzer' = 0
       \/ ctrl = "gap"   /\ ctrl' = "beep2" /\ buzzer' = 1
    /\ UNCHANGED <<camera, faults, cmds, image_count, detection_round_cnt, picture, img,
                   tally, output, overrun>>

CountAfterClose == 0

\* ... and then the count is published under the mutex.
SetRound ==
    /\ CtrlMayRun
    /\ ctrl = "beep2"
    /\ ctrl' = "idle"
    /\ buzzer' = 0
    /\ detection_round_cnt' = image_count
    /\ image_count' = CountAfterClose
    /\ UNCHANGED <<camera, faults, cmds, picture, img, tally, output, overrun>>

----------------------------------------------------------------------------
(* uart_img.                                                               *)

\* The loop sees frame_ready and clears it.
TakeFrame ==
    /\ img = "wait" /\ frame_ready = 1
    /\ frame_ready' = 0
    /\ img' = "copy"
    /\ UNCHANGED <<camera, faults, cmds, control, image_buffer, torn, tally, output, buzzer,
                   overrun>>

\* prepare_input_data: the memcpy begins ...
BeginCopy ==
    /\ img = "copy"
    /\ img' = "copying"
    /\ torn' = FALSE
    /\ UNCHANGED <<camera, faults, cmds, control, image_buffer, frame_ready, tally, output,
                   buzzer, overrun>>

\* detect_round < total: the result goes into last_detect.
StoreAt(round, n) == round < n

Counted(cnt, c) == [cnt EXCEPT ![c] = (@ + 1) % U16]

RoundDone(round, n) == round >= n

\* ... and ends; model_run, parse_output_result and the rest of the loop
\* body follow without blocking.
defect_inspect_main ==
    /\ img = "copying"
    /\ \E max_idx \in IF torn THEN Class ELSE {image_buffer} :
         /\ last_detect' = IF StoreAt(detect_round, detection_round_cnt) /\ detect_round < MaxRound
                           THEN [last_detect EXCEPT ![detect_round] = max_idx]
                           ELSE last_detect
         /\ defect_counter' = Counted(defect_counter, max_idx)
         /\ inspected' = Append(inspected, max_idx)
    /\ overrun' = (overrun \/ (StoreAt(detect_round, detection_round_cnt)
                               /\ detect_round >= MaxRound))
    /\ detect_round' = Incremented(detect_round)
    /\ img' = IF RoundDone(detect_round', detection_round_cnt) THEN "open" ELSE "wait"
    /\ UNCHANGED <<camera, faults, cmds, control, picture, output, buzzer>>

\* generate_defect_stat_csv: open() succeeds, or fails and the function
\* returns without uploading or resetting anything.
OpenCsv ==
    /\ img = "open"
    /\ \/ img' = "write" /\ UNCHANGED faults
       \/ img' = "wait" /\ Lost("sd")
    /\ UNCHANGED <<camera, cmds, control, picture, tally, output, buzzer, overrun>>

Results(n) == [k \in 1 .. IF n <= MaxRound THEN n ELSE MaxRound |-> last_detect[k - 1]]

\* The number of photos is read again, then the table is written.
WriteCsv ==
    /\ img = "write"
    /\ total' = detection_round_cnt
    /\ csv' = Results(detection_round_cnt)
    /\ accepted' = 0
    /\ overrun' = (overrun \/ detection_round_cnt > MaxRound)
    /\ img' = "upload"
    /\ UNCHANGED <<camera, faults, cmds, control, picture, tally, cloud, cloud_count, buzzer>>

\* onenet_upload_defect_report: the outcome of the publish is only logged.
onenet_upload_defect_report ==
    /\ img = "upload"
    /\ \/ cloud' = Results(total) /\ accepted' = accepted + 1
       \/ "net" \in FaultKinds /\ UNCHANGED <<cloud, accepted>>
    /\ img' = "count"
    /\ UNCHANGED <<camera, faults, cmds, control, picture, tally, total, csv, cloud_count,
                   buzzer, overrun>>

onenet_upload_defect_count ==
    /\ img = "count"
    /\ \/ cloud_count' = defect_counter /\ accepted' = accepted + 1
       \/ "net" \in FaultKinds /\ UNCHANGED <<cloud_count, accepted>>
    /\ img' = "beep"
    /\ UNCHANGED <<camera, faults, cmds, control, picture, tally, total, csv, cloud, buzzer,
                   overrun>>

BeepOn ==
    /\ img = "beep"
    /\ buzzer' = 1
    /\ img' = "beeping"
    /\ UNCHANGED <<camera, faults, cmds, control, picture, tally, output, overrun>>

BeepOff ==
    /\ img = "beeping"
    /\ buzzer' = 0
    /\ img' = "reset"
    /\ UNCHANGED <<camera, faults, cmds, control, picture, tally, output, overrun>>

CountsAfterReset == ZeroCounts

Reset ==
    /\ img = "reset"
    /\ defect_counter' = CountsAfterReset
    /\ last_detect' = ZeroRound
    /\ detect_round' = 0
    /\ inspected' = <<>>
    /\ img' = "wait"
    /\ UNCHANGED <<camera, faults, cmds, control, picture, output, buzzer, overrun>>

----------------------------------------------------------------------------

Camera == WriteOpen \/ WriteClose \/ SendFrame
Ctrl   == CountPhoto \/ CloseBatch \/ CtrlBeep \/ SetRound
Img    == \/ TakeFrame \/ BeginCopy \/ defect_inspect_main \/ OpenCsv \/ WriteCsv
          \/ onenet_upload_defect_report \/ onenet_upload_defect_count
          \/ BeepOn \/ BeepOff \/ Reset

Next == StartBatch \/ Camera \/ CameraReset \/ Ctrl \/ Img

Spec == Init /\ [][Next]_vars

\* The camera's loop runs on; the scheduler runs each ready thread.
FairSpec == Spec /\ WF_vars(Camera) /\ WF_vars(Ctrl) /\ WF_vars(Img)

----------------------------------------------------------------------------
(* Properties.                                                             *)

\* The counters stay in the ranges of uint8_t and uint16_t although a failing
\* SD card keeps detect_round counting, and every thread is at a known place.
TypeOK ==
    /\ cam \in {"idle", "announce", "close", "frames"}
    /\ batch \in Batches \cup {<<>>}
    /\ i \in 0 .. MaxPhotos /\ faults \in 0 .. MAX_FAULTS
    /\ cmds \in Seq({"(", ")"})
    /\ ctrl \in {"idle", "beep1", "gap", "beep2"}
    /\ image_count \in 0 .. U8 - 1 /\ detection_round_cnt \in 0 .. U8 - 1
    /\ image_buffer \in Class /\ frame_ready \in {0, 1} /\ torn \in BOOLEAN
    /\ img \in {"wait", "copy", "copying", "open", "write", "upload", "count", "beep",
                "beeping", "reset"}
    /\ detect_round \in 0 .. U8 - 1
    /\ defect_counter \in [Class -> 0 .. U16 - 1]
    /\ last_detect \in [0 .. MaxRound - 1 -> Class]
    /\ inspected \in Seq(Class)
    /\ total \in 0 .. U8 - 1
    /\ csv \in Seq(Class) /\ cloud \in Seq(Class)
    /\ cloud_count \in [Class -> 0 .. U16 - 1] /\ accepted \in 0 .. 2
    /\ buzzer \in {0, 1} /\ overrun \in BOOLEAN

\* How many of the results are in each class, as far as a uint16_t can tell.
Positions(results, c) == {k \in DOMAIN results : results[k] = c}
Tally(results) == [c \in Class |-> Cardinality(Positions(results, c)) % U16]

\* The three records of the round agree: every picture inspected since the
\* last reset is counted once in its class and once in detect_round, however
\* the interrupt, uart_ctrl, failed uploads and a failing SD card interleave
\* (parse_output_result, uart_recv_thread and the resets at the end).
TalliesAgree ==
    /\ defect_counter = Tally(inspected)
    /\ detect_round = Len(inspected) % U8

\* A report never holds a result that was not obtained since the last reset,
\* nor one in another place: it is the first total results, in order, even
\* when pictures, command bytes or a whole camera were lost and rounds run
\* into each other.
ReportIsInspectedPrefix ==
    img \in {"upload", "count", "beep", "beeping", "reset"} =>
        total <= Len(inspected) /\ csv = SubSeq(inspected, 1, total)

\* When both uploads of a round are accepted, the counts the cloud shows are
\* those of the report it shows, also after rounds whose uploads failed.
CloudAgrees ==
    accepted = 2 => cloud_count = Tally(cloud)

\* The buzzer is shared by two threads; it is silent when neither beeps.
BuzzerSilent ==
    ctrl \in {"idle", "gap"} /\ img # "beeping" => buzzer = 0

\* Every batch the camera starts ends with a finished and reset round, so
\* the next batch starts from a clean slate.
RoundCompletes ==
    cam # "idle" ~> cam = "idle" /\ ImgIdle /\ detect_round = 0

\* No result and no column title is stored or read beyond the ten places of
\* last_detect and names.
InBounds == ~overrun

----------------------------------------------------------------------------
(* What a round promises: InspectionService.                               *)

\* The batch is owed a report until its table is written.
Owed == cam # "idle" \/ frame_ready = 1 \/ img \in {"copy", "copying", "open", "write"}

Pending == IF Owed THEN batch ELSE <<>>

Service == INSTANCE InspectionService WITH pending <- Pending, reported <- csv

\* In time and without faults, the board is an inspection service: every
\* batch of photos gets exactly one table, with the results of all its
\* photos in the order they were taken and nothing else.
ImplementsService == Service!Spec
=============================================================================
