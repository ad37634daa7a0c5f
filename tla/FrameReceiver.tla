--------------------------- MODULE FrameReceiver ---------------------------
(***************************************************************************)
(* The picture link between the OpenMV camera and the STM32 board.         *)
(*                                                                         *)
(* The camera (OpenMV/all_endhaha.py, send_frame) writes a picture as      *)
(*     FRAME_HEAD, IMAGE_SIZE pixels in 0..VAL_MAX, FRAME_TAIL_1/2         *)
(* on a bare UART.  The board (applications/model_sd_start.c,              *)
(* uart_rx_callback) rebuilds pictures from the bytes it gets: it waits    *)
(* for a head byte, stores bytes until IMAGE_SIZE + 2 of them are there    *)
(* and, while the last two are not the tail, slides the window one byte.   *)
(* There is no length field, checksum, acknowledgement or timeout, and a   *)
(* pixel pair may look like the tail.                                      *)
(*                                                                         *)
(* The line may lose, corrupt or invent bytes, and the camera may be reset *)
(* in the middle of a frame.  MAX_FAULTS caps the number of such events.   *)
(***************************************************************************)
EXTENDS Integers

CONSTANTS
    IMAGE_SIZE,             \* pixels of a picture (1024 in the code)
    BUF_SIZE,               \* sizeof(recv_buf) (1032)
    BYTE_MAX,               \* largest byte (255)
    VAL_MAX,                \* largest pixel on the line (127)
    RAW_MAX,                \* largest grey value of the sensor (255)
    FRAME_HEAD,             \* 0xA6
    FRAME_TAIL_1,           \* 0x5D
    FRAME_TAIL_2,           \* 0x5B
    RawPixels,              \* the grey values the pictures are made of
    MAX_FAULTS              \* bound on line faults and camera resets

\* FRAME_HEAD is no pixel and no tail byte; the window fits the buffer.
ASSUME FrameAssumption ==
    /\ IMAGE_SIZE \in Nat \ {0}
    /\ BUF_SIZE \in Nat /\ BUF_SIZE >= IMAGE_SIZE + 2
    /\ BYTE_MAX \in Nat
    /\ VAL_MAX \in 0 .. BYTE_MAX
    /\ RAW_MAX \in Nat \ {0}
    /\ FRAME_HEAD \in (VAL_MAX + 1) .. BYTE_MAX
    /\ FRAME_TAIL_1 \in 0 .. BYTE_MAX /\ FRAME_TAIL_1 # FRAME_HEAD
    /\ FRAME_TAIL_2 \in 0 .. BYTE_MAX /\ FRAME_TAIL_2 # FRAME_HEAD
    /\ RawPixels \subseteq 0 .. RAW_MAX
    /\ MAX_FAULTS \in Nat

Byte     == 0 .. BYTE_MAX
Pixel    == 0 .. VAL_MAX
Pictures == [0 .. IMAGE_SIZE - 1 -> RawPixels]
FrameLen == IMAGE_SIZE + 3
Idle     == FrameLen            \* value of pos when no frame is being written

VARIABLES
    img,            \* camera: the picture of the last send_frame
    pos,            \* camera: bytes of that frame already written
    frame_start,    \* board: 1 once a head byte was seen
    recv_cnt,       \* board: bytes in the window
    recv_buf,       \* board: the window
    image_buffer,   \* board: the last picture delivered
    frame_ready,    \* board: 1 when uart_recv_thread has a picture to take
    faults,         \* how many faults happened
    clean,          \* no fault since the last send_frame began
    prevClean,      \* nor between the send_frame before it and that one
    completions     \* pictures delivered since the last send_frame began

camera   == <<img, pos>>
receiver == <<frame_start, recv_cnt, recv_buf, image_buffer, frame_ready>>
history  == <<faults, clean, prevClean, completions>>
vars     == <<camera, receiver, history>>

----------------------------------------------------------------------------
(* The camera's side.                                                      *)

\* int(round(p * 127 / 255)), clamped.  RAW_MAX is odd in the code, so the
\* quotient is never half-way between two integers.
Mapped(p) ==
    LET r == (2 * p * VAL_MAX + RAW_MAX) \div (2 * RAW_MAX)
    IN  IF r < 0 THEN 0 ELSE IF r > VAL_MAX THEN VAL_MAX ELSE r

\* The k-th byte of the frame of picture pic.
FrameByte(pic, k) ==
    IF k = 0 THEN FRAME_HEAD
    ELSE IF k <= IMAGE_SIZE THEN Mapped(pic[k - 1])
    ELSE IF k = IMAGE_SIZE + 1 THEN FRAME_TAIL_1
    ELSE FRAME_TAIL_2

----------------------------------------------------------------------------
(* The board's side: uart_rx_callback, one byte at a time.                 *)

\* Plausible coding errors: variants of the definitions below, used only to
\* show that the properties of this module notice them.
NoClamp(val)        == val
LateWindow(cnt)     == cnt > IMAGE_SIZE + 2
RestartCount(cnt)   == 0
ShiftedPicture(buf) == [j \in 0 .. IMAGE_SIZE - 1 |-> buf[j + 1]]

clamp_val(val) == IF val > VAL_MAX THEN VAL_MAX ELSE val

Stored(d) == [recv_buf EXCEPT ![recv_cnt] = d]

WindowFull(cnt) == cnt >= IMAGE_SIZE + 2

TailMatches(buf, cnt) ==
    buf[cnt - 2] = FRAME_TAIL_1 /\ buf[cnt - 1] = FRAME_TAIL_2

\* memmove(recv_buf, recv_buf + 1, sizeof(recv_buf) - 1)
Slid(buf) ==
    [i \in 0 .. BUF_SIZE - 1 |-> IF i < BUF_SIZE - 1 THEN buf[i + 1] ELSE buf[i]]

CountAfterMiss(cnt) == cnt - 1

PictureIn(buf) == [j \in 0 .. IMAGE_SIZE - 1 |-> clamp_val(buf[j])]

\* A byte while no frame is open: only a head byte has an effect.
AwaitHead(d) ==
    /\ frame_start = 0
    /\ IF d = FRAME_HEAD
       THEN /\ frame_start' = 1
            /\ recv_cnt' = 0
            /\ recv_buf' = [i \in 0 .. BUF_SIZE - 1 |-> 0]
       ELSE UNCHANGED <<frame_start, recv_cnt, recv_buf>>
    /\ UNCHANGED <<image_buffer, frame_ready, completions>>

\* A byte of an open frame that does not fill the window.
Fill(d) ==
    /\ frame_start = 1
    /\ recv_cnt < BUF_SIZE
    /\ ~WindowFull(recv_cnt + 1)
    /\ recv_buf' = Stored(d)
    /\ recv_cnt' = recv_cnt + 1
    /\ UNCHANGED <<frame_start, image_buffer, frame_ready, completions>>

\* The byte completes the tail: the picture is copied out, whether or not
\* the thread has taken the one before.
Complete(d) ==
    /\ frame_start = 1
    /\ recv_cnt < BUF_SIZE
    /\ WindowFull(recv_cnt + 1)
    /\ TailMatches(Stored(d), recv_cnt + 1)
    /\ image_buffer' = PictureIn(Stored(d))
    /\ frame_ready' = 1
    /\ frame_start' = 0
    /\ recv_cnt' = 0
    /\ recv_buf' = Stored(d)
    /\ completions' = completions + 1

\* The window is full without a tail at its end: drop its first byte.
Slide(d) ==
    /\ frame_start = 1
    /\ recv_cnt < BUF_SIZE
    /\ WindowFull(recv_cnt + 1)
    /\ ~TailMatches(Stored(d), recv_cnt + 1)
    /\ recv_buf' = Slid(Stored(d))
    /\ recv_cnt' = CountAfterMiss(recv_cnt + 1)
    /\ UNCHANGED <<frame_start, image_buffer, frame_ready, completions>>

uart_rx_callback(d) == AwaitHead(d) \/ Fill(d) \/ Complete(d) \/ Slide(d)

----------------------------------------------------------------------------
(* Steps.                                                                  *)

Init ==
    /\ img \in Pictures
    /\ pos = Idle
    /\ frame_start = 0
    /\ recv_cnt = 0
    /\ recv_buf = [i \in 0 .. BUF_SIZE - 1 |-> 0]
    /\ image_buffer = [j \in 0 .. IMAGE_SIZE - 1 |-> 0]
    /\ frame_ready = 0
    /\ faults = 0
    /\ clean = TRUE
    /\ prevClean = FALSE
    /\ completions = 0

\* send_frame begins; the camera has no other frame under way.
send_frame(picture) ==
    /\ pos = Idle
    /\ img' = picture
    /\ pos' = 0
    /\ prevClean' = clean
    /\ clean' = TRUE
    /\ completions' = 0
    /\ UNCHANGED <<receiver, faults>>

\* One byte of uart1.write crosses the line.
SendByte ==
    /\ pos < Idle
    /\ pos' = pos + 1
    /\ uart_rx_callback(FrameByte(img, pos))
    /\ UNCHANGED <<img, faults, clean, prevClean>>

Fault ==
    /\ faults < MAX_FAULTS
    /\ faults' = faults + 1
    /\ clean' = FALSE
    /\ UNCHANGED <<img, prevClean>>

\* A byte is lost: overrun of the UART or of the driver's ring buffer.
LoseByte ==
    /\ Fault
    /\ pos < Idle
    /\ pos' = pos + 1
    /\ UNCHANGED <<receiver, completions>>

\* A byte arrives with another value.
CorruptByte ==
    /\ Fault
    /\ pos < Idle
    /\ pos' = pos + 1
    /\ \E d \in Byte \ {FrameByte(img, pos)} : uart_rx_callback(d)

\* A byte arrives that nobody wrote, inside a frame or between two.
NoiseByte ==
    /\ Fault
    /\ pos' = pos
    /\ \E d \in Byte : uart_rx_callback(d)

\* The camera restarts in the middle of a frame, or a write of send_frame raises
\* and the rest of the frame is dropped.
CameraReset ==
    /\ Fault
    /\ pos < Idle
    /\ pos' = Idle
    /\ UNCHANGED <<receiver, completions>>

\* uart_recv_thread sees frame_ready and clears it.
TakeFrame ==
    /\ frame_ready = 1
    /\ frame_ready' = 0
    /\ UNCHANGED <<camera, frame_start, recv_cnt, recv_buf, image_buffer, history>>

Next ==
    \/ \E picture \in Pictures : send_frame(picture)
    \/ SendByte
    \/ LoseByte
    \/ CorruptByte
    \/ NoiseByte
    \/ CameraReset
    \/ TakeFrame

Spec == Init /\ [][Next]_vars

----------------------------------------------------------------------------
(* Properties.                                                             *)

\* Every variable has its C type; image_buffer only ever holds the values
\* 0..VAL_MAX that the int8_t input of the network can represent, whatever
\* bytes the line delivered (the job of clamp_val).
TypeOK ==
    /\ img \in Pictures
    /\ pos \in 0 .. Idle
    /\ frame_start \in {0, 1}
    /\ recv_cnt \in 0 .. BUF_SIZE
    /\ recv_buf \in [0 .. BUF_SIZE - 1 -> Byte]
    /\ image_buffer \in [0 .. IMAGE_SIZE - 1 -> Pixel]
    /\ frame_ready \in {0, 1}
    /\ faults \in 0 .. MAX_FAULTS
    /\ clean \in BOOLEAN
    /\ prevClean \in BOOLEAN
    /\ completions \in Nat

\* Between two bytes the window never holds a whole frame, so the test
\* "recv_cnt < sizeof(recv_buf)" never drops a byte and the tail test always
\* looks at the two newest bytes (uart_rx_callback, lines 150-172).
WindowBound == recv_cnt <= IMAGE_SIZE + 1

\* Resynchronisation: whatever state earlier losses, corruption, noise or a
\* camera reset left the receiver in, a frame that crosses the line intact
\* ends with the receiver waiting for the next head byte.
CleanFrameResyncs == pos = Idle /\ clean => frame_start = 0

\* The picture the receiver owes for img.
Expected == [j \in 0 .. IMAGE_SIZE - 1 |-> Mapped(img[j])]

\* Recovery: when two frames in a row cross the line intact, the second is
\* delivered exactly once and pixel by pixel, although pixels may contain
\* the tail pair and whatever happened before the first.
Recovery ==
    pos = Idle /\ clean /\ prevClean =>
        image_buffer = Expected /\ completions = 1

----------------------------------------------------------------------------
(* The inductive strengthening of the properties above.                    *)

\* While an intact frame crosses the line, an open window has at least as
\* many bytes as the frame has sent (or is full) and ends with its last byte.
WindowFollowsFrame ==
    clean /\ pos \in 1 .. Idle - 1 /\ frame_start = 1 =>
        /\ recv_cnt >= pos - 1 \/ recv_cnt = IMAGE_SIZE + 1
        /\ pos >= 2 => /\ recv_cnt >= 1
                       /\ recv_buf[recv_cnt - 1] = FrameByte(img, pos - 1)

\* In the second of two intact frames the window is exactly what was sent.
WindowIsPrefix ==
    clean /\ prevClean =>
        /\ pos = 0 => frame_start = 0 /\ completions = 0
        /\ pos \in 1 .. Idle - 1 =>
             /\ frame_start = 1
             /\ completions = 0
             /\ recv_cnt = pos - 1
             /\ \A i \in 0 .. recv_cnt - 1 : recv_buf[i] = FrameByte(img, i + 1)

IInv ==
    /\ TypeOK
    /\ WindowBound
    /\ CleanFrameResyncs
    /\ WindowFollowsFrame
    /\ WindowIsPrefix
    /\ Recovery
=============================================================================
