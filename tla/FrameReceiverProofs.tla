------------------------ MODULE FrameReceiverProofs ------------------------
(***************************************************************************)
(* Proofs about FrameReceiver for every picture size, alphabet, buffer     *)
(* size and number of faults that FrameAssumption allows.                  *)
(***************************************************************************)
EXTENDS FrameReceiver, TLAPS

\* The camera only puts values 0..VAL_MAX on the line for a pixel.
LEMMA MappedType ==
    ASSUME NEW p \in RawPixels
    PROVE  Mapped(p) \in Pixel
<1>1. p \in Nat /\ RAW_MAX \in Nat \ {0} /\ VAL_MAX \in Nat
  BY FrameAssumption
<1> DEFINE r == (2 * p * VAL_MAX + RAW_MAX) \div (2 * RAW_MAX)
<1>2. p * VAL_MAX \in Nat
  BY <1>1
<1>3. r \in Int
  <2> DEFINE a == 2 * p * VAL_MAX + RAW_MAX
             b == 2 * RAW_MAX
  <2>1. a \in Int /\ b \in Int /\ b > 0
    BY <1>1, <1>2
  <2> HIDE DEF a, b
  <2>2. a \div b \in Int
    BY <2>1
  <2> QED BY <2>2 DEF a, b
<1> HIDE DEF r
<1>4. (IF r < 0 THEN 0 ELSE IF r > VAL_MAX THEN VAL_MAX ELSE r) \in 0 .. VAL_MAX
  BY <1>1, <1>3
<1> QED BY <1>4 DEF Mapped, Pixel, r

\* What the bytes of a frame are: the head comes first and only first.
LEMMA FrameByteType ==
    ASSUME NEW pic \in Pictures, NEW k \in 0 .. FrameLen - 1
    PROVE  /\ FrameByte(pic, k) \in Byte
           /\ k = 0 => FrameByte(pic, k) = FRAME_HEAD
           /\ k > 0 => FrameByte(pic, k) # FRAME_HEAD
           /\ k \in 1 .. IMAGE_SIZE => FrameByte(pic, k) = Mapped(pic[k - 1])
           /\ k = IMAGE_SIZE + 1 => FrameByte(pic, k) = FRAME_TAIL_1
           /\ k = IMAGE_SIZE + 2 => FrameByte(pic, k) = FRAME_TAIL_2
<1>1. CASE k \in 1 .. IMAGE_SIZE
  <2>1. k - 1 \in 0 .. IMAGE_SIZE - 1
    BY <1>1, FrameAssumption
  <2>2. pic[k - 1] \in RawPixels
    BY <2>1 DEF Pictures
  <2>3. Mapped(pic[k - 1]) \in Pixel
    BY <2>2, MappedType
  <2> QED BY <1>1, <2>3, FrameAssumption DEF FrameByte, Byte, Pixel, FrameLen
<1>2. CASE k \notin 1 .. IMAGE_SIZE
  BY <1>2, FrameAssumption DEF FrameByte, Byte, FrameLen
<1> QED BY <1>1, <1>2

\* clamp_val yields a pixel value for every byte.
LEMMA ClampType ==
    ASSUME NEW d \in Byte
    PROVE  clamp_val(d) \in Pixel /\ (d \in Pixel => clamp_val(d) = d)
BY FrameAssumption DEF clamp_val, Byte, Pixel

\* What uart_rx_callback does to the types of the receiver's variables.
LEMMA CallbackType ==
    ASSUME TypeOK, WindowBound, NEW d \in Byte, uart_rx_callback(d)
    PROVE  /\ frame_start' \in {0, 1}
           /\ recv_cnt' \in 0 .. IMAGE_SIZE + 1
           /\ recv_buf' \in [0 .. BUF_SIZE - 1 -> Byte]
           /\ image_buffer' \in [0 .. IMAGE_SIZE - 1 -> Pixel]
           /\ frame_ready' \in {0, 1}
           /\ completions' \in Nat
<1> USE FrameAssumption DEF TypeOK, WindowBound
<1>1. CASE AwaitHead(d)
  BY <1>1 DEF AwaitHead, Byte
<1>2. recv_cnt + 1 \in 0 .. BUF_SIZE /\ recv_cnt \in 0 .. BUF_SIZE - 1
  OBVIOUS
<1>3. Stored(d) \in [0 .. BUF_SIZE - 1 -> Byte]
  BY DEF Stored
<1>4. CASE Fill(d)
  BY <1>2, <1>3, <1>4 DEF Fill, WindowFull
<1>5. CASE Complete(d)
  <2>1. PictureIn(Stored(d)) \in [0 .. IMAGE_SIZE - 1 -> Pixel]
    <3>1. ASSUME NEW j \in 0 .. IMAGE_SIZE - 1
          PROVE  clamp_val(Stored(d)[j]) \in Pixel
      <4>1. Stored(d)[j] \in Byte
        BY <1>3
      <4> QED BY <4>1, ClampType
    <3> QED BY <3>1 DEF PictureIn
  <2> QED BY <1>2, <1>3, <1>5, <2>1 DEF Complete
<1>6. CASE Slide(d)
  <2>1. Slid(Stored(d)) \in [0 .. BUF_SIZE - 1 -> Byte]
    <3>1. ASSUME NEW i \in 0 .. BUF_SIZE - 1
          PROVE  (IF i < BUF_SIZE - 1 THEN Stored(d)[i + 1] ELSE Stored(d)[i]) \in Byte
      BY <1>3
    <3> QED BY <3>1 DEF Slid
  <2>2. CountAfterMiss(recv_cnt + 1) = recv_cnt
    BY DEF CountAfterMiss
  <2> QED BY <1>2, <1>6, <2>1, <2>2 DEF Slide
<1> QED BY <1>1, <1>4, <1>5, <1>6 DEF uart_rx_callback

----------------------------------------------------------------------------

\* The initial state of the receiver (no frame open) satisfies the invariant.
LEMMA InitIInv == Init => IInv
<1> SUFFICES ASSUME Init PROVE IInv
  OBVIOUS
<1> USE FrameAssumption DEF Init
<1>1. clean \in BOOLEAN /\ prevClean \in BOOLEAN
  OBVIOUS
<1>2. /\ pos \in 0 .. Idle
      /\ recv_buf \in [0 .. BUF_SIZE - 1 -> Byte]
      /\ image_buffer \in [0 .. IMAGE_SIZE - 1 -> Pixel]
      /\ recv_cnt \in 0 .. BUF_SIZE /\ faults \in 0 .. MAX_FAULTS
  BY DEF Idle, FrameLen, Byte, Pixel
<1>3. TypeOK
  BY <1>1, <1>2 DEF TypeOK
<1> QED BY <1>3 DEF IInv, WindowBound, CleanFrameResyncs, WindowFollowsFrame,
               WindowIsPrefix, Recovery, Idle, FrameLen

\* A byte of an intact frame keeps the invariant.
LEMMA SendByteIInv ==
    ASSUME IInv, SendByte
    PROVE  IInv'
<1> DEFINE d == FrameByte(img, pos)
<1>1. /\ TypeOK /\ WindowBound /\ CleanFrameResyncs
      /\ WindowFollowsFrame /\ WindowIsPrefix /\ Recovery
  BY DEF IInv
<1>2. /\ pos \in 0 .. FrameLen - 1
      /\ pos' = pos + 1
      /\ uart_rx_callback(d)
      /\ img' = img /\ faults' = faults /\ clean' = clean /\ prevClean' = prevClean
  BY <1>1, FrameAssumption DEF SendByte, TypeOK, Idle, FrameLen
<1>3. img \in Pictures /\ img' \in Pictures
  BY <1>1, <1>2 DEF TypeOK
<1>4. /\ d \in Byte
      /\ pos = 0 => d = FRAME_HEAD
      /\ pos > 0 => d # FRAME_HEAD
      /\ pos \in 1 .. IMAGE_SIZE => d = Mapped(img[pos - 1])
      /\ pos = IMAGE_SIZE + 1 => d = FRAME_TAIL_1
      /\ pos = IMAGE_SIZE + 2 => d = FRAME_TAIL_2
  BY <1>2, <1>3, FrameByteType
<1>5. d = FrameByte(img', pos' - 1)
  BY <1>2
<1> HIDE DEF d
<1>6. /\ frame_start' \in {0, 1}
      /\ recv_cnt' \in 0 .. IMAGE_SIZE + 1
      /\ recv_buf' \in [0 .. BUF_SIZE - 1 -> Byte]
      /\ image_buffer' \in [0 .. IMAGE_SIZE - 1 -> Pixel]
      /\ frame_ready' \in {0, 1}
      /\ completions' \in Nat
  BY <1>1, <1>2, <1>4, CallbackType
<1>7. TypeOK' /\ WindowBound'
  BY <1>1, <1>2, <1>3, <1>6, FrameAssumption DEF TypeOK, WindowBound, Idle, FrameLen
<1>8. /\ recv_cnt \in 0 .. IMAGE_SIZE + 1
      /\ recv_buf \in [0 .. BUF_SIZE - 1 -> Byte]
      /\ frame_start \in {0, 1}
  BY <1>1, FrameAssumption DEF TypeOK, WindowBound
<1>9. frame_start = 1 => Stored(d) \in [0 .. BUF_SIZE - 1 -> Byte] /\ Stored(d)[recv_cnt] = d
                         /\ \A i \in 0 .. BUF_SIZE - 1 : i # recv_cnt => Stored(d)[i] = recv_buf[i]
  BY <1>4, <1>8, FrameAssumption DEF Stored
<1>10. WindowFollowsFrame'
  <2> SUFFICES ASSUME clean', pos' \in 1 .. Idle - 1, frame_start' = 1
               PROVE  /\ recv_cnt' >= pos' - 1 \/ recv_cnt' = IMAGE_SIZE + 1
                      /\ pos' >= 2 => /\ recv_cnt' >= 1
                                      /\ recv_buf'[recv_cnt' - 1] = d
    BY <1>5, FrameAssumption DEF WindowFollowsFrame, Idle, FrameLen
  <2>1. CASE AwaitHead(d)
    BY <2>1, <1>2, <1>4, <1>8, FrameAssumption DEF AwaitHead, FrameLen
  <2>2. CASE Fill(d)
    <3>1. frame_start = 1 /\ recv_cnt' = recv_cnt + 1 /\ recv_buf' = Stored(d)
      BY <2>2 DEF Fill
    <3>2. recv_buf'[recv_cnt' - 1] = d
      BY <3>1, <1>8, <1>9
    <3>3. pos >= 1 => recv_cnt >= pos - 1 \/ recv_cnt = IMAGE_SIZE + 1
      BY <3>1, <1>1, <1>2, FrameAssumption DEF WindowFollowsFrame, Idle, FrameLen
    <3>4. recv_cnt # IMAGE_SIZE + 1
      BY <2>2, <1>8, FrameAssumption DEF Fill, WindowFull
    <3> QED BY <3>1, <3>2, <3>3, <3>4, <1>2, <1>8, FrameAssumption DEF FrameLen
  <2>3. CASE Complete(d)
    BY <2>3 DEF Complete
  <2>4. CASE Slide(d)
    <3>1. recv_cnt = IMAGE_SIZE + 1
      BY <2>4, <1>8, FrameAssumption DEF Slide, WindowFull
    <3>2. recv_cnt' = IMAGE_SIZE + 1 /\ recv_buf' = Slid(Stored(d)) /\ frame_start = 1
      BY <2>4, <3>1, FrameAssumption DEF Slide, CountAfterMiss
    <3>3. recv_buf'[IMAGE_SIZE] = Stored(d)[IMAGE_SIZE + 1]
      BY <3>2, FrameAssumption DEF Slid
    <3> QED BY <3>1, <3>2, <3>3, <1>9, FrameAssumption
  <2> QED BY <1>2, <2>1, <2>2, <2>3, <2>4 DEF uart_rx_callback
\* The last byte of an intact frame finds a full window that ends with the
\* first tail byte, or no open window.
<1>11. clean /\ pos = IMAGE_SIZE + 2 /\ frame_start = 1 => Complete(d)
  <2> SUFFICES ASSUME clean, pos = IMAGE_SIZE + 2, frame_start = 1
               PROVE  Complete(d)
    OBVIOUS
  <2>1. /\ recv_cnt = IMAGE_SIZE + 1
        /\ recv_buf[IMAGE_SIZE] = FrameByte(img, IMAGE_SIZE + 1)
    <3>1. /\ recv_cnt >= pos - 1 \/ recv_cnt = IMAGE_SIZE + 1
          /\ pos >= 2 => /\ recv_cnt >= 1
                         /\ recv_buf[recv_cnt - 1] = FrameByte(img, pos - 1)
      BY <1>1, <1>2, FrameAssumption DEF WindowFollowsFrame, Idle, FrameLen
    <3>2. recv_cnt = IMAGE_SIZE + 1
      BY <3>1, <1>8, FrameAssumption
    <3>3. recv_cnt - 1 = IMAGE_SIZE /\ pos - 1 = IMAGE_SIZE + 1
      BY <3>2, FrameAssumption
    <3> QED BY <3>1, <3>2, <3>3, FrameAssumption
  <2>2. FrameByte(img, IMAGE_SIZE + 1) = FRAME_TAIL_1
    BY FrameAssumption DEF FrameByte
  <2>3. TailMatches(Stored(d), recv_cnt + 1)
    BY <2>1, <2>2, <1>4, <1>9, FrameAssumption DEF TailMatches
  <2> QED BY <2>1, <2>3, <1>2, FrameAssumption
          DEF uart_rx_callback, AwaitHead, Fill, Slide, WindowFull
<1>12. CleanFrameResyncs'
  <2> SUFFICES ASSUME clean, pos = IMAGE_SIZE + 2
               PROVE  frame_start' = 0
    BY <1>2, FrameAssumption DEF CleanFrameResyncs, Idle, FrameLen
  <2>1. CASE frame_start = 1
    BY <2>1, <1>11 DEF Complete
  <2>2. CASE frame_start = 0
    BY <2>2, <1>2, <1>4, FrameAssumption DEF uart_rx_callback, AwaitHead, Fill, Complete, Slide
  <2> QED BY <2>1, <2>2, <1>8
\* In the second of two intact frames the window is the frame so far.
<1>13. WindowIsPrefix'
  <2> SUFFICES ASSUME clean, prevClean, pos' \in 1 .. Idle - 1
               PROVE  /\ frame_start' = 1
                      /\ completions' = 0
                      /\ recv_cnt' = pos' - 1
                      /\ \A i \in 0 .. recv_cnt' - 1 : recv_buf'[i] = FrameByte(img', i + 1)
    BY <1>2 DEF WindowIsPrefix, FrameLen
  <2>1. CASE pos = 0
    <3>1. frame_start = 0 /\ completions = 0
      BY <2>1, <1>1 DEF WindowIsPrefix
    <3>2. AwaitHead(d)
      BY <3>1, <1>2 DEF uart_rx_callback, Fill, Complete, Slide
    <3> QED BY <2>1, <3>1, <3>2, <1>2, <1>4 DEF AwaitHead
  <2>2. CASE pos > 0
    <3>1. /\ frame_start = 1 /\ completions = 0 /\ recv_cnt = pos - 1
          /\ \A i \in 0 .. recv_cnt - 1 : recv_buf[i] = FrameByte(img, i + 1)
      BY <2>2, <1>1, <1>2 DEF WindowIsPrefix, Idle, FrameLen
    <3>2. ~WindowFull(recv_cnt + 1)
      BY <3>1, <1>2, FrameAssumption DEF WindowFull, Idle, FrameLen
    <3>3. Fill(d)
      BY <3>1, <3>2, <1>2 DEF uart_rx_callback, AwaitHead, Complete, Slide
    <3>4. recv_cnt' = pos /\ recv_buf' = Stored(d)
          /\ frame_start' = 1 /\ completions' = 0
      BY <3>1, <3>3, <1>2 DEF Fill
    <3>5. ASSUME NEW i \in 0 .. recv_cnt' - 1
          PROVE  recv_buf'[i] = FrameByte(img', i + 1)
      <4>1. CASE i = recv_cnt
        BY <4>1, <3>1, <3>4, <1>2, <1>5, <1>9
      <4>2. CASE i # recv_cnt
        <5>1. i \in 0 .. recv_cnt - 1 /\ i \in 0 .. BUF_SIZE - 1
          BY <4>2, <3>1, <3>4, <1>2, <1>8, FrameAssumption
        <5> QED BY <4>2, <5>1, <3>1, <3>4, <1>2, <1>9
      <4> QED BY <4>1, <4>2
    <3> QED BY <3>1, <3>4, <3>5, <1>2
  <2> QED BY <1>2, <2>1, <2>2 DEF FrameLen
<1>14. Recovery'
  <2> SUFFICES ASSUME clean, prevClean, pos = IMAGE_SIZE + 2
               PROVE  image_buffer' = Expected' /\ completions' = 1
    BY <1>2, FrameAssumption DEF Recovery, Idle, FrameLen
  <2>1. /\ frame_start = 1 /\ completions = 0 /\ recv_cnt = IMAGE_SIZE + 1
        /\ \A i \in 0 .. IMAGE_SIZE : recv_buf[i] = FrameByte(img, i + 1)
    BY <1>1, FrameAssumption DEF WindowIsPrefix, Idle, FrameLen
  <2>2. Complete(d)
    BY <2>1, <1>11
  <2>3. image_buffer' = PictureIn(Stored(d)) /\ completions' = 1
    BY <2>1, <2>2 DEF Complete
  <2>4. ASSUME NEW j \in 0 .. IMAGE_SIZE - 1
        PROVE  clamp_val(Stored(d)[j]) = Mapped(img[j])
    <3>1. Stored(d)[j] = FrameByte(img, j + 1)
      BY <2>1, <1>9, FrameAssumption
    <3>2. FrameByte(img, j + 1) = Mapped(img[j])
      BY FrameAssumption DEF FrameByte
    <3>3. img[j] \in RawPixels
      BY <1>3 DEF Pictures
    <3>4. Mapped(img[j]) \in Pixel
      BY <3>3, MappedType
    <3>5. Mapped(img[j]) \in Byte
      BY <3>4, FrameAssumption DEF Byte, Pixel
    <3> QED BY <3>1, <3>2, <3>4, <3>5, ClampType
  <2>5. PictureIn(Stored(d)) = Expected
    BY <2>4 DEF PictureIn, Expected
  <2> QED BY <2>3, <2>5, <1>2 DEF Expected
<1> QED BY <1>7, <1>10, <1>12, <1>13, <1>14 DEF IInv

\* Every step keeps the invariant.
LEMMA NextIInv == IInv /\ [Next]_vars => IInv'
<1> SUFFICES ASSUME IInv, [Next]_vars PROVE IInv'
  OBVIOUS
<1>1. /\ TypeOK /\ WindowBound /\ CleanFrameResyncs
      /\ WindowFollowsFrame /\ WindowIsPrefix /\ Recovery
  BY DEF IInv
<1>2. CASE \E picture \in Pictures : send_frame(picture)
  <2>1. PICK picture \in Pictures : send_frame(picture)
    BY <1>2
  <2>2. TypeOK' /\ WindowBound'
    BY <2>1, <1>1, FrameAssumption DEF send_frame, receiver, TypeOK, WindowBound, Idle, FrameLen
  <2>3. pos' = 0 /\ prevClean' = clean /\ completions' = 0 /\ frame_start' = frame_start
    BY <2>1 DEF send_frame, receiver
  <2>4. prevClean' => frame_start' = 0
    BY <2>1, <2>3, <1>1 DEF send_frame, CleanFrameResyncs
  <2> QED BY <2>2, <2>3, <2>4, FrameAssumption DEF IInv, CleanFrameResyncs,
             WindowFollowsFrame, WindowIsPrefix, Recovery, Idle, FrameLen
<1>3. CASE SendByte
  BY <1>3, SendByteIInv
\* After a fault only the types and the window bound are claimed.
<1>4. ASSUME clean' = FALSE, TypeOK', WindowBound'
      PROVE  IInv'
  BY <1>4 DEF IInv, CleanFrameResyncs, WindowFollowsFrame, WindowIsPrefix, Recovery
<1>5. CASE LoseByte \/ CameraReset
  <2>1. /\ UNCHANGED <<img, frame_start, recv_cnt, recv_buf, image_buffer,
                       frame_ready, prevClean, completions>>
        /\ clean' = FALSE
    BY <1>5 DEF LoseByte, CameraReset, Fault, receiver
  <2>2. pos' \in 0 .. Idle /\ faults' \in 0 .. MAX_FAULTS
    BY <1>5, <1>1, FrameAssumption DEF LoseByte, CameraReset, Fault, TypeOK, Idle, FrameLen
  <2>3. TypeOK' /\ WindowBound'
    BY <2>1, <2>2, <1>1, Zenon DEF TypeOK, WindowBound
  <2> QED BY <2>1, <2>3, <1>4
<1>6. CASE CorruptByte \/ NoiseByte
  <2>1. PICK d \in Byte : uart_rx_callback(d)
    BY <1>6 DEF CorruptByte, NoiseByte
  <2>2. /\ frame_start' \in {0, 1}
        /\ recv_cnt' \in 0 .. IMAGE_SIZE + 1
        /\ recv_buf' \in [0 .. BUF_SIZE - 1 -> Byte]
        /\ image_buffer' \in [0 .. IMAGE_SIZE - 1 -> Pixel]
        /\ frame_ready' \in {0, 1}
        /\ completions' \in Nat
    BY <2>1, <1>1, CallbackType
  <2>3. /\ pos' \in 0 .. Idle /\ faults' \in 0 .. MAX_FAULTS
        /\ clean' = FALSE /\ img' = img /\ prevClean' = prevClean
    BY <1>6, <1>1, FrameAssumption DEF CorruptByte, NoiseByte, Fault, TypeOK, Idle, FrameLen
  <2>4. recv_cnt' \in 0 .. BUF_SIZE /\ WindowBound'
    BY <2>2, FrameAssumption DEF WindowBound
  <2>5. TypeOK'
    BY <2>2, <2>3, <2>4, <1>1, Zenon DEF TypeOK
  <2> QED BY <2>3, <2>4, <2>5, <1>4
<1>7. CASE TakeFrame
  <2>1. UNCHANGED <<img, pos, frame_start, recv_cnt, recv_buf, image_buffer,
                    faults, clean, prevClean, completions>> /\ frame_ready' = 0
    BY <1>7 DEF TakeFrame, camera, history
  <2>2. TypeOK' /\ WindowBound' /\ CleanFrameResyncs'
    BY <2>1, <1>1 DEF TypeOK, WindowBound, CleanFrameResyncs
  <2>3. WindowFollowsFrame' /\ WindowIsPrefix' /\ Recovery'
    BY <2>1, <1>1 DEF WindowFollowsFrame, WindowIsPrefix, Recovery, Expected
  <2> QED BY <2>2, <2>3 DEF IInv
<1>8. CASE UNCHANGED vars
  <2>1. UNCHANGED <<img, pos, frame_start, recv_cnt, recv_buf, image_buffer,
                    frame_ready, faults, clean, prevClean, completions>>
    BY <1>8 DEF vars, camera, receiver, history
  <2>2. TypeOK' /\ WindowBound' /\ CleanFrameResyncs'
    BY <2>1, <1>1 DEF TypeOK, WindowBound, CleanFrameResyncs
  <2>3. WindowFollowsFrame' /\ WindowIsPrefix' /\ Recovery'
    BY <2>1, <1>1 DEF WindowFollowsFrame, WindowIsPrefix, Recovery, Expected
  <2> QED BY <2>2, <2>3 DEF IInv
<1> QED BY <1>2, <1>3, <1>5, <1>6, <1>7, <1>8 DEF Next

\* The inductive invariant holds in every state of every behaviour.
LEMMA IInvAlways == Spec => []IInv
<1> QED BY InitIInv, NextIInv, PTL DEF Spec

----------------------------------------------------------------------------

\* uart_rx_callback and its buffers keep their types for every byte stream;
\* image_buffer only ever holds values the network's input can represent.
THEOREM TypeCorrect == Spec => []TypeOK
<1>1. IInv => TypeOK
  BY DEF IInv
<1> QED BY <1>1, IInvAlways, PTL

\* The reception window of uart_rx_callback never reaches a whole frame
\* between two bytes, so recv_buf never overflows and no byte is dropped.
THEOREM WindowBounded == Spec => []WindowBound
<1>1. IInv => WindowBound
  BY DEF IInv
<1> QED BY <1>1, IInvAlways, PTL

\* After any history of faults one intact frame is enough to bring
\* uart_rx_callback back to waiting for a head byte.
THEOREM Resynchronises == Spec => []CleanFrameResyncs
<1>1. IInv => CleanFrameResyncs
  BY DEF IInv
<1> QED BY <1>1, IInvAlways, PTL

\* The second of two consecutive intact frames is delivered to image_buffer
\* exactly once and pixel by pixel, whatever faults came before them.
THEOREM Recovers == Spec => []Recovery
<1>1. IInv => Recovery
  BY DEF IInv
<1> QED BY <1>1, IInvAlways, PTL

\* A byte of the second of two intact frames: the last one delivers the
\* picture, the others leave alone what uart_recv_thread sees.
AtomicDelivery ==
    clean /\ prevClean /\ SendByte =>
        IF pos' = Idle THEN image_buffer' = Expected /\ frame_ready' = 1
                       ELSE UNCHANGED <<image_buffer, frame_ready>>

\* Seen from uart_recv_thread an undisturbed frame arrives in one step, with
\* its last byte, for every size and content of the picture, pixels that look
\* like a tail included: that is how InspectionRound models it (SendFrame).
THEOREM FrameIsOneStep == Spec => [][AtomicDelivery]_vars
<1>1. ASSUME IInv, [Next]_vars PROVE [AtomicDelivery]_vars
  <2> SUFFICES ASSUME clean, prevClean, SendByte
               PROVE  IF pos' = Idle THEN image_buffer' = Expected /\ frame_ready' = 1
                                     ELSE UNCHANGED <<image_buffer, frame_ready>>
    BY DEF AtomicDelivery
  <2>1. /\ pos \in 0 .. Idle /\ pos < Idle /\ pos' = pos + 1
        /\ uart_rx_callback(FrameByte(img, pos)) /\ WindowIsPrefix
        /\ UNCHANGED <<img, clean, prevClean>>
    BY <1>1 DEF IInv, TypeOK, SendByte
  <2>2. Idle = IMAGE_SIZE + 3 /\ IMAGE_SIZE \in Nat \ {0}
    BY FrameAssumption DEF Idle, FrameLen
  <2>3. CASE pos = 0
    <3>1. frame_start = 0
      BY <2>1, <2>3 DEF WindowIsPrefix
    <3>2. UNCHANGED <<image_buffer, frame_ready>>
      BY <2>1, <3>1 DEF uart_rx_callback, AwaitHead, Fill, Complete, Slide
    <3> QED BY <2>1, <2>2, <2>3, <3>2
  <2>4. CASE pos \in 1 .. Idle - 2
    <3>1. frame_start = 1 /\ recv_cnt = pos - 1
      BY <2>1, <2>2, <2>4 DEF WindowIsPrefix
    <3>2. ~WindowFull(recv_cnt + 1)
      BY <2>1, <2>2, <2>4, <3>1 DEF WindowFull
    <3>3. UNCHANGED <<image_buffer, frame_ready>>
      BY <2>1, <3>1, <3>2 DEF uart_rx_callback, AwaitHead, Fill, Complete, Slide
    <3> QED BY <2>1, <2>2, <2>4, <3>3
  <2>5. CASE pos = Idle - 1
    <3>1. completions = 0 /\ pos' = Idle
      BY <2>1, <2>2, <2>5 DEF WindowIsPrefix
    <3>2. image_buffer' = Expected' /\ completions' = 1
      BY <1>1, <2>1, <3>1, NextIInv DEF IInv, Recovery
    <3>3. frame_ready' = 1
      BY <2>1, <3>1, <3>2 DEF uart_rx_callback, AwaitHead, Fill, Complete, Slide
    <3>4. Expected' = Expected
      BY <2>1 DEF Expected
    <3> QED BY <3>1, <3>2, <3>3, <3>4
  <2> QED BY <2>1, <2>2, <2>3, <2>4, <2>5
<1> QED BY <1>1, IInvAlways, PTL DEF Spec
=============================================================================
