------------------------- MODULE CommandLineProofs -------------------------
(***************************************************************************)
(* Proofs about CommandLine for every buffer size, semaphore range and     *)
(* burst length that LineAssumption allows.                                *)
(***************************************************************************)
EXTENDS CommandLine, TLAPS

\* Types alone are not inductive for NoByteStranded: the tokens must cover the
\* bytes also while uart_ctrl is between taking a token and reading a byte.
IInv == TypeOK /\ TokensCoverBytes

\* Before main runs, no byte and no token is there.
LEMMA InitIInv == Init => IInv
<1> SUFFICES ASSUME Init PROVE IInv
  OBVIOUS
<1>1. failed \in BOOLEAN
  BY DEF Init
<1>2. TypeOK
  BY <1>1, LineAssumption DEF Init, TypeOK, Uarts, Booted
<1>3. TokensCoverBytes
  BY DEF Init, TokensCoverBytes, Uarts, Booted, SemInit
<1> QED BY <1>2, <1>3 DEF IInv

\* The interrupt adds at most as many bytes as tokens and extras.
LEMMA IsrIInv ==
    ASSUME IInv, NEW u \in Uarts, NEW k \in 1 .. MaxBurst, rt_hw_serial_isr(u, k)
    PROVE  IInv'
<1> USE LineAssumption DEF Uarts, Booted, SemInit
<1>1. TypeOK /\ TokensCoverBytes
  BY DEF IInv
<1>2. /\ fifo["uart4"] \in 0 .. BufSz - 1 /\ fifo["uart2"] \in 0 .. BufSz - 1
      /\ sem \in 0 .. SemMax /\ extra \in 0 .. MaxExtra
      /\ boot \in 0 .. 6 /\ k \in Nat /\ k >= 1
      /\ boot' = boot /\ ctrl' = ctrl
  BY <1>1 DEF TypeOK, rt_hw_serial_isr
<1>3. /\ AfterPut(fifo[u], k) \in 0 .. BufSz - 1
      /\ AfterPut(fifo[u], k) <= fifo[u] + k
  BY <1>2 DEF AfterPut
<1>4. /\ fifo' \in [Uarts -> 0 .. BufSz - 1]
      /\ fifo'[u] <= fifo[u] + k
      /\ \A v \in Uarts : v # u => fifo'[v] = fifo[v]
  BY <1>1, <1>3 DEF TypeOK, rt_hw_serial_isr
<1>5. /\ fifo'["uart4"] \in 0 .. BufSz - 1 /\ fifo'["uart2"] \in 0 .. BufSz - 1
      /\ fifo'["uart4"] + fifo'["uart2"] <= fifo["uart4"] + fifo["uart2"] + k
      /\ fifo'["uart4"] <= fifo["uart4"] + k
  <2>1. CASE u = "uart4"
    BY <2>1, <1>2, <1>4
  <2>2. CASE u = "uart2"
    BY <2>2, <1>2, <1>4
  <2> QED BY <2>1, <2>2
<1>6. /\ extra' \in 0 .. MaxExtra
      /\ failed' \in BOOLEAN
      /\ \/ sem' = sem /\ extra' = extra + k
         \/ sem < SemMax /\ sem' = sem + 1 /\ extra' = extra + k - 1 /\ boot >= SemInit
         \/ sem = SemMax /\ sem' = SemMax /\ extra' = extra + k - 1 /\ boot >= SemInit
  <2>1. CASE Released(u)
    BY <2>1, <1>2 DEF rt_hw_serial_isr, rt_sem_release, Released, Unready
  <2>2. CASE ~Released(u)
    BY <2>2, <1>2 DEF rt_hw_serial_isr, Unready
  <2> QED BY <2>1, <2>2
<1>7. sem' \in 0 .. SemMax
  BY <1>2, <1>6
<1>8. TypeOK'
  BY <1>1, <1>2, <1>4, <1>6, <1>7, Zenon DEF TypeOK
<1>9. TokensCoverBytes'
  <2>1. (boot' < SemInit => sem' = 0) /\ (boot' < Booted => ctrl' = "none")
    BY <1>1, <1>2, <1>6 DEF TokensCoverBytes
  <2>2. fifo'["uart4"] + fifo'["uart2"]
          <= sem' + extra' + (IF ctrl' \in {"read4", "read2"} THEN 1 ELSE 0)
    BY <1>1, <1>2, <1>5, <1>6 DEF TokensCoverBytes
  <2>3. ctrl' = "read2" => fifo'["uart4"] <= sem' + extra'
    BY <1>1, <1>2, <1>5, <1>6 DEF TokensCoverBytes
  <2> QED BY <2>1, <2>2, <2>3 DEF TokensCoverBytes
<1> QED BY <1>8, <1>9 DEF IInv

\* The steps of uart_ctrl spend a token for a byte, or for nothing when
\* both buffers have been found empty.
LEMMA CtrlIInv ==
    ASSUME IInv, Ctrl
    PROVE  IInv'
<1> USE LineAssumption DEF Uarts, Booted, SemInit
<1>1. TypeOK /\ TokensCoverBytes
  BY DEF IInv
<1>2. /\ fifo \in [Uarts -> 0 .. BufSz - 1]
      /\ fifo["uart4"] \in 0 .. BufSz - 1 /\ fifo["uart2"] \in 0 .. BufSz - 1
      /\ sem \in 0 .. SemMax /\ extra \in 0 .. MaxExtra /\ boot \in 0 .. 6
  BY <1>1 DEF TypeOK
<1>3. ctrl # "none" /\ boot >= 6 /\ UNCHANGED <<boot, extra, failed>>
  BY <1>1, <1>2 DEF Ctrl, TakeToken, ReadUart4, ReadUart2, Read, Handle, TokensCoverBytes
<1>4. failed' \in BOOLEAN
  BY <1>1, <1>3, Zenon DEF TypeOK
<1>5. CASE TakeToken
  <2>1. fifo' = fifo /\ sem' = sem - 1 /\ ctrl = "take" /\ ctrl' = "read4" /\ sem > 0
    BY <1>5 DEF TakeToken
  <2>2. TypeOK'
    BY <1>2, <1>3, <1>4, <2>1 DEF TypeOK
  <2>3. TokensCoverBytes'
    BY <1>1, <1>2, <1>3, <2>1 DEF TokensCoverBytes
  <2> QED BY <2>2, <2>3 DEF IInv
<1>6. CASE ReadUart4
  <2>1. ctrl = "read4" /\ sem' = sem
    BY <1>6 DEF ReadUart4, Read
  <2>2. CASE fifo["uart4"] > 0
    <3>1. /\ fifo' = [fifo EXCEPT !["uart4"] = @ - 1] /\ ctrl' = "handle"
      BY <1>2, <1>6, <2>2 DEF ReadUart4, Read
    <3>2. /\ fifo' \in [Uarts -> 0 .. BufSz - 1]
          /\ fifo'["uart4"] = fifo["uart4"] - 1 /\ fifo'["uart2"] = fifo["uart2"]
      BY <1>2, <2>2, <3>1
    <3>3. TypeOK'
      BY <1>2, <1>3, <1>4, <2>1, <3>1, <3>2 DEF TypeOK
    <3>4. TokensCoverBytes'
      BY <1>1, <1>2, <1>3, <2>1, <3>1, <3>2 DEF TokensCoverBytes
    <3> QED BY <3>3, <3>4 DEF IInv
  <2>3. CASE fifo["uart4"] = 0
    <3>1. fifo' = fifo /\ ctrl' = "read2"
      BY <1>2, <1>6, <2>3 DEF ReadUart4, Read
    <3>2. TypeOK'
      BY <1>2, <1>3, <1>4, <2>1, <3>1 DEF TypeOK
    <3>3. TokensCoverBytes'
      BY <1>1, <1>2, <1>3, <2>1, <2>3, <3>1 DEF TokensCoverBytes
    <3> QED BY <3>2, <3>3 DEF IInv
  <2> QED BY <1>2, <2>2, <2>3
<1>7. CASE ReadUart2
  <2>1. ctrl = "read2" /\ sem' = sem
    BY <1>7 DEF ReadUart2, Read
  <2>2. CASE fifo["uart2"] > 0
    <3>1. /\ fifo' = [fifo EXCEPT !["uart2"] = @ - 1] /\ ctrl' = "handle"
      BY <1>2, <1>7, <2>2 DEF ReadUart2, Read
    <3>2. /\ fifo' \in [Uarts -> 0 .. BufSz - 1]
          /\ fifo'["uart2"] = fifo["uart2"] - 1 /\ fifo'["uart4"] = fifo["uart4"]
      BY <1>2, <2>2, <3>1
    <3>3. TypeOK'
      BY <1>2, <1>3, <1>4, <2>1, <3>1, <3>2 DEF TypeOK
    <3>4. TokensCoverBytes'
      BY <1>1, <1>2, <1>3, <2>1, <3>1, <3>2 DEF TokensCoverBytes
    <3> QED BY <3>3, <3>4 DEF IInv
  <2>3. CASE fifo["uart2"] = 0
    <3>1. fifo' = fifo /\ ctrl' = "take"
      BY <1>2, <1>7, <2>3 DEF ReadUart2, Read
    <3>2. TypeOK'
      BY <1>2, <1>3, <1>4, <2>1, <3>1 DEF TypeOK
    <3>3. TokensCoverBytes'
      BY <1>1, <1>2, <1>3, <2>1, <2>3, <3>1 DEF TokensCoverBytes
    <3> QED BY <3>2, <3>3 DEF IInv
  <2> QED BY <1>2, <2>2, <2>3
<1>8. CASE Handle
  <2>1. fifo' = fifo /\ sem' = sem /\ ctrl = "handle" /\ ctrl' = "take"
    BY <1>8 DEF Handle
  <2>2. TypeOK'
    BY <1>2, <1>3, <1>4, <2>1 DEF TypeOK
  <2>3. TokensCoverBytes'
    BY <1>1, <1>2, <1>3, <2>1 DEF TokensCoverBytes
  <2> QED BY <2>2, <2>3 DEF IInv
<1> QED BY <1>5, <1>6, <1>7, <1>8 DEF Ctrl

\* Every statement of main, interrupt and step of uart_ctrl keeps it.
LEMMA NextIInv == IInv /\ [Next]_vars => IInv'
<1> SUFFICES ASSUME IInv, [Next]_vars PROVE IInv'
  OBVIOUS
<1>1. TypeOK /\ TokensCoverBytes
  BY DEF IInv
<1>2. CASE MainStep
  <2>1. /\ fifo' = fifo /\ extra' = extra /\ failed' = failed
        /\ boot \in 0 .. 5 /\ boot' = boot + 1 /\ ctrl = "none"
        /\ sem' = IF boot' = 5 THEN 0 ELSE sem
        /\ ctrl' = IF boot' = 6 THEN "take" ELSE ctrl
    BY <1>1, <1>2 DEF MainStep, TypeOK, TokensCoverBytes, Booted, SemInit
  <2>2. failed' \in BOOLEAN
    BY <1>1, <2>1, Zenon DEF TypeOK
  <2>3. sem' \in 0 .. SemMax
    BY <1>1, <2>1, LineAssumption DEF TypeOK
  <2>4. TypeOK'
    BY <1>1, <2>1, <2>2, <2>3 DEF TypeOK, Booted
  <2>5. boot' = 5 => sem = 0
    BY <1>1, <2>1 DEF TokensCoverBytes, SemInit
  <2>6. TokensCoverBytes'
    BY <1>1, <2>1, <2>5 DEF TokensCoverBytes, TypeOK, Booted, SemInit
  <2> QED BY <2>4, <2>6 DEF IInv
<1>3. CASE \E u \in Uarts, k \in 1 .. MaxBurst : rt_hw_serial_isr(u, k)
  BY <1>3, IsrIInv
<1>4. CASE Ctrl
  BY <1>4, CtrlIInv
<1>5. CASE UNCHANGED vars
  <2>1. UNCHANGED <<boot, fifo, sem, ctrl, extra, failed>>
    BY <1>5 DEF vars
  <2> QED BY <1>1, <2>1 DEF IInv, TypeOK, TokensCoverBytes
<1> QED BY <1>2, <1>3, <1>4, <1>5 DEF Next

\* Hence it holds throughout every behaviour.
LEMMA IInvAlways == Spec => []IInv
<1> QED BY InitIInv, NextIInv, PTL DEF Spec

----------------------------------------------------------------------------

\* The ring buffers, the semaphore and the threads keep their types.
THEOREM LineTypeCorrect == Spec => []TypeOK
<1>1. IInv => TypeOK
  BY DEF IInv
<1> QED BY <1>1, IInvAlways, PTL

\* uart_ctrl never blocks on g_rx_sem with more bytes left in the two ring
\* buffers than came without a call of uart_rx_cb of their own.
THEOREM NeverStrands == Spec => []NoByteStranded
<1>1. IInv => NoByteStranded
  BY DEF IInv, TypeOK, TokensCoverBytes, NoByteStranded, Blocked, Uarts
<1> QED BY <1>1, IInvAlways, PTL
=============================================================================
