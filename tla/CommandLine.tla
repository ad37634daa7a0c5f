---------------------------- MODULE CommandLine ----------------------------
(***************************************************************************)
(* How a command byte of the camera (uart4) or the LCD (uart2) reaches     *)
(* uart_ctrl: the receive interrupt of RT-Thread's serial driver puts it   *)
(* in the device's ring buffer and calls uart_rx_cb, which releases one    *)
(* semaphore token; uart_ctrl takes a token and reads one byte, from uart4 *)
(* if it has one, else from uart2.  main opens the devices, installs the   *)
(* callbacks and only then initialises the semaphore.                      *)
(*                                                                         *)
(* The interrupt drains the UART before its one call of uart_rx_cb, so a   *)
(* byte that arrives while it runs brings no token of its own, nor does    *)
(* one that arrives before the callback is installed.  extra counts such   *)
(* bytes.  Only how many bytes wait matters here, not which.               *)
(***************************************************************************)
EXTENDS Integers

CONSTANTS
    BufSz,          \* RT_SERIAL_RB_BUFSZ (64)
    SemMax,         \* RT_SEM_VALUE_MAX (65535)
    MaxBurst,       \* bytes one interrupt may find
    MaxExtra,       \* bound on bytes without a token of their own
    QuietStart      \* no byte arrives while a callback has no semaphore yet

\* The semaphore can count every byte the two ring buffers can hold.
ASSUME LineAssumption ==
    /\ BufSz \in Nat /\ BufSz > 1
    /\ SemMax \in Nat /\ SemMax >= 2 * (BufSz - 1)
    /\ MaxBurst \in Nat \ {0}
    /\ MaxExtra \in Nat
    /\ QuietStart \in BOOLEAN

Uarts == {"uart4", "uart2"}

VARIABLES
    boot,           \* statements of main executed, 0 .. Booted
    fifo,           \* bytes in each device's ring buffer
    sem,            \* value of g_rx_sem
    ctrl,           \* uart_ctrl: "none", "take", "read4", "read2", "handle"
    extra,          \* history: bytes that came without a token
    failed          \* an RT_ASSERT failed: the board hangs

vars == <<boot, fifo, sem, ctrl, extra, failed>>

(* The statements of main in their order.                                  *)
Open4     == 1
Open2     == 2
Indicate4 == 3
Indicate2 == 4
SemInit   == 5
Booted    == 6

Opened(u)    == boot >= IF u = "uart4" THEN Open4 ELSE Open2
Indicated(u) == boot >= IF u = "uart4" THEN Indicate4 ELSE Indicate2

Init ==
    /\ boot = 0
    /\ fifo = [u \in Uarts |-> 0]
    /\ sem = 0
    /\ ctrl = "none"
    /\ extra = 0
    /\ failed = FALSE

\* The next statement of main; the last one starts uart_ctrl.
MainStep ==
    /\ ~failed
    /\ boot < Booted
    /\ boot' = boot + 1
    /\ sem' = IF boot' = SemInit THEN 0 ELSE sem
    /\ ctrl' = IF boot' = Booted THEN "take" ELSE ctrl
    /\ UNCHANGED <<fifo, extra, failed>>

----------------------------------------------------------------------------
(* The receive interrupt.                                                  *)

\* Plausible coding errors: variants of the definitions below, used only to
\* show that the properties of this module notice them.
NoDiscard(n, k) == n + k

\* The ring buffer keeps BufSz - 1 bytes and discards the oldest ones.
AfterPut(n, k) == IF n + k > BufSz - 1 THEN BufSz - 1 ELSE n + k

\* rt_sem_release: the value saturates.
rt_sem_release(value) == IF value < SemMax THEN value + 1 ELSE value

\* uart_rx_cb runs and the semaphore is, or is not, initialised.
Released(u) == Indicated(u) /\ boot >= SemInit
Unready(u)  == Indicated(u) /\ boot < SemInit

\* rt_hw_serial_isr finds k bytes and calls uart_rx_cb once, if installed.
rt_hw_serial_isr(u, k) ==
    /\ ~failed
    /\ Opened(u)
    /\ QuietStart => ~Unready(u)
    /\ fifo' = [fifo EXCEPT ![u] = AfterPut(@, k)]
    /\ sem' = IF Released(u) THEN rt_sem_release(sem) ELSE sem
    /\ failed' = Unready(u)
    /\ extra' = extra + k - (IF Released(u) THEN 1 ELSE 0)
    /\ extra' <= MaxExtra
    /\ UNCHANGED <<boot, ctrl>>

----------------------------------------------------------------------------
(* uart_ctrl.                                                              *)

TakeToken ==
    /\ ~failed
    /\ ctrl = "take" /\ sem > 0
    /\ sem' = sem - 1
    /\ ctrl' = "read4"
    /\ UNCHANGED <<boot, fifo, extra, failed>>

\* _serial_int_rx of one byte: it returns 0 when the buffer is empty.
Read(u, at, otherwise) ==
    /\ ~failed
    /\ ctrl = at
    /\ \/ fifo[u] > 0 /\ fifo' = [fifo EXCEPT ![u] = @ - 1] /\ ctrl' = "handle"
       \/ fifo[u] = 0 /\ ctrl' = otherwise /\ UNCHANGED fifo
    /\ UNCHANGED <<boot, sem, extra, failed>>

OnlyRead4 == Read("uart4", "read4", "take")

ReadUart4 == Read("uart4", "read4", "read2")
ReadUart2 == Read("uart2", "read2", "take")

\* The command is handled (MotorControl, InspectionRound).
Handle ==
    /\ ~failed
    /\ ctrl = "handle"
    /\ ctrl' = "take"
    /\ UNCHANGED <<boot, fifo, sem, extra, failed>>

Ctrl == TakeToken \/ ReadUart4 \/ ReadUart2 \/ Handle

Next ==
    \/ MainStep
    \/ \E u \in Uarts, k \in 1 .. MaxBurst : rt_hw_serial_isr(u, k)
    \/ Ctrl

Spec == Init /\ [][Next]_vars

----------------------------------------------------------------------------
(* Properties.                                                             *)

\* A ring buffer never holds more than BufSz - 1 bytes and the semaphore
\* never leaves its range, however fast bytes arrive.
TypeOK ==
    /\ boot \in 0 .. Booted
    /\ fifo \in [Uarts -> 0 .. BufSz - 1]
    /\ sem \in 0 .. SemMax
    /\ ctrl \in {"none", "take", "read4", "read2", "handle"}
    /\ extra \in 0 .. MaxExtra
    /\ failed \in BOOLEAN

Blocked == ctrl = "take" /\ sem = 0

\* When uart_ctrl blocks on the semaphore it leaves no byte behind in either
\* ring buffer, except as many as came without a token of their own: not
\* after an overflow of a buffer, not when a byte arrives between the two
\* reads, not when the semaphore saturates.
NoByteStranded == Blocked => fifo["uart4"] + fifo["uart2"] <= extra

\* The tokens and the bytes that have none cover the bytes that wait, and,
\* between the two reads, those of uart4 without the token in hand.
TokensCoverBytes ==
    /\ boot < SemInit => sem = 0
    /\ boot < Booted => ctrl = "none"
    /\ fifo["uart4"] + fifo["uart2"]
         <= sem + extra + (IF ctrl \in {"read4", "read2"} THEN 1 ELSE 0)
    /\ ctrl = "read2" => fifo["uart4"] <= sem + extra

\* "RT_ASSERT(rt_object_get_type(&sem->parent.parent) ==
\* RT_Object_Class_Semaphore)" in rt_sem_release: uart_rx_cb never releases a
\* semaphore that main has not initialised.
ReleasesInitialisedSemaphore == ~failed
=============================================================================
