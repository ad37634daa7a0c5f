------------------------------- MODULE Rw007 -------------------------------
(***************************************************************************)
(* The driver of the WiFi module through which results are uploaded,       *)
(* packages/rw007-v2.1.0/src/spi_wifi_rw007.c: packets are put in a        *)
(* mailbox (wlan_send, spi_send_cmd), the thread wifi_xfer exchanges them  *)
(* with the module over SPI in two stages and retries, the thread          *)
(* wifi_handle passes on what came in, and spi_set_data waits for the      *)
(* response to a command, for ten seconds.                                 *)
(*                                                                         *)
(* A packet is its number; all commands are of one type, as each type has  *)
(* an event and a response slot of its own; the power switch stays on.     *)
(* The module itself (Slave...) is external: it takes a packet if it is    *)
(* ready, answers commands in order, forwards frames from the network and  *)
(* raises its interrupt when it likes.                                     *)
(***************************************************************************)
EXTENDS Naturals, Sequences, SequencesExt

CONSTANTS
    TxPool, RxPool,     \* SPI_TX_POOL_SIZE, SPI_RX_POOL_SIZE (4)
    Retries,            \* of an exchange (3)
    MaxPackets,         \* bound on packets sent
    MaxSlave,           \* bound on packets the module has for the board
    MAX_ERRORS,         \* bound on garbled exchanges
    MayTimeout,         \* whether a response may take longer than 10 s
    MayBeBusy           \* whether the module may not be ready (SRDY) for a packet

ASSUME Rw007Assumption ==
    /\ {TxPool, RxPool, Retries, MaxPackets, MaxSlave} \subseteq Nat \ {0}
    /\ MAX_ERRORS \in Nat /\ {MayTimeout, MayBeBusy} \subseteq BOOLEAN

VARIABLES
    made,               \* packets made so far
    tx_mb, txFree,      \* mailbox and pool of packets to send
    cmds,               \* those not yet exchanged that are commands
    rx_mb, rxFree,      \* of packets received; frames are 0, responses their command
    events,             \* spi_wifi_data_event: "int", "data"
    xfer, retry, rx_buffer, send_packet, empty_read, more,  \* wifi_xfer
    client, mine,       \* spi_set_data: where it is, and its packet
    cmd_event, resp,    \* its event, and the stashed response (0: RT_NULL)
    \* The module, and history.
    asked,              \* commands it has to answer
    slaveOut,           \* what it has for the board
    received,           \* packets it took
    dropped,            \* packets freed though the module was not ready for them
    errors,
    result,             \* response the client took
    dangling,           \* resp points to freed memory
    freedTwice, timedOut

pools  == <<tx_mb, txFree, rx_mb, rxFree, cmds>>
thread == <<xfer, retry, rx_buffer, send_packet, empty_read, more>>
caller == <<client, mine, cmd_event, resp, result, dangling, freedTwice, timedOut>>
module == <<asked, slaveOut, received, dropped, errors>>
vars   == <<made, pools, events, thread, caller, module>>

Init ==
    /\ made = 0
    /\ tx_mb = <<>> /\ txFree = TxPool /\ rx_mb = <<>> /\ rxFree = RxPool
    /\ cmds = {}
    /\ events = {}
    /\ xfer = "wait" /\ retry = 0 /\ rx_buffer = FALSE /\ send_packet = 0
    /\ empty_read = TRUE /\ more = FALSE
    /\ client = "idle" /\ mine = 0 /\ cmd_event = FALSE /\ resp = 0
    /\ asked = <<>> /\ slaveOut = <<>> /\ received = <<>> /\ dropped = {} /\ errors = 0
    /\ result = 0 /\ dangling = FALSE /\ freedTwice = FALSE /\ timedOut = FALSE

\* Plausible coding errors: variants of the definitions below, used only to
\* show that the properties of this module notice them.
GivenUp(p)       == 0
StillPointing(p) == p
LeakedBuffer     == rxFree
EventKept        == TRUE

\* send_packet after a transfer: kept if it failed, else freed and cleared.
KeptOnError(p)  == p
ClearedAfter(p) == 0
\* The receive buffer goes back to its pool if the transfer failed.
FreedOnError == IF rx_buffer THEN rxFree + 1 ELSE rxFree
\* RT_EVENT_FLAG_CLEAR
EventCleared == FALSE

----------------------------------------------------------------------------
(* Senders.                                                                *)

\* Allocate a packet, fill it, put it in the mailbox, notify wifi_xfer.
Post ==
    /\ made < MaxPackets /\ made' = made + 1
    /\ txFree > 0 /\ txFree' = txFree - 1
    /\ tx_mb' = Append(tx_mb, made + 1)
    /\ events' = events \cup {"data"}
    /\ UNCHANGED <<rx_mb, rxFree, thread, module>>

wlan_send == Post /\ UNCHANGED <<cmds, caller>>

\* spi_set_data, up to its wait.
spi_send_cmd ==
    /\ client = "idle" /\ Post
    /\ cmds' = cmds \cup {made + 1}
    /\ client' = "wait" /\ mine' = made + 1 /\ result' = 0
    /\ UNCHANGED <<cmd_event, resp, dangling, freedTwice, timedOut>>

\* The rest of spi_set_data; the response is read, freed and cleared in turn.
ResponseEvent ==
    /\ client = "wait" /\ cmd_event
    /\ cmd_event' = EventCleared
    /\ client' = "read"
    /\ UNCHANGED <<made, pools, events, thread, module, mine, resp, result, dangling,
                   freedTwice, timedOut>>
ResponseTimeout ==
    /\ MayTimeout /\ client = "wait" /\ ~cmd_event
    /\ client' = "idle" /\ mine' = 0 /\ timedOut' = TRUE
    /\ UNCHANGED <<made, pools, events, thread, module, cmd_event, resp, result, dangling,
                   freedTwice>>
ReadResponse ==
    /\ client = "read"
    /\ result' = resp
    /\ client' = IF resp = 0 THEN "done" ELSE "free"
    /\ UNCHANGED <<made, pools, events, thread, module, mine, cmd_event, resp, dangling,
                   freedTwice, timedOut>>
FreeResponse ==
    /\ client = "free" /\ client' = "clear"
    /\ dangling' = TRUE
    /\ UNCHANGED <<made, pools, events, thread, module, mine, cmd_event, resp, result,
                   freedTwice, timedOut>>
ClearResponse ==
    /\ client = "clear" /\ client' = "done"
    /\ resp' = 0 /\ dangling' = FALSE
    /\ UNCHANGED <<made, pools, events, thread, module, mine, cmd_event, result, freedTwice,
                   timedOut>>
CallEnds ==
    /\ client = "done" /\ client' = "idle" /\ mine' = 0 /\ result' = 0
    /\ UNCHANGED <<made, pools, events, thread, module, cmd_event, resp, dangling, freedTwice,
                   timedOut>>

----------------------------------------------------------------------------
(* wifi_xfer.                                                              *)

\* One event, or several that coalesced, start one transfer of one packet.
StartTransfer ==
    /\ xfer = "wait" /\ events # {}
    /\ events' = {}
    /\ IF send_packet = 0 /\ tx_mb # <<>>
       THEN send_packet' = Head(tx_mb) /\ tx_mb' = Tail(tx_mb)
       ELSE UNCHANGED <<send_packet, tx_mb>>
    /\ rx_buffer' = (rxFree > 0)
    /\ rxFree' = IF rxFree > 0 THEN rxFree - 1 ELSE rxFree
    /\ retry' = Retries
    /\ xfer' = "stage1"
    /\ UNCHANGED <<made, txFree, rx_mb, cmds, empty_read, more, caller, module>>

\* The answer of a stage is garbled: nothing is exchanged, the transfer is
\* tried again with the same sequence number or given up.
Garbled ==
    /\ xfer \in {"stage1", "stage2"}
    /\ errors < MAX_ERRORS /\ errors' = errors + 1
    /\ retry' = retry - 1
    /\ events' = IF xfer = "stage1" THEN events \ {"int"} ELSE events
    /\ IF retry > 1
       THEN /\ xfer' = "stage1"
            /\ UNCHANGED <<rxFree, rx_buffer, send_packet, empty_read>>
       ELSE /\ xfer' = "wait"
            /\ rxFree' = FreedOnError /\ rx_buffer' = FALSE
            /\ send_packet' = KeptOnError(send_packet)
            /\ empty_read' = TRUE
    /\ UNCHANGED <<made, tx_mb, txFree, rx_mb, cmds, more, caller, asked, slaveOut, received,
                   dropped>>

\* Stage 1, and the wait for the module's interrupt or 100 ticks.
Stage1 ==
    /\ xfer = "stage1" /\ xfer' = "stage2"
    /\ events' = events \ {"int"}
    /\ UNCHANGED <<made, pools, retry, rx_buffer, send_packet, empty_read, more, caller, module>>

\* Stage 2: the module takes the packet if it is ready, and the transfer counts
\* as a success if not; it sends one if it has one and the board has a buffer.
\* An unused buffer is freed.
Stage2(ready) ==
    /\ xfer = "stage2" /\ xfer' = "end"
    /\ IF send_packet # 0 /\ ready
       THEN /\ received' = Append(received, send_packet)
            /\ asked' = IF send_packet \in cmds THEN Append(asked, send_packet) ELSE asked
       ELSE UNCHANGED <<received, asked>>
    /\ cmds' = cmds \ {send_packet}
    /\ dropped' = IF ready THEN dropped ELSE dropped \cup ({send_packet} \ {0})
    /\ IF rx_buffer /\ slaveOut # <<>>
       THEN /\ rx_mb' = Append(rx_mb, Head(slaveOut)) /\ slaveOut' = Tail(slaveOut)
            /\ UNCHANGED rxFree
       ELSE /\ rxFree' = IF rx_buffer THEN rxFree + 1 ELSE rxFree
            /\ UNCHANGED <<rx_mb, slaveOut>>
    /\ rx_buffer' = FALSE
    /\ more' = (slaveOut' # <<>>)
    /\ UNCHANGED <<made, tx_mb, txFree, events, retry, send_packet, empty_read, caller, errors>>

\* The wait for the end of the transfer; the packet is freed, and wifi_xfer
\* notifies itself if the module has more, else once for an empty read.
EndTransfer ==
    /\ xfer = "end" /\ xfer' = "wait"
    /\ txFree' = IF send_packet # 0 THEN txFree + 1 ELSE txFree
    /\ send_packet' = ClearedAfter(send_packet)
    /\ empty_read' = (more \/ ~empty_read)
    /\ events' = IF more \/ empty_read THEN events \cup {"int"} ELSE events \ {"int"}
    /\ more' = FALSE
    /\ UNCHANGED <<made, tx_mb, rx_mb, rxFree, cmds, retry, rx_buffer, caller, module>>

----------------------------------------------------------------------------
(* wifi_handle: a response replaces the one stashed before, which is freed; *)
(* if there is no memory for it (allocated), nobody hears of it.            *)

Process(allocated) ==
    /\ rx_mb # <<>> /\ rx_mb' = Tail(rx_mb)
    /\ rxFree' = rxFree + 1
    /\ IF Head(rx_mb) # 0
       THEN /\ freedTwice' = (freedTwice \/ (resp # 0 /\ dangling))
            /\ resp' = IF allocated THEN Head(rx_mb) ELSE 0
            /\ dangling' = FALSE
            /\ cmd_event' = (cmd_event \/ allocated)
       ELSE UNCHANGED <<freedTwice, resp, dangling, cmd_event>>
    /\ UNCHANGED <<made, tx_mb, txFree, cmds, events, thread, client, mine, result, timedOut,
                   module>>

----------------------------------------------------------------------------
(* The module.                                                             *)

SlaveInt ==
    /\ events' = events \cup {"int"}
    /\ UNCHANGED <<made, pools, thread, caller, module>>
SlaveAnswers ==
    /\ asked # <<>> /\ Len(slaveOut) < MaxSlave
    /\ slaveOut' = Append(slaveOut, Head(asked)) /\ asked' = Tail(asked)
    /\ UNCHANGED <<made, pools, events, thread, caller, received, dropped,
                   errors>>
SlaveFrame ==
    /\ Len(slaveOut) < MaxSlave /\ slaveOut' = Append(slaveOut, 0)
    /\ UNCHANGED <<made, pools, events, thread, caller, asked, received, dropped,
                   errors>>

Transfer ==
    \/ StartTransfer \/ Stage1 \/ EndTransfer
    \/ \E ready \in {TRUE, ~MayBeBusy} : Stage2(ready)

Handle == \E allocated \in BOOLEAN : Process(allocated)

Client == ResponseEvent \/ ReadResponse \/ FreeResponse \/ ClearResponse \/ CallEnds

Next ==
    \/ wlan_send \/ spi_send_cmd \/ Client \/ ResponseTimeout
    \/ Transfer \/ Garbled \/ Handle
    \/ SlaveInt \/ SlaveAnswers \/ SlaveFrame

Spec == Init /\ [][Next]_vars

\* The two threads of the driver get the processor.
FairSpec == Spec /\ WF_vars(Transfer) /\ WF_vars(Handle)

----------------------------------------------------------------------------
(* Properties.                                                             *)

\* Types; the pools never hold more buffers than they were made with.
TypeOK ==
    /\ made \in 0 .. MaxPackets
    /\ tx_mb \in Seq(1 .. MaxPackets) /\ rx_mb \in Seq(0 .. MaxPackets)
    /\ cmds \subseteq 1 .. MaxPackets
    /\ txFree \in 0 .. TxPool /\ rxFree \in 0 .. RxPool
    /\ events \subseteq {"int", "data"}
    /\ xfer \in {"wait", "stage1", "stage2", "end"} /\ retry \in 0 .. Retries
    /\ rx_buffer \in BOOLEAN /\ send_packet \in 0 .. MaxPackets
    /\ empty_read \in BOOLEAN /\ more \in BOOLEAN
    /\ client \in {"idle", "wait", "read", "free", "clear", "done"}
    /\ mine \in 0 .. MaxPackets /\ resp \in 0 .. MaxPackets

\* The module takes the packets in the order they were sent, none twice and
\* none left out, however many exchanges were garbled and repeated and also
\* when all retries of a transfer failed; the one exception is a module that
\* is not ready in stage 2, for which the packet is freed unsent.
SentOnceInOrder ==
    /\ \A a, b \in 1 .. Len(received) : a < b => received[a] < received[b]
    /\ 1 .. made = ToSet(received) \cup dropped \cup ToSet(tx_mb) \cup ({send_packet} \ {0})

\* No buffer is leaked or freed twice on any path through a transfer.
PoolsConserved ==
    /\ txFree + Len(tx_mb) + (IF send_packet = 0 THEN 0 ELSE 1) = TxPool
    /\ rxFree + Len(rx_mb) + (IF rx_buffer THEN 1 ELSE 0) = RxPool

\* A command that returns has the response to it, and not the one of an
\* earlier command, and the response the caller frees is not freed by
\* wifi_handle as well, unless some command had timed out: a late response is
\* stashed and taken for that of the next command.
OwnResponse ==
    ~timedOut =>
        /\ client \in {"free", "clear", "done"} => result = mine
        /\ ~freedTwice

\* Every packet gets to the module, or meets it when it is not ready, provided
\* that it keeps raising its interrupt.  (Notifications coalesce and wifi_xfer
\* sends one packet for each, so that nothing but the next interrupt or packet
\* moves the rest.)
EveryPacketSent ==
    []<><<SlaveInt>>_events =>
        \A k \in 1 .. MaxPackets : made >= k ~> k \in ToSet(received) \cup dropped
=============================================================================
