---------------------------- MODULE Rw007Proofs ----------------------------
(***************************************************************************)
(* Proofs about the WiFi driver, for every size of its pools, number of    *)
(* retries, packets, frames of the module and garbled exchanges.           *)
(***************************************************************************)
EXTENDS Rw007, SequenceTheorems, TLAPS

Clients == {"idle", "wait", "read", "free", "clear", "done"}

\* No response in s; at most one, which answers m.
Clean(s)  == \A k \in 1 .. Len(s) : s[k] = 0
Own(s, m) == \A j \in 1 .. Len(s) :
                s[j] # 0 => s[j] = m /\ \A k \in 1 .. Len(s) : s[k] # 0 => j = k

----------------------------------------------------------------------------
(* The inductive invariant.                                                *)

\* The types, first of the Boolean variables and then of the others.
Flags ==
    /\ rx_buffer \in BOOLEAN /\ empty_read \in BOOLEAN /\ more \in BOOLEAN
    /\ cmd_event \in BOOLEAN /\ dangling \in BOOLEAN /\ freedTwice \in BOOLEAN
    /\ timedOut \in BOOLEAN
Ranges ==
    /\ made \in 0 .. MaxPackets
    /\ txFree \in Nat /\ rxFree \in Nat
    /\ cmds \subseteq 1 .. MaxPackets
    /\ events \subseteq {"int", "data"}
    /\ xfer \in {"wait", "stage1", "stage2", "end"} /\ retry \in 0 .. Retries
    /\ send_packet \in 0 .. MaxPackets
    /\ client \in Clients
    /\ mine \in 0 .. MaxPackets /\ resp \in 0 .. MaxPackets /\ result \in 0 .. MaxPackets
    /\ dropped \subseteq 1 .. MaxPackets /\ errors \in Nat
Queues ==
    /\ tx_mb \in Seq(1 .. MaxPackets) /\ received \in Seq(1 .. MaxPackets)
    /\ rx_mb \in Seq(0 .. MaxPackets) /\ slaveOut \in Seq(0 .. MaxPackets)
    /\ asked \in Seq(0 .. MaxPackets)

\* A transfer has a retry left until it ends, and a receive buffer only then.
TransferOpen ==
    /\ xfer \in {"stage1", "stage2"} => retry >= 1
    /\ xfer \in {"wait", "end"} => ~rx_buffer

\* The packets are taken from the mailbox, and by the module, in the order of
\* their numbers; the one under way is behind those taken before it.
Ordered ==
    /\ send_packet <= made
    /\ \A a \in 1 .. Len(tx_mb) : send_packet < tx_mb[a] /\ tx_mb[a] <= made
    /\ \A a, b \in 1 .. Len(tx_mb) : a < b => tx_mb[a] < tx_mb[b]
    /\ \A a, b \in 1 .. Len(received) : a < b => received[a] < received[b]
    /\ \A a \in 1 .. Len(received) :
         /\ received[a] <= made
         /\ send_packet = 0 \/ received[a] < send_packet
            \/ (xfer = "end" /\ received[a] <= send_packet)
         /\ \A b \in 1 .. Len(tx_mb) : received[a] < tx_mb[b]
Accounted ==
    /\ 1 .. made = ToSet(received) \cup dropped \cup ToSet(tx_mb) \cup ({send_packet} \ {0})
    /\ xfer = "end" /\ send_packet # 0 => send_packet \in ToSet(received) \cup dropped

\* Until a command times out, the only command or response under way is the
\* one spi_set_data waits for, and it is in one place.
Nowhere    == cmds = {} /\ Clean(asked) /\ Clean(slaveOut) /\ Clean(rx_mb) /\ ~cmd_event
ToBeSent   == cmds = {mine} /\ Clean(asked) /\ Clean(slaveOut) /\ Clean(rx_mb) /\ ~cmd_event
ToBeAnswered == cmds = {} /\ Own(asked, mine) /\ Clean(slaveOut) /\ Clean(rx_mb) /\ ~cmd_event
Answered   == cmds = {} /\ Clean(asked) /\ Own(slaveOut, mine) /\ Clean(rx_mb) /\ ~cmd_event
ToBeHandled == cmds = {} /\ Clean(asked) /\ Clean(slaveOut) /\ Own(rx_mb, mine) /\ ~cmd_event
Announced  == cmds = {} /\ Clean(asked) /\ Clean(slaveOut) /\ Clean(rx_mb) /\ resp = mine
OneUnderWay ==
    ~timedOut =>
        \/ Nowhere
        \/ /\ client = "wait"
           /\ ToBeSent \/ ToBeAnswered \/ Answered \/ ToBeHandled \/ Announced
ResponseIsMine ==
    ~timedOut =>
        /\ client # "idle" => mine # 0
        /\ client \in {"read", "free", "clear"} => resp = mine
        /\ client \in {"free", "clear", "done"} => result = mine
        /\ dangling => client = "clear"
        /\ ~freedTwice

IInv ==
    /\ Flags /\ Ranges /\ Queues /\ PoolsConserved /\ TransferOpen /\ Ordered /\ Accounted
    /\ OneUnderWay /\ ResponseIsMine

----------------------------------------------------------------------------
(* The mailboxes and the module's queues.                                  *)

\* Putting a packet in a queue, and taking the first one out.
LEMMA Appended ==
    ASSUME NEW S, NEW s \in Seq(S), NEW e \in S
    PROVE  /\ Append(s, e) \in Seq(S) /\ Len(Append(s, e)) = Len(s) + 1 /\ Len(s) \in Nat
           /\ \A k \in 1 .. Len(s) : Append(s, e)[k] = s[k]
           /\ Append(s, e)[Len(s) + 1] = e
           /\ ToSet(Append(s, e)) = ToSet(s) \cup {e}
<1>1. /\ Append(s, e) \in Seq(S) /\ Len(Append(s, e)) = Len(s) + 1 /\ Len(s) \in Nat
      /\ \A k \in 1 .. Len(s) : Append(s, e)[k] = s[k]
      /\ Append(s, e)[Len(s) + 1] = e
  BY AppendProperties, LenProperties
<1>2. DOMAIN s = 1 .. Len(s) /\ DOMAIN Append(s, e) = 1 .. Len(s) + 1
  BY <1>1, LenProperties
<1>3. DOMAIN Append(s, e) = DOMAIN s \cup {Len(s) + 1}
  BY <1>1, <1>2
<1>4. ToSet(Append(s, e)) = ToSet(s) \cup {e}
  BY <1>1, <1>2, <1>3 DEF ToSet
<1> QED BY <1>1, <1>4

\* Taking the first packet out of a queue.
LEMMA Taken ==
    ASSUME NEW S, NEW s \in Seq(S), s # <<>>
    PROVE  /\ Head(s) \in S /\ Tail(s) \in Seq(S) /\ Len(s) \in Nat \ {0}
           /\ Len(Tail(s)) = Len(s) - 1 /\ Head(s) = s[1]
           /\ \A k \in 1 .. Len(Tail(s)) : Tail(s)[k] = s[k + 1]
           /\ ToSet(s) = {Head(s)} \cup ToSet(Tail(s))
<1>1. /\ Head(s) \in S /\ Tail(s) \in Seq(S) /\ Len(s) \in Nat \ {0}
      /\ Len(Tail(s)) = Len(s) - 1 /\ Head(s) = s[1]
      /\ \A k \in 1 .. Len(Tail(s)) : Tail(s)[k] = s[k + 1]
  BY HeadTailProperties, EmptySeq
<1>2. DOMAIN s = 1 .. Len(s) /\ DOMAIN Tail(s) = 1 .. Len(Tail(s))
  BY <1>1, LenProperties
<1>3. ToSet(s) \subseteq {Head(s)} \cup ToSet(Tail(s))
  <2> SUFFICES ASSUME NEW k \in 1 .. Len(s)
               PROVE  s[k] \in {Head(s)} \cup ToSet(Tail(s))
    BY <1>2 DEF ToSet
  <2>1. CASE k = 1
    BY <1>1, <2>1
  <2>2. CASE k # 1
    <3>1. k - 1 \in 1 .. Len(Tail(s)) /\ Tail(s)[k - 1] = s[k]
      BY <1>1, <2>2
    <3> QED BY <1>2, <3>1 DEF ToSet
  <2> QED BY <2>1, <2>2
<1>4. {Head(s)} \cup ToSet(Tail(s)) \subseteq ToSet(s)
  <2>1. Head(s) \in ToSet(s)
    BY <1>1, <1>2 DEF ToSet
  <2>2. ASSUME NEW k \in 1 .. Len(Tail(s))
        PROVE  Tail(s)[k] \in ToSet(s)
    <3>1. k + 1 \in 1 .. Len(s) /\ Tail(s)[k] = s[k + 1]
      BY <1>1
    <3> QED BY <1>2, <3>1 DEF ToSet
  <2> QED BY <1>2, <2>1, <2>2 DEF ToSet
<1> QED BY <1>1, <1>3, <1>4

\* The packets in a queue have the numbers of packets.
LEMMA Numbers ==
    ASSUME NEW n \in Nat, NEW s \in Seq(n .. MaxPackets)
    PROVE  \A k \in 1 .. Len(s) : s[k] \in n .. MaxPackets
<1> DEFINE S == n .. MaxPackets
<1> HIDE DEF S
<1>1. ASSUME NEW t \in Seq(S) PROVE \A k \in 1 .. Len(t) : t[k] \in S
  BY ElementOfSeq
<1> QED BY <1>1 DEF S

\* Responses in a queue.
LEMMA CleanIsOwn ==
    ASSUME NEW s, NEW m, Clean(s)
    PROVE  Own(s, m)
BY DEF Clean, Own

\* A frame behind responses changes nothing about them.
LEMMA FrameQueued ==
    ASSUME NEW s \in Seq(0 .. MaxPackets), NEW m
    PROVE  /\ Clean(s) => Clean(Append(s, 0))
           /\ Own(s, m) => Own(Append(s, 0), m)
<1> USE Rw007Assumption
<1>1. 0 \in 0 .. MaxPackets
  OBVIOUS
<1>2. Clean(s) => Clean(Append(s, 0))
  BY <1>1, Appended DEF Clean
<1>3. Own(s, m) => Own(Append(s, 0), m)
  BY <1>1, Appended DEF Own
<1> QED BY <1>2, <1>3

\* A response behind frames only is the only one.
LEMMA ResponseQueued ==
    ASSUME NEW s \in Seq(0 .. MaxPackets), NEW m \in 0 .. MaxPackets, Clean(s)
    PROVE  Own(Append(s, m), m)
BY Appended, Rw007Assumption DEF Clean, Own

\* What is known of the responses in a queue when its first packet is taken.
LEMMA Dequeued ==
    ASSUME NEW s \in Seq(0 .. MaxPackets), s # <<>>, NEW m
    PROVE  /\ Clean(s) => Head(s) = 0 /\ Clean(Tail(s))
           /\ Own(s, m) => Own(Tail(s), m)
           /\ Own(s, m) /\ Head(s) # 0 => Head(s) = m /\ Clean(Tail(s))
<1>1. /\ Len(s) \in Nat \ {0} /\ Len(Tail(s)) = Len(s) - 1 /\ Head(s) = s[1]
      /\ \A k \in 1 .. Len(Tail(s)) : Tail(s)[k] = s[k + 1]
  BY Taken
<1>2. Clean(s) => Head(s) = 0 /\ Clean(Tail(s))
  BY <1>1 DEF Clean
<1>3. Own(s, m) => Own(Tail(s), m)
  BY <1>1 DEF Own
<1>4. Own(s, m) /\ Head(s) # 0 => Head(s) = m /\ Clean(Tail(s))
  BY <1>1 DEF Own, Clean
<1> QED BY <1>2, <1>3, <1>4

----------------------------------------------------------------------------
(* Steps.                                                                  *)

\* The driver starts with full pools and empty queues.
LEMMA InitInv == Init => IInv
<1> SUFFICES ASSUME Init PROVE IInv
  OBVIOUS
<1> USE Rw007Assumption DEF Init
<1>0. /\ Len(<<>>) = 0 /\ ToSet(<<>>) = {}
      /\ <<>> \in Seq(0 .. MaxPackets) /\ <<>> \in Seq(1 .. MaxPackets)
  BY EmptySeq DEF ToSet
<1>1. Flags
  BY DEF Flags
<1>2. Ranges
  BY DEF Ranges, Clients
<1>3. Queues
  BY <1>0 DEF Queues
<1>4. PoolsConserved
  BY <1>0 DEF PoolsConserved
<1>5. TransferOpen /\ Ordered
  BY <1>0 DEF TransferOpen, Ordered
<1>6. Accounted
  BY <1>0 DEF Accounted
<1>7. Clean(<<>>)
  BY <1>0 DEF Clean
<1>8. OneUnderWay /\ ResponseIsMine
  BY <1>7 DEF OneUnderWay, Nowhere, ResponseIsMine
<1> QED BY <1>1, <1>2, <1>3, <1>4, <1>5, <1>6, <1>8 DEF IInv

\* The parts about a packet's way to the module do not concern the caller.
LEMMA PostKeeps ==
    ASSUME IInv, Post, cmds' \in {cmds, cmds \cup {made + 1}}
    PROVE  /\ cmds' \subseteq 1 .. MaxPackets /\ made' \in 1 .. MaxPackets /\ Queues'
           /\ PoolsConserved' /\ TransferOpen' /\ Ordered' /\ Accounted'
<1> DEFINE new == made + 1
<1>0. /\ new \in 1 .. MaxPackets /\ made' = new /\ tx_mb' = Append(tx_mb, new)
      /\ made \in Nat /\ send_packet \in Nat /\ tx_mb \in Seq(1 .. MaxPackets)
      /\ received \in Seq(1 .. MaxPackets)
      /\ received' = received /\ send_packet' = send_packet /\ xfer' = xfer
      /\ dropped' = dropped
  BY Rw007Assumption DEF IInv, Ranges, Queues, Post, thread, module
<1>1. new = made + 1
  OBVIOUS
<1> HIDE DEF new
<1>2. /\ tx_mb' \in Seq(1 .. MaxPackets) /\ Len(tx_mb') = Len(tx_mb) + 1 /\ Len(tx_mb) \in Nat
      /\ \A k \in 1 .. Len(tx_mb) : tx_mb'[k] = tx_mb[k]
      /\ tx_mb'[Len(tx_mb) + 1] = new
      /\ ToSet(tx_mb') = ToSet(tx_mb) \cup {new}
  <2> DEFINE S == 1 .. MaxPackets
  <2>1. tx_mb \in Seq(S) /\ new \in S /\ tx_mb' = Append(tx_mb, new)
    BY <1>0
  <2>2. /\ tx_mb' \in Seq(S) /\ Len(tx_mb') = Len(tx_mb) + 1 /\ Len(tx_mb) \in Nat
        /\ \A k \in 1 .. Len(tx_mb) : tx_mb'[k] = tx_mb[k]
        /\ tx_mb'[Len(tx_mb) + 1] = new
        /\ ToSet(tx_mb') = ToSet(tx_mb) \cup {new}
    <3> HIDE DEF S
    <3> QED BY <2>1, Appended
  <2> QED BY <2>2
<1>3. cmds' \subseteq 1 .. MaxPackets
  BY <1>0, <1>1 DEF IInv, Ranges
<1>4. Queues'
  BY <1>2 DEF IInv, Queues, Post, module
<1>5. PoolsConserved' /\ TransferOpen'
  BY <1>2 DEF IInv, PoolsConserved, TransferOpen, Ranges, Post, thread
<1>6. Ordered'
  <2>1. /\ send_packet <= made
        /\ \A a \in 1 .. Len(tx_mb) : send_packet < tx_mb[a] /\ tx_mb[a] <= made
        /\ \A a, b \in 1 .. Len(tx_mb) : a < b => tx_mb[a] < tx_mb[b]
        /\ \A a, b \in 1 .. Len(received) : a < b => received[a] < received[b]
        /\ \A a \in 1 .. Len(received) :
             /\ received[a] <= made
             /\ send_packet = 0 \/ received[a] < send_packet
                \/ (xfer = "end" /\ received[a] <= send_packet)
             /\ \A b \in 1 .. Len(tx_mb) : received[a] < tx_mb[b]
    BY DEF IInv, Ordered
  <2>2. /\ \A a \in 1 .. Len(tx_mb) : tx_mb[a] \in 1 .. MaxPackets
        /\ \A a \in 1 .. Len(received) : received[a] \in 1 .. MaxPackets
    BY <1>0, Numbers
  <2>3. \A a \in 1 .. Len(tx_mb') : a \in 1 .. Len(tx_mb) \/ tx_mb'[a] = new
    BY <1>2
  <2>4. \A a \in 1 .. Len(tx_mb') : send_packet < tx_mb'[a] /\ tx_mb'[a] <= new
    BY <1>0, <1>1, <1>2, <2>1, <2>2, <2>3
  <2>5. \A a, b \in 1 .. Len(tx_mb') : a < b => tx_mb'[a] < tx_mb'[b]
    BY <1>0, <1>1, <1>2, <2>1, <2>2, <2>3
  <2>6. \A a \in 1 .. Len(received) : received[a] <= new
                                      /\ \A b \in 1 .. Len(tx_mb') : received[a] < tx_mb'[b]
    BY <1>0, <1>1, <1>2, <2>1, <2>2, <2>3
  <2> QED BY <1>0, <1>1, <2>1, <2>4, <2>5, <2>6 DEF Ordered
<1>7. 1 .. made' = (1 .. made) \cup {new}
  BY <1>0, <1>1
<1>8. Accounted'
  BY <1>0, <1>2, <1>7 DEF IInv, Accounted
<1> QED BY <1>0, <1>3, <1>4, <1>5, <1>6, <1>8

\* A frame is put in the mailbox.
LEMMA WlanSendInv == IInv /\ wlan_send => IInv'
<1> SUFFICES ASSUME IInv, wlan_send PROVE IInv'
  OBVIOUS
<1> USE DEF wlan_send
<1>1. /\ cmds' \subseteq 1 .. MaxPackets /\ made' \in 1 .. MaxPackets /\ Queues'
      /\ PoolsConserved' /\ TransferOpen' /\ Ordered' /\ Accounted'
  BY PostKeeps
<1>2. Flags'
  BY DEF IInv, Flags, Post, thread, caller
<1>3. Ranges'
  BY <1>1, Rw007Assumption DEF IInv, Ranges, Post, thread, caller, module
<1>4. OneUnderWay' /\ ResponseIsMine'
  BY DEF IInv, OneUnderWay, ResponseIsMine, Nowhere, ToBeSent, ToBeAnswered, Answered,
         ToBeHandled, Announced, Post, caller, module
<1> QED BY <1>1, <1>2, <1>3, <1>4 DEF IInv

\* A command is put in the mailbox and its response waited for.
LEMMA SpiSendCmdInv == IInv /\ spi_send_cmd => IInv'
<1> SUFFICES ASSUME IInv, spi_send_cmd PROVE IInv'
  OBVIOUS
<1> USE DEF spi_send_cmd
<1>1. /\ cmds' \subseteq 1 .. MaxPackets /\ made' \in 1 .. MaxPackets /\ Queues'
      /\ PoolsConserved' /\ TransferOpen' /\ Ordered' /\ Accounted'
  BY PostKeeps
<1>2. Flags'
  BY DEF IInv, Flags, Post, thread
<1>3. Ranges'
  BY <1>1, Rw007Assumption DEF IInv, Ranges, Clients, Post, thread, module
<1>4. made + 1 # 0
  BY DEF IInv, Ranges
<1>5. OneUnderWay'
  BY DEF IInv, OneUnderWay, Nowhere, ToBeSent, Post, module
<1>6. ResponseIsMine'
  BY <1>4 DEF IInv, ResponseIsMine
<1> QED BY <1>1, <1>2, <1>3, <1>5, <1>6 DEF IInv

\* What is left of a state when only spi_set_data moves.
LEMMA CallerKeeps ==
    ASSUME IInv, UNCHANGED <<made, pools, events, thread, module>>
    PROVE  /\ Queues' /\ PoolsConserved' /\ TransferOpen' /\ Ordered' /\ Accounted'
           /\ made' = made /\ txFree' = txFree /\ rxFree' = rxFree /\ cmds' = cmds
           /\ events' = events /\ xfer' = xfer /\ retry' = retry
           /\ rx_buffer' = rx_buffer /\ empty_read' = empty_read /\ more' = more
           /\ send_packet' = send_packet /\ dropped' = dropped /\ errors' = errors
           /\ asked' = asked /\ slaveOut' = slaveOut /\ rx_mb' = rx_mb
<1> USE DEF pools, thread, module
<1>1. Queues'
  BY DEF IInv, Queues
<1>2. PoolsConserved' /\ TransferOpen'
  BY DEF IInv, PoolsConserved, TransferOpen
<1>3. Ordered' /\ Accounted'
  BY DEF IInv, Ordered, Accounted
<1> QED BY <1>1, <1>2, <1>3

\* The waiting thread takes its response or times out.
LEMMA CallerInv ==
    ASSUME IInv, Client \/ ResponseTimeout
    PROVE  IInv'
<1> USE DEF EventCleared
<1>0. UNCHANGED <<made, pools, events, thread, module>>
  BY DEF Client, ResponseTimeout, ResponseEvent, ReadResponse, FreeResponse, ClearResponse,
         CallEnds
<1>1. /\ Queues' /\ PoolsConserved' /\ TransferOpen' /\ Ordered' /\ Accounted'
      /\ made' = made /\ txFree' = txFree /\ rxFree' = rxFree /\ cmds' = cmds
      /\ events' = events /\ xfer' = xfer /\ retry' = retry
      /\ rx_buffer' = rx_buffer /\ empty_read' = empty_read /\ more' = more
      /\ send_packet' = send_packet /\ dropped' = dropped /\ errors' = errors
      /\ asked' = asked /\ slaveOut' = slaveOut /\ rx_mb' = rx_mb
  BY <1>0, CallerKeeps
<1>2. Flags'
  BY <1>1 DEF IInv, Flags, Client, ResponseTimeout, ResponseEvent, ReadResponse, FreeResponse,
              ClearResponse, CallEnds
<1>3. Ranges'
  BY <1>1, Rw007Assumption
     DEF IInv, Ranges, Clients, Client, ResponseTimeout, ResponseEvent, ReadResponse,
         FreeResponse, ClearResponse, CallEnds
<1> USE DEF IInv, OneUnderWay, ResponseIsMine, Nowhere
<1>4. CASE ResponseEvent
  <2>1. ~timedOut => client = "wait" /\ Announced
    BY <1>4 DEF ResponseEvent, ToBeSent, ToBeAnswered, Answered, ToBeHandled
  <2>2. OneUnderWay'
    BY <1>1, <1>4, <2>1 DEF ResponseEvent, Announced
  <2>3. ResponseIsMine'
    BY <1>4, <2>1 DEF ResponseEvent, Announced
  <2> QED BY <1>1, <1>2, <1>3, <2>2, <2>3
<1>5. CASE ResponseTimeout
  <2>1. OneUnderWay' /\ ResponseIsMine'
    BY <1>5 DEF ResponseTimeout
  <2> QED BY <1>1, <1>2, <1>3, <2>1
<1>6. CASE ReadResponse
  <2>1. OneUnderWay' /\ ResponseIsMine'
    BY <1>1, <1>6 DEF ReadResponse
  <2> QED BY <1>1, <1>2, <1>3, <2>1
<1>7. CASE FreeResponse
  <2>1. OneUnderWay' /\ ResponseIsMine'
    BY <1>1, <1>7 DEF FreeResponse
  <2> QED BY <1>1, <1>2, <1>3, <2>1
<1>8. CASE ClearResponse
  <2>1. OneUnderWay' /\ ResponseIsMine'
    BY <1>1, <1>8 DEF ClearResponse
  <2> QED BY <1>1, <1>2, <1>3, <2>1
<1>9. CASE CallEnds
  <2>1. OneUnderWay' /\ ResponseIsMine'
    BY <1>1, <1>9 DEF CallEnds
  <2> QED BY <1>1, <1>2, <1>3, <2>1
<1> QED BY <1>4, <1>5, <1>6, <1>7, <1>8, <1>9 DEF Client

\* The first packet of the mailbox, if there is none under way, goes under way.
LEMMA PacketTaken ==
    ASSUME IInv, StartTransfer
    PROVE  Queues' /\ Ordered' /\ Accounted' /\ Len(tx_mb') \in Nat
           /\ send_packet' \in 0 .. MaxPackets
           /\ Len(tx_mb') + (IF send_packet' = 0 THEN 0 ELSE 1)
              = Len(tx_mb) + (IF send_packet = 0 THEN 0 ELSE 1)
<1>0. /\ xfer = "wait" /\ xfer' = "stage1" /\ received' = received /\ dropped' = dropped
      /\ made' = made
      /\ made \in Nat /\ send_packet \in 0 .. MaxPackets /\ tx_mb \in Seq(1 .. MaxPackets)
      /\ received \in Seq(1 .. MaxPackets) /\ Len(tx_mb) \in Nat
  BY Rw007Assumption, LenProperties DEF IInv, Ranges, Queues, StartTransfer, module
<1>1. /\ send_packet <= made
      /\ \A a \in 1 .. Len(tx_mb) : send_packet < tx_mb[a] /\ tx_mb[a] <= made
      /\ \A a, b \in 1 .. Len(tx_mb) : a < b => tx_mb[a] < tx_mb[b]
      /\ \A a, b \in 1 .. Len(received) : a < b => received[a] < received[b]
      /\ \A a \in 1 .. Len(received) :
           /\ received[a] <= made
           /\ send_packet = 0 \/ received[a] < send_packet
           /\ \A b \in 1 .. Len(tx_mb) : received[a] < tx_mb[b]
  BY <1>0 DEF IInv, Ordered
<1>2. CASE send_packet = 0 /\ tx_mb # <<>>
  <2>1. send_packet' = Head(tx_mb) /\ tx_mb' = Tail(tx_mb)
    BY <1>2 DEF StartTransfer
  <2>2. /\ Head(tx_mb) \in 1 .. MaxPackets /\ Tail(tx_mb) \in Seq(1 .. MaxPackets)
        /\ Len(tx_mb) \in Nat \ {0} /\ Len(Tail(tx_mb)) = Len(tx_mb) - 1
        /\ Head(tx_mb) = tx_mb[1]
        /\ \A k \in 1 .. Len(Tail(tx_mb)) : Tail(tx_mb)[k] = tx_mb[k + 1]
        /\ ToSet(tx_mb) = {Head(tx_mb)} \cup ToSet(Tail(tx_mb))
    BY <1>0, <1>2, Taken
  <2>3. Queues'
    BY <2>1, <2>2 DEF IInv, Queues, StartTransfer, module
  <2>4. \A a \in 1 .. Len(tx_mb') : a + 1 \in 1 .. Len(tx_mb) /\ tx_mb'[a] = tx_mb[a + 1]
    BY <2>1, <2>2
  <2>5. Ordered'
    <3>1. send_packet' = tx_mb[1] /\ 1 \in 1 .. Len(tx_mb)
      BY <2>1, <2>2
    <3>2. \A a \in 1 .. Len(tx_mb') : send_packet' < tx_mb'[a] /\ tx_mb'[a] <= made
      BY <1>1, <2>4, <3>1
    <3>3. \A a, b \in 1 .. Len(tx_mb') : a < b => tx_mb'[a] < tx_mb'[b]
      BY <1>1, <2>4
    <3>4. \A a \in 1 .. Len(received) : received[a] < send_packet'
                                        /\ \A b \in 1 .. Len(tx_mb') : received[a] < tx_mb'[b]
      BY <1>1, <2>4, <3>1
    <3>5. send_packet' <= made
      BY <1>1, <3>1
    <3> QED BY <1>0, <1>1, <3>2, <3>3, <3>4, <3>5 DEF Ordered
  <2>6. Accounted'
    <3>1. {send_packet'} \ {0} = {Head(tx_mb)} /\ {send_packet} \ {0} = {}
      BY <1>2, <2>1, <2>2
    <3>2. 1 .. made = ToSet(received) \cup dropped \cup ToSet(tx_mb) \cup ({send_packet} \ {0})
      BY DEF IInv, Accounted
    <3>3. ToSet(tx_mb') \cup ({send_packet'} \ {0}) = ToSet(tx_mb)
      BY <2>1, <2>2, <3>1
    <3>4. 1 .. made = ToSet(received) \cup dropped \cup ToSet(tx_mb')
                      \cup ({send_packet'} \ {0})
      BY ONLY <3>1, <3>2, <3>3
    <3>5. xfer' # "end" /\ made' = made /\ received' = received /\ dropped' = dropped
      BY <1>0
    <3> QED BY <3>4, <3>5 DEF Accounted
  <2>7. /\ Len(tx_mb') \in Nat /\ Len(tx_mb') = Len(tx_mb) - 1 /\ Len(tx_mb) \in Nat
        /\ send_packet' \in 1 .. MaxPackets /\ send_packet' # 0 /\ send_packet = 0
    BY <1>2, <2>1, <2>2
  <2> QED BY ONLY <2>3, <2>5, <2>6, <2>7
<1>3. CASE ~(send_packet = 0 /\ tx_mb # <<>>)
  <2>1. UNCHANGED <<send_packet, tx_mb>>
    BY <1>3 DEF StartTransfer
  <2>2. Queues'
    BY <2>1 DEF IInv, Queues, StartTransfer, module
  <2>3. Ordered' /\ Accounted'
    BY <1>0, <1>1, <2>1 DEF IInv, Ordered, Accounted
  <2> QED BY <1>0, <2>1, <2>2, <2>3
<1> QED BY <1>2, <1>3

\* wifi_xfer takes the next packet and a receive buffer.
LEMMA StartTransferInv == IInv /\ StartTransfer => IInv'
<1> SUFFICES ASSUME IInv, StartTransfer PROVE IInv'
  OBVIOUS
<1>1. /\ Queues' /\ Ordered' /\ Accounted' /\ Len(tx_mb') \in Nat
      /\ send_packet' \in 0 .. MaxPackets
      /\ Len(tx_mb') + (IF send_packet' = 0 THEN 0 ELSE 1)
         = Len(tx_mb) + (IF send_packet = 0 THEN 0 ELSE 1)
  BY PacketTaken
<1>2. Flags'
  BY DEF IInv, Flags, StartTransfer, caller
<1>3. Ranges'
  BY <1>1, Rw007Assumption DEF IInv, Ranges, StartTransfer, caller, module
<1>4. TransferOpen'
  BY Rw007Assumption DEF IInv, TransferOpen, StartTransfer
<1>5. PoolsConserved'
  <2>1. Len(tx_mb) \in Nat /\ Len(rx_mb) \in Nat
    BY LenProperties DEF IInv, Queues
  <2>2. /\ txFree + Len(tx_mb) + (IF send_packet = 0 THEN 0 ELSE 1) = TxPool
        /\ rxFree + Len(rx_mb) = RxPool
    <3>1. ~rx_buffer
      BY DEF IInv, TransferOpen, StartTransfer
    <3> QED BY <2>1, <3>1 DEF IInv, PoolsConserved, Ranges
  <2>3. txFree' = txFree /\ rx_mb' = rx_mb /\ txFree \in Nat /\ rxFree \in Nat
    BY DEF IInv, Ranges, StartTransfer
  <2>4. txFree' + Len(tx_mb') + (IF send_packet' = 0 THEN 0 ELSE 1) = TxPool
    BY <1>1, <2>1, <2>2, <2>3
  <2>5. rxFree' + Len(rx_mb') + (IF rx_buffer' THEN 1 ELSE 0) = RxPool
    <3>1. CASE rxFree > 0
      <4>1. rx_buffer' /\ rxFree' = rxFree - 1
        BY <3>1 DEF StartTransfer
      <4> QED BY <2>1, <2>2, <2>3, <4>1
    <3>2. CASE ~(rxFree > 0)
      <4>1. ~rx_buffer' /\ rxFree' = rxFree
        BY <3>2 DEF StartTransfer
      <4> QED BY <2>1, <2>2, <2>3, <4>1
    <3> QED BY <3>1, <3>2
  <2> QED BY <2>4, <2>5 DEF PoolsConserved
<1>6. OneUnderWay' /\ ResponseIsMine'
  BY DEF IInv, OneUnderWay, ResponseIsMine, Nowhere, ToBeSent, ToBeAnswered, Answered,
         ToBeHandled, Announced, StartTransfer, caller, module
<1> QED BY <1>1, <1>2, <1>3, <1>4, <1>5, <1>6 DEF IInv

\* Nothing a transfer does before stage 2 succeeds moves a packet or concerns
\* the caller.
LEMMA NothingExchanged ==
    ASSUME IInv, xfer # "end", xfer' # "end",
           UNCHANGED <<made, tx_mb, rx_mb, cmds, send_packet, caller, asked, slaveOut,
                       received, dropped>>
    PROVE  Queues' /\ Ordered' /\ Accounted' /\ OneUnderWay' /\ ResponseIsMine'
<1>1. Queues'
  BY DEF IInv, Queues
<1>2. Ordered' /\ Accounted'
  BY DEF IInv, Ordered, Accounted
<1>3. OneUnderWay' /\ ResponseIsMine'
  BY DEF IInv, OneUnderWay, ResponseIsMine, Nowhere, ToBeSent, ToBeAnswered, Answered,
         ToBeHandled, Announced, caller
<1> QED BY <1>1, <1>2, <1>3

\* An exchange that is garbled is tried again or given up.
LEMMA GarbledInv == IInv /\ Garbled => IInv'
<1> SUFFICES ASSUME IInv, Garbled PROVE IInv'
  OBVIOUS
<1> USE DEF KeptOnError, FreedOnError
<1>1. Queues' /\ Ordered' /\ Accounted' /\ OneUnderWay' /\ ResponseIsMine'
  <2>1. send_packet' = send_packet /\ xfer # "end" /\ xfer' # "end"
    BY DEF Garbled
  <2> QED BY <2>1, NothingExchanged DEF Garbled
<1>2. Flags'
  BY DEF IInv, Flags, Garbled, caller
<1>3. Ranges'
  BY Rw007Assumption DEF IInv, Ranges, TransferOpen, Garbled, caller
<1>4. TransferOpen'
  BY DEF IInv, TransferOpen, Ranges, Garbled
<1>5. PoolsConserved'
  <2>1. Len(tx_mb) \in Nat /\ Len(rx_mb) \in Nat
    BY LenProperties DEF IInv, Queues
  <2> QED BY <2>1 DEF IInv, PoolsConserved, Ranges, Garbled
<1> QED BY <1>1, <1>2, <1>3, <1>4, <1>5 DEF IInv

\* The first stage tells how much there is to exchange.
LEMMA Stage1Inv == IInv /\ Stage1 => IInv'
<1> SUFFICES ASSUME IInv, Stage1 PROVE IInv'
  OBVIOUS
<1>1. Queues' /\ Ordered' /\ Accounted' /\ OneUnderWay' /\ ResponseIsMine'
  BY NothingExchanged DEF Stage1, pools, module
<1>2. Flags'
  BY DEF IInv, Flags, Stage1, caller
<1>3. Ranges'
  BY DEF IInv, Ranges, Stage1, caller, pools, module
<1>4. TransferOpen' /\ PoolsConserved'
  BY DEF IInv, TransferOpen, PoolsConserved, Stage1, pools
<1> QED BY <1>1, <1>2, <1>3, <1>4 DEF IInv

\* wifi_xfer frees the packet it sent or could not send.
LEMMA EndTransferInv == IInv /\ EndTransfer => IInv'
<1> SUFFICES ASSUME IInv, EndTransfer PROVE IInv'
  OBVIOUS
<1> USE DEF ClearedAfter
<1>1. Queues'
  BY DEF IInv, Queues, EndTransfer, module
<1>2. Flags'
  BY DEF IInv, Flags, EndTransfer, caller
<1>3. Ranges'
  BY Rw007Assumption DEF IInv, Ranges, EndTransfer, caller, module
<1>4. TransferOpen'
  BY DEF IInv, TransferOpen, EndTransfer
<1>5. PoolsConserved'
  <2>1. Len(tx_mb) \in Nat /\ Len(rx_mb) \in Nat
    BY LenProperties DEF IInv, Queues
  <2> QED BY <2>1 DEF IInv, PoolsConserved, Ranges, EndTransfer
<1>6. Ordered'
  <2>1. \A a \in 1 .. Len(tx_mb) : tx_mb[a] \in 1 .. MaxPackets
    BY Numbers DEF IInv, Queues
  <2> QED BY <2>1 DEF IInv, Ordered, Ranges, EndTransfer, module
<1>7. Accounted'
  BY DEF IInv, Accounted, EndTransfer, module
<1>8. OneUnderWay' /\ ResponseIsMine'
  BY DEF IInv, OneUnderWay, ResponseIsMine, Nowhere, ToBeSent, ToBeAnswered, Answered,
         ToBeHandled, Announced, EndTransfer, caller, module
<1> QED BY <1>1, <1>2, <1>3, <1>4, <1>5, <1>6, <1>7, <1>8 DEF IInv

\* Of what stage 2 does, what concerns the board's packet.
LEMMA PacketExchanged ==
    ASSUME IInv, NEW ready \in BOOLEAN, Stage2(ready)
    PROVE  /\ received' \in Seq(1 .. MaxPackets) /\ asked' \in Seq(0 .. MaxPackets)
           /\ Ordered' /\ Accounted' /\ dropped' \subseteq 1 .. MaxPackets
<1>0. /\ xfer = "stage2" /\ xfer' = "end" /\ send_packet' = send_packet
      /\ made' = made /\ tx_mb' = tx_mb
      /\ made \in Nat /\ send_packet \in 0 .. MaxPackets /\ tx_mb \in Seq(1 .. MaxPackets)
      /\ received \in Seq(1 .. MaxPackets) /\ asked \in Seq(0 .. MaxPackets)
      /\ dropped \subseteq 1 .. MaxPackets
  BY DEF IInv, Ranges, Queues, Stage2
<1>1. /\ send_packet <= made
      /\ \A a \in 1 .. Len(tx_mb) : send_packet < tx_mb[a] /\ tx_mb[a] <= made
      /\ \A a, b \in 1 .. Len(tx_mb) : a < b => tx_mb[a] < tx_mb[b]
      /\ \A a, b \in 1 .. Len(received) : a < b => received[a] < received[b]
      /\ \A a \in 1 .. Len(received) :
           /\ received[a] <= made
           /\ send_packet = 0 \/ received[a] < send_packet
           /\ \A b \in 1 .. Len(tx_mb) : received[a] < tx_mb[b]
  BY <1>0 DEF IInv, Ordered
<1>2. /\ \A a \in 1 .. Len(tx_mb) : tx_mb[a] \in 1 .. MaxPackets
      /\ \A a \in 1 .. Len(received) : received[a] \in 1 .. MaxPackets
  BY <1>0, Numbers
<1>3. 1 .. made = ToSet(received) \cup dropped \cup ToSet(tx_mb) \cup ({send_packet} \ {0})
  BY DEF IInv, Accounted
<1>4. dropped' \subseteq 1 .. MaxPackets
  BY <1>0 DEF Stage2
<1>5. CASE send_packet # 0 /\ ready
  <2>1. /\ received' = Append(received, send_packet) /\ dropped' = dropped
        /\ asked' \in {asked, Append(asked, send_packet)}
        /\ send_packet \in 1 .. MaxPackets
    BY <1>0, <1>5 DEF Stage2
  <2>2. /\ received' \in Seq(1 .. MaxPackets) /\ Len(received') = Len(received) + 1
        /\ Len(received) \in Nat
        /\ \A k \in 1 .. Len(received) : received'[k] = received[k]
        /\ received'[Len(received) + 1] = send_packet
        /\ ToSet(received') = ToSet(received) \cup {send_packet}
    <3> DEFINE S == 1 .. MaxPackets
    <3>1. received \in Seq(S) /\ send_packet \in S
      BY <1>0, <2>1
    <3>2. /\ received' \in Seq(S) /\ Len(received') = Len(received) + 1
          /\ Len(received) \in Nat
          /\ \A k \in 1 .. Len(received) : received'[k] = received[k]
          /\ received'[Len(received) + 1] = send_packet
          /\ ToSet(received') = ToSet(received) \cup {send_packet}
      <4> HIDE DEF S
      <4> QED BY <2>1, <3>1, Appended
    <3> QED BY <3>2
  <2>3. asked' \in Seq(0 .. MaxPackets)
    <3>1. asked \in Seq(0 .. MaxPackets) /\ send_packet \in 0 .. MaxPackets
      BY <1>0
    <3>2. Append(asked, send_packet) \in Seq(0 .. MaxPackets)
      BY <3>1, AppendProperties
    <3> QED BY <2>1, <3>1, <3>2
  <2>4. \A a \in 1 .. Len(received') : a \in 1 .. Len(received) \/ received'[a] = send_packet
    BY <2>2
  <2>5. \A a, b \in 1 .. Len(received') : a < b => received'[a] < received'[b]
    <3> SUFFICES ASSUME NEW a \in 1 .. Len(received'), NEW b \in 1 .. Len(received'), a < b
                 PROVE  received'[a] < received'[b]
      OBVIOUS
    <3>1. a \in 1 .. Len(received) /\ received'[a] = received[a]
      BY <2>2
    <3>2. CASE b \in 1 .. Len(received)
      BY <1>1, <2>2, <3>1, <3>2
    <3>3. CASE b \notin 1 .. Len(received)
      BY <1>1, <1>5, <2>4, <3>1, <3>3
    <3> QED BY <3>2, <3>3
  <2>6. \A a \in 1 .. Len(received') :
          /\ received'[a] <= made /\ received'[a] <= send_packet
          /\ \A b \in 1 .. Len(tx_mb) : received'[a] < tx_mb[b]
    BY <1>0, <1>1, <1>2, <1>5, <2>2, <2>4
  <2>7. Ordered'
    BY <1>0, <1>1, <2>5, <2>6 DEF Ordered
  <2>8. Accounted'
    <3>1. 1 .. made = ToSet(received') \cup dropped \cup ToSet(tx_mb) \cup ({send_packet} \ {0})
      BY ONLY <1>3, <2>2, <1>5
    <3>2. send_packet \in ToSet(received') \cup dropped
      BY <2>2
    <3> QED BY <1>0, <2>1, <3>1, <3>2 DEF Accounted
  <2> QED BY <1>4, <2>2, <2>3, <2>7, <2>8
<1>6. CASE ~(send_packet # 0 /\ ready)
  <2>1. /\ received' = received /\ asked' = asked
        /\ dropped' = dropped \cup ({send_packet} \ {0})
    BY <1>6 DEF Stage2
  <2>2. Ordered'
    <3>1. \A a \in 1 .. Len(received) : send_packet = 0 \/ received[a] <= send_packet
      BY <1>0, <1>1, <1>2
    <3> QED BY <1>0, <1>1, <2>1, <3>1 DEF Ordered
  <2>3. Accounted'
    <3>1. 1 .. made = ToSet(received) \cup (dropped \cup ({send_packet} \ {0})) \cup ToSet(tx_mb)
                      \cup ({send_packet} \ {0})
      BY <1>3
    <3>2. send_packet # 0 => send_packet \in ToSet(received) \cup (dropped \cup ({send_packet} \ {0}))
      OBVIOUS
    <3> QED BY <1>0, <2>1, <3>1, <3>2 DEF Accounted
  <2> QED BY <1>0, <1>4, <2>1, <2>2, <2>3
<1> QED BY <1>5, <1>6

\* Of what it does, what concerns the module's.
LEMMA PacketFetched ==
    ASSUME IInv, NEW ready \in BOOLEAN, Stage2(ready)
    PROVE  /\ rx_mb' \in Seq(0 .. MaxPackets) /\ slaveOut' \in Seq(0 .. MaxPackets)
           /\ PoolsConserved' /\ rxFree' \in Nat
           /\ Clean(slaveOut) /\ Clean(rx_mb) => Clean(slaveOut') /\ Clean(rx_mb')
           /\ Clean(slaveOut) /\ Own(rx_mb, mine) => Clean(slaveOut') /\ Own(rx_mb', mine)
           /\ Own(slaveOut, mine) /\ Clean(rx_mb) =>
                \/ Own(slaveOut', mine) /\ Clean(rx_mb')
                \/ Clean(slaveOut') /\ Own(rx_mb', mine)
<1>0. /\ rx_mb \in Seq(0 .. MaxPackets) /\ slaveOut \in Seq(0 .. MaxPackets)
      /\ rxFree \in Nat /\ txFree \in Nat /\ tx_mb \in Seq(1 .. MaxPackets)
      /\ mine \in 0 .. MaxPackets /\ Len(tx_mb) \in Nat /\ Len(rx_mb) \in Nat
  BY LenProperties DEF IInv, Queues, Ranges
<1>1. txFree' + Len(tx_mb') + (IF send_packet' = 0 THEN 0 ELSE 1) = TxPool
  BY DEF IInv, PoolsConserved, Stage2
<1>2. CASE rx_buffer /\ slaveOut # <<>>
  <2>1. /\ rx_mb' = Append(rx_mb, Head(slaveOut)) /\ slaveOut' = Tail(slaveOut)
        /\ rxFree' = rxFree /\ ~rx_buffer'
    BY <1>2 DEF Stage2
  <2>2. Head(slaveOut) \in 0 .. MaxPackets /\ slaveOut' \in Seq(0 .. MaxPackets)
    BY <1>0, <1>2, <2>1, HeadTailProperties
  <2>3. rx_mb' \in Seq(0 .. MaxPackets) /\ Len(rx_mb') = Len(rx_mb) + 1
    BY <1>0, <2>1, <2>2, AppendProperties
  <2>4. PoolsConserved'
    BY <1>0, <1>1, <1>2, <2>1, <2>3 DEF IInv, PoolsConserved
  <2>5. /\ Clean(slaveOut) => Head(slaveOut) = 0 /\ Clean(Tail(slaveOut))
        /\ Own(slaveOut, mine) => Own(Tail(slaveOut), mine)
        /\ Own(slaveOut, mine) /\ Head(slaveOut) # 0 =>
             Head(slaveOut) = mine /\ Clean(Tail(slaveOut))
    BY <1>0, <1>2, Dequeued
  <2>6. /\ Clean(rx_mb) => Clean(Append(rx_mb, 0)) /\ Own(Append(rx_mb, mine), mine)
        /\ Own(rx_mb, mine) => Own(Append(rx_mb, 0), mine)
    BY <1>0, FrameQueued, ResponseQueued
  <2> QED BY <1>0, <2>1, <2>2, <2>3, <2>4, <2>5, <2>6
<1>3. CASE ~(rx_buffer /\ slaveOut # <<>>)
  <2>1. /\ rx_mb' = rx_mb /\ slaveOut' = slaveOut /\ ~rx_buffer'
        /\ rxFree' = IF rx_buffer THEN rxFree + 1 ELSE rxFree
    BY <1>3 DEF Stage2
  <2>2. PoolsConserved' /\ rxFree' \in Nat
    BY <1>0, <1>1, <2>1 DEF IInv, PoolsConserved
  <2> QED BY <1>0, <2>1, <2>2
<1> QED BY <1>2, <1>3

\* The second stage moves a packet in each direction.
LEMMA Stage2Inv ==
    ASSUME IInv, NEW ready \in BOOLEAN, Stage2(ready)
    PROVE  IInv'
<1>1. /\ received' \in Seq(1 .. MaxPackets) /\ asked' \in Seq(0 .. MaxPackets)
      /\ Ordered' /\ Accounted' /\ dropped' \subseteq 1 .. MaxPackets
  BY PacketExchanged
<1>2. /\ rx_mb' \in Seq(0 .. MaxPackets) /\ slaveOut' \in Seq(0 .. MaxPackets)
      /\ PoolsConserved' /\ rxFree' \in Nat
      /\ Clean(slaveOut) /\ Clean(rx_mb) => Clean(slaveOut') /\ Clean(rx_mb')
      /\ Clean(slaveOut) /\ Own(rx_mb, mine) => Clean(slaveOut') /\ Own(rx_mb', mine)
      /\ Own(slaveOut, mine) /\ Clean(rx_mb) =>
           \/ Own(slaveOut', mine) /\ Clean(rx_mb')
           \/ Clean(slaveOut') /\ Own(rx_mb', mine)
  BY PacketFetched
<1>3. Queues'
  BY <1>1, <1>2 DEF IInv, Queues, Stage2
<1>4. Flags'
  BY DEF IInv, Flags, Stage2, caller
<1>5. Ranges'
  BY <1>1, <1>2 DEF IInv, Ranges, Stage2, caller
<1>6. TransferOpen'
  BY DEF TransferOpen, Stage2
<1>7. OneUnderWay'
  <2> SUFFICES ASSUME ~timedOut' PROVE OneUnderWay'
    BY DEF OneUnderWay
  <2>1. ~timedOut /\ client' = client /\ mine' = mine /\ cmd_event' = cmd_event /\ resp' = resp
        /\ cmds' = cmds \ {send_packet}
    BY DEF Stage2, caller
  <2>2. cmds = {} => cmds' = {} /\ asked' = asked
    BY <2>1 DEF Stage2
  <2>3. CASE client = "wait" /\ ToBeSent
    <3>1. asked \in Seq(0 .. MaxPackets) /\ mine \in 0 .. MaxPackets
      BY DEF IInv, Queues, Ranges
    <3>2. Own(Append(asked, mine), mine)
      BY <2>3, <3>1, ResponseQueued DEF ToBeSent
    <3>3. \/ cmds' = {} /\ asked' = Append(asked, mine)
          \/ cmds' = {} /\ asked' = asked
          \/ cmds' = {mine} /\ asked' = asked
      BY <2>1, <2>3 DEF Stage2, ToBeSent
    <3> QED BY <1>2, <2>1, <2>3, <3>2, <3>3 DEF OneUnderWay, ToBeSent, ToBeAnswered, Nowhere
  <2>4. CASE Nowhere
    BY <1>2, <2>1, <2>2, <2>4 DEF OneUnderWay, Nowhere
  <2>5. CASE client = "wait" /\ (ToBeAnswered \/ Answered \/ ToBeHandled \/ Announced)
    BY <1>2, <2>1, <2>2, <2>5 DEF OneUnderWay, ToBeAnswered, Answered, ToBeHandled, Announced
  <2> QED BY <2>1, <2>3, <2>4, <2>5 DEF IInv, OneUnderWay
<1>8. ResponseIsMine'
  BY DEF IInv, ResponseIsMine, Stage2, caller
<1> QED BY <1>1, <1>2, <1>3, <1>4, <1>5, <1>6, <1>7, <1>8 DEF IInv

\* wifi_handle dispatches what came in.
LEMMA ProcessInv ==
    ASSUME IInv, NEW allocated \in BOOLEAN, Process(allocated)
    PROVE  IInv'
<1>0. /\ rx_mb # <<>> /\ rx_mb' = Tail(rx_mb) /\ rx_mb \in Seq(0 .. MaxPackets)
      /\ mine \in 0 .. MaxPackets
  BY DEF IInv, Queues, Ranges, Process
<1>1. /\ Head(rx_mb) \in 0 .. MaxPackets /\ rx_mb' \in Seq(0 .. MaxPackets)
      /\ Len(rx_mb') = Len(rx_mb) - 1 /\ Len(rx_mb) \in Nat
  BY <1>0, HeadTailProperties, LenProperties
<1>2. /\ Clean(rx_mb) => Head(rx_mb) = 0 /\ Clean(rx_mb')
      /\ Own(rx_mb, mine) => Own(rx_mb', mine)
      /\ Own(rx_mb, mine) /\ Head(rx_mb) # 0 => Head(rx_mb) = mine /\ Clean(rx_mb')
  BY <1>0, Dequeued
<1>3. Queues'
  BY <1>1 DEF IInv, Queues, Process, module
<1>4. Flags'
  BY DEF IInv, Flags, Process, thread
<1>5. Ranges'
  <2>1. resp' \in 0 .. MaxPackets /\ rxFree' \in Nat
    BY <1>1, Rw007Assumption DEF IInv, Ranges, Process
  <2> QED BY <2>1 DEF IInv, Ranges, Process, thread, module
<1>6. TransferOpen' /\ Ordered' /\ Accounted'
  BY DEF IInv, TransferOpen, Ordered, Accounted, Process, thread, module
<1>7. PoolsConserved'
  BY <1>1 DEF IInv, Ranges, PoolsConserved, Process, thread
<1>8. OneUnderWay' /\ ResponseIsMine'
  <2> SUFFICES ASSUME ~timedOut' PROVE OneUnderWay' /\ ResponseIsMine'
    BY DEF OneUnderWay, ResponseIsMine
  <2>1. ~timedOut /\ client' = client /\ mine' = mine /\ cmds' = cmds /\ asked' = asked
        /\ slaveOut' = slaveOut /\ result' = result
    BY DEF Process, module
  <2>2. CASE Head(rx_mb) = 0
    <3>1. UNCHANGED <<freedTwice, resp, dangling, cmd_event>>
      BY <2>2 DEF Process
    <3>2. OneUnderWay'
      BY <1>2, <2>1, <3>1 DEF IInv, OneUnderWay, Nowhere, ToBeSent, ToBeAnswered, Answered,
                              ToBeHandled, Announced
    <3>3. ResponseIsMine'
      BY <2>1, <3>1 DEF IInv, ResponseIsMine
    <3> QED BY <3>2, <3>3
  <2>3. CASE Head(rx_mb) # 0
    <3>1. ~Clean(rx_mb)
      BY <1>2, <2>3
    <3>2. client = "wait" /\ ToBeHandled
      BY <2>1, <3>1 DEF IInv, OneUnderWay, Nowhere, ToBeSent, ToBeAnswered, Answered,
                        Announced
    <3>3. Head(rx_mb) = mine /\ Clean(rx_mb')
      BY <1>2, <2>3, <3>2 DEF ToBeHandled
    <3>4. ~cmd_event /\ ~dangling
      BY <2>1, <3>2 DEF IInv, ResponseIsMine, ToBeHandled
    <3>5. OneUnderWay'
      <4>1. CASE allocated
        <5>1. resp' = mine
          BY <2>3, <3>3, <4>1 DEF Process
        <5> QED BY <2>1, <3>2, <3>3, <5>1 DEF OneUnderWay, ToBeHandled, Announced
      <4>2. CASE ~allocated
        <5>1. ~cmd_event'
          BY <2>3, <3>4, <4>2 DEF Process
        <5> QED BY <2>1, <3>2, <3>3, <5>1 DEF OneUnderWay, ToBeHandled, Nowhere
      <4> QED BY <4>1, <4>2
    <3>6. ResponseIsMine'
      BY <2>1, <2>3, <3>2, <3>4 DEF IInv, ResponseIsMine, Process
    <3> QED BY <3>5, <3>6
  <2> QED BY <2>2, <2>3
<1> QED BY <1>3, <1>4, <1>5, <1>6, <1>7, <1>8 DEF IInv

\* What the module does by itself.
LEMMA SlaveInv ==
    ASSUME IInv, SlaveInt \/ SlaveAnswers \/ SlaveFrame
    PROVE  IInv'
<1>0. UNCHANGED <<made, pools, thread, caller, received, dropped, errors>>
  BY DEF SlaveInt, SlaveAnswers, SlaveFrame, module
<1>1. Flags'
  BY <1>0 DEF IInv, Flags, thread, caller
<1>2. Ranges'
  <2>1. events' \subseteq {"int", "data"}
    BY DEF IInv, Ranges, SlaveInt, SlaveAnswers, SlaveFrame
  <2> QED BY <1>0, <2>1 DEF IInv, Ranges, pools, thread, caller
<1>3. PoolsConserved' /\ TransferOpen' /\ Ordered' /\ Accounted'
  BY <1>0 DEF IInv, PoolsConserved, TransferOpen, Ordered, Accounted, pools, thread
<1>4. ResponseIsMine'
  BY <1>0 DEF IInv, ResponseIsMine, caller
<1>5. /\ timedOut' = timedOut /\ client' = client /\ mine' = mine /\ cmds' = cmds
      /\ rx_mb' = rx_mb /\ cmd_event' = cmd_event /\ resp' = resp
  BY <1>0 DEF pools, caller
<1>6. /\ asked \in Seq(0 .. MaxPackets) /\ slaveOut \in Seq(0 .. MaxPackets)
      /\ mine \in 0 .. MaxPackets /\ 0 \in 0 .. MaxPackets
  BY Rw007Assumption DEF IInv, Queues, Ranges
<1>7. CASE SlaveInt
  <2>1. asked' = asked /\ slaveOut' = slaveOut
    BY <1>7 DEF SlaveInt, module
  <2>2. Queues'
    BY <1>0, <2>1 DEF IInv, Queues, pools
  <2>3. OneUnderWay'
    BY <1>5, <2>1 DEF IInv, OneUnderWay, Nowhere, ToBeSent, ToBeAnswered, Answered,
                      ToBeHandled, Announced
  <2> QED BY <1>1, <1>2, <1>3, <1>4, <2>2, <2>3 DEF IInv
<1>8. CASE SlaveAnswers
  <2>1. /\ asked # <<>> /\ asked' = Tail(asked) /\ slaveOut' = Append(slaveOut, Head(asked))
    BY <1>8 DEF SlaveAnswers
  <2>2. Head(asked) \in 0 .. MaxPackets /\ asked' \in Seq(0 .. MaxPackets)
    BY <1>6, <2>1, HeadTailProperties
  <2>3. slaveOut' \in Seq(0 .. MaxPackets)
    BY <1>6, <2>1, <2>2, AppendProperties
  <2>4. Queues'
    BY <1>0, <2>2, <2>3 DEF IInv, Queues, pools
  <2>5. /\ Clean(asked) => Head(asked) = 0 /\ Clean(asked')
        /\ Own(asked, mine) => Own(asked', mine)
        /\ Own(asked, mine) /\ Head(asked) # 0 => Head(asked) = mine /\ Clean(asked')
    BY <1>6, <2>1, Dequeued
  <2>6. /\ Clean(slaveOut) => Clean(Append(slaveOut, 0)) /\ Own(Append(slaveOut, mine), mine)
        /\ Own(slaveOut, mine) => Own(Append(slaveOut, 0), mine)
    BY <1>6, FrameQueued, ResponseQueued
  <2>7. OneUnderWay'
    <3>1. CASE Head(asked) = 0
      BY <1>5, <2>1, <2>5, <2>6, <3>1
         DEF IInv, OneUnderWay, Nowhere, ToBeSent, ToBeAnswered, Answered, ToBeHandled,
             Announced
    <3>2. CASE Head(asked) # 0
      BY <1>5, <2>1, <2>5, <2>6, <3>2
         DEF IInv, OneUnderWay, Nowhere, ToBeSent, ToBeAnswered, Answered, ToBeHandled,
             Announced
    <3> QED BY <3>1, <3>2
  <2> QED BY <1>1, <1>2, <1>3, <1>4, <2>4, <2>7 DEF IInv
<1>9. CASE SlaveFrame
  <2>1. asked' = asked /\ slaveOut' = Append(slaveOut, 0)
    BY <1>9 DEF SlaveFrame
  <2>2. slaveOut' \in Seq(0 .. MaxPackets)
    BY <1>6, <2>1, AppendProperties
  <2>3. Queues'
    BY <1>0, <2>1, <2>2 DEF IInv, Queues, pools
  <2>4. /\ Clean(slaveOut) => Clean(slaveOut')
        /\ Own(slaveOut, mine) => Own(slaveOut', mine)
    BY <1>6, <2>1, FrameQueued
  <2>5. OneUnderWay'
    BY <1>5, <2>1, <2>4 DEF IInv, OneUnderWay, Nowhere, ToBeSent, ToBeAnswered, Answered,
                            ToBeHandled, Announced
  <2> QED BY <1>1, <1>2, <1>3, <1>4, <2>3, <2>5 DEF IInv
<1> QED BY <1>7, <1>8, <1>9

\* A step of something else.
LEMMA StutterInv == IInv /\ UNCHANGED vars => IInv'
<1> SUFFICES ASSUME IInv, UNCHANGED vars PROVE IInv'
  OBVIOUS
<1> USE DEF vars, pools, thread, caller, module
<1>1. Flags' /\ PoolsConserved' /\ TransferOpen'
  BY DEF IInv, Flags, PoolsConserved, TransferOpen
<1>2. Ranges' /\ Queues'
  BY DEF IInv, Ranges, Queues
<1>3. Ordered' /\ Accounted'
  BY DEF IInv, Ordered, Accounted
<1>4. OneUnderWay' /\ ResponseIsMine'
  BY DEF IInv, OneUnderWay, ResponseIsMine, Nowhere, ToBeSent, ToBeAnswered, Answered,
         ToBeHandled, Announced
<1> QED BY <1>1, <1>2, <1>3, <1>4 DEF IInv

----------------------------------------------------------------------------
(* Theorems.                                                               *)

\* The inductive invariant holds in every reachable state of the driver.
THEOREM DriverInvariant == Spec => []IInv
<1>1. ASSUME IInv, [Next]_vars
      PROVE  IInv'
  <2> USE <1>1
  <2>1. CASE Transfer
    <3>1. CASE \E ready \in {TRUE, ~MayBeBusy} : Stage2(ready)
      <4> PICK ready \in {TRUE, ~MayBeBusy} : Stage2(ready)
        BY <3>1
      <4>1. ready \in BOOLEAN
        OBVIOUS
      <4> QED BY <4>1, Stage2Inv
    <3> QED BY <2>1, <3>1, StartTransferInv, Stage1Inv, EndTransferInv DEF Transfer
  <2>2. CASE Handle
    BY <2>2, ProcessInv DEF Handle
  <2>3. CASE wlan_send \/ spi_send_cmd \/ Garbled
    BY <2>3, WlanSendInv, SpiSendCmdInv, GarbledInv
  <2>4. CASE Client \/ ResponseTimeout
    BY <2>4, CallerInv
  <2>5. CASE SlaveInt \/ SlaveAnswers \/ SlaveFrame
    BY <2>5, SlaveInv
  <2>6. CASE UNCHANGED vars
    BY <2>6, StutterInv
  <2> QED BY <2>1, <2>2, <2>3, <2>4, <2>5, <2>6 DEF Next
<1> QED BY <1>1, InitInv, PTL DEF Spec

\* Types, and the pools' limits: txFree and rxFree never exceed the number of
\* buffers of rt_mp_init, which takes that every buffer is freed once.
THEOREM DriverTypeCorrect == Spec => []TypeOK
<1>1. IInv => TypeOK
  <2> SUFFICES ASSUME IInv PROVE TypeOK
    OBVIOUS
  <2>1. Len(tx_mb) \in Nat /\ Len(rx_mb) \in Nat
    BY LenProperties DEF IInv, Queues
  <2>2. txFree \in 0 .. TxPool /\ rxFree \in 0 .. RxPool
    BY <2>1, Rw007Assumption DEF IInv, PoolsConserved, Ranges
  <2>3. rx_buffer \in BOOLEAN /\ empty_read \in BOOLEAN /\ more \in BOOLEAN
    BY DEF IInv, Flags
  <2> QED BY <2>2, <2>3 DEF IInv, Ranges, Queues, TypeOK, Clients
<1> QED BY <1>1, DriverInvariant, PTL

\* wifi_data_transfer and wifi_xfer hand the module every packet of the
\* mailbox at most once and in order, however many exchanges are garbled, and
\* lose only those for which it was not ready.
THEOREM SendsInOrder == Spec => []SentOnceInOrder
<1>1. IInv => SentOnceInOrder
  BY DEF IInv, Ordered, Accounted, SentOnceInOrder
<1> QED BY <1>1, DriverInvariant, PTL

\* Every buffer of the two pools is free, in a mailbox or under way.
THEOREM ConservesPools == Spec => []PoolsConserved
<1>1. IInv => PoolsConserved
  BY DEF IInv
<1> QED BY <1>1, DriverInvariant, PTL

\* spi_set_data returns the response to its own command and nothing is freed
\* twice, as long as no command has timed out.
THEOREM GetsOwnResponse == Spec => []OwnResponse
<1>1. IInv => OwnResponse
  BY DEF IInv, ResponseIsMine, OwnResponse
<1> QED BY <1>1, DriverInvariant, PTL
=============================================================================
