---------------------------- MODULE PacketPath ----------------------------
(***************************************************************************)
(* The way of frames between the Ethernet controller and programs, when    *)
(* ENABLE_GENET is set: the descriptor rings of kernel/genet.c, which the  *)
(* controller shares, the two queues of net/packet_queue.c, and the        *)
(* threads of net/rx_tx_threads.c that carry frames from one to the other. *)
(*                                                                         *)
(* The controller is outside: it goes round each ring, uses a descriptor   *)
(* only while it is armed, and disarms it when it is done.  Threads change *)
(* only where one yields.  Frames are numbered, each way from 1 on.        *)
(***************************************************************************)
EXTENDS Integers

CONSTANTS
    Descs,       \* GENET_DMA_DESC_COUNT
    QueueSize,   \* PACKET_QUEUE_SIZE
    MaxFrames    \* bound: frames that come in, and that programs send

ASSUME PacketAssumption ==
    Descs \in Nat \ {0} /\ QueueSize \in Nat \ {0} /\ MaxFrames \in Nat

Frame  == 0 .. MaxFrames          \* 0: none
Index  == 0 .. Descs - 1
Slot   == 0 .. QueueSize - 1
Queues == {"rx", "tx"}
Ring   == [Index -> [armed : BOOLEAN, frame : Frame]]
Queue  == [buffer : [Slot -> Frame], head : Slot, tail : Slot, count : 0 .. QueueSize]

VARIABLES
    pc,          \* where the processor is
    armed,       \* in genet_setup_rx_ring: descriptors armed so far
    mac,         \* the MAC is enabled
    rx, rx_index, rx_dev,   \* the receive ring, the driver's place, the controller's
    tx, tx_index, tx_dev,   \* and the transmit ring
    queue,       \* rx_queue and tx_queue
    out,         \* what the last pop of each queue copied out
    buf,         \* the frame genet_recv copied last
    wire,        \* the frame the controller sent last
    arrived,     \* frames that came in
    made,        \* frames programs sent
    wiped,       \* auxiliary: genet_init armed a descriptor that held a frame
    overrun      \* auxiliary: genet_send took a descriptor that was armed

rxvars == <<rx, rx_index, rx_dev, buf, arrived, wiped>>
txvars == <<tx, tx_index, tx_dev, wire, overrun>>
qvars  == <<queue, out, made>>
setup  == <<armed, mac>>
vars   == <<pc, setup, rxvars, txvars, qvars>>

Places == {"init", "yield", "rx", "rearm", "poll", "poll_rearm", "tx", "arm", "send"}

TypeOK ==
    /\ pc \in Places /\ armed \in 0 .. Descs /\ mac \in BOOLEAN
    /\ rx \in Ring /\ rx_index \in Index /\ rx_dev \in Index
    /\ tx \in Ring /\ tx_index \in Index /\ tx_dev \in Index
    /\ queue \in [Queues -> Queue] /\ out \in [Queues -> Frame]
    /\ {buf, wire, arrived, made} \subseteq Frame
    /\ wiped \in BOOLEAN /\ overrun \in BOOLEAN

EmptyQueue == [buffer |-> [i \in Slot |-> 0], head |-> 0, tail |-> 0, count |-> 0]
ZeroRing   == [i \in Index |-> [armed |-> FALSE, frame |-> 0]]

Init ==
    /\ pc = "init" /\ armed = 0 /\ mac = FALSE
    /\ rx = ZeroRing /\ rx_index = 0 /\ rx_dev = 0
    /\ tx = ZeroRing /\ tx_index = 0 /\ tx_dev = 0
    /\ queue = [q \in Queues |-> EmptyQueue] /\ out = [q \in Queues |-> 0]
    /\ buf = 0 /\ wire = 0 /\ arrived = 0 /\ made = 0
    /\ wiped = FALSE /\ overrun = FALSE

Next1(i, n) == (i + 1) % n

-----------------------------------------------------------------------------
(* net/packet_queue.c.                                                      *)

\* Mutant of Full: the check is one too late.
FullLate(q) == q.count > QueueSize
Full(q)  == q.count = QueueSize
Empty(q) == q.count = 0

Pushed(q, f) ==
    [q EXCEPT !.buffer[q.tail] = f, !.tail = Next1(q.tail, QueueSize), !.count = q.count + 1]

\* Mutant of Popped: the slot stays the head.
PoppedKept(q) == [q EXCEPT !.count = q.count - 1]
Popped(q) == [q EXCEPT !.head = Next1(q.head, QueueSize), !.count = q.count - 1]

\* A frame that finds the queue full is dropped.
Push(k, f) == queue' = IF Full(queue[k]) THEN queue ELSE [queue EXCEPT ![k] = Pushed(@, f)]

Pop(k) ==
    /\ ~Empty(queue[k])
    /\ out' = [out EXCEPT ![k] = queue[k].buffer[queue[k].head]]
    /\ queue' = [queue EXCEPT ![k] = Popped(@)]

-----------------------------------------------------------------------------
(* genet_init sets up the ring, enables the MAC, and sets it up again.      *)

SetupDesc ==
    /\ pc = "init" /\ armed < Descs
    /\ rx' = [rx EXCEPT ![armed].armed = TRUE]
    /\ armed' = armed + 1
    /\ wiped' = (wiped \/ (mac /\ ~rx[armed].armed))
    /\ UNCHANGED <<pc, mac, rx_index, rx_dev, buf, arrived, txvars, qvars>>

EnableMac ==
    /\ pc = "init" /\ armed = Descs /\ ~mac
    /\ mac' = TRUE /\ armed' = 0
    /\ UNCHANGED <<pc, rxvars, txvars, qvars>>

InitDone ==
    /\ pc = "init" /\ armed = Descs /\ mac
    /\ pc' = "yield"
    /\ UNCHANGED <<setup, rxvars, txvars, qvars>>

-----------------------------------------------------------------------------
(* genet_recv, in two parts: the frame is copied, then the descriptor is     *)
(* given back.  rx_thread calls it once and yields, genet_handle_rx until it *)
(* finds no frame.                                                          *)

\* Mutant of Received: the status is not looked at.
ReceivedAnyway == TRUE
Received == ~rx[rx_index].armed

Copy(at) ==
    /\ Received
    /\ buf' = rx[rx_index].frame
    /\ pc' = at
    /\ UNCHANGED <<setup, rx, rx_index, rx_dev, arrived, wiped, txvars, qvars>>

NoFrame ==
    /\ ~Received
    /\ pc' = "yield"
    /\ UNCHANGED <<setup, rxvars, txvars, qvars>>

\* Mutant of Rearm: the index stays.
RearmOnly ==
    /\ rx' = [rx EXCEPT ![rx_index].armed = TRUE]
    /\ UNCHANGED <<rx_index, rx_dev, buf, arrived, wiped>>
Rearm ==
    /\ rx' = [rx EXCEPT ![rx_index].armed = TRUE]
    /\ rx_index' = Next1(rx_index, Descs)
    /\ UNCHANGED <<rx_dev, buf, arrived, wiped>>

RxThread ==
    \/ pc = "rx" /\ (Copy("rearm") \/ NoFrame)
    \/ /\ pc = "rearm" /\ Rearm /\ Push("rx", buf)
       /\ pc' = "yield"
       /\ UNCHANGED <<setup, txvars, out, made>>

HandleRx ==
    \/ pc = "poll" /\ (Copy("poll_rearm") \/ NoFrame)
    \/ /\ pc = "poll_rearm" /\ Rearm
       /\ pc' = "poll"
       /\ UNCHANGED <<setup, txvars, qvars>>

-----------------------------------------------------------------------------
(* genet_send, in two parts: the frame is copied to the next buffer, then    *)
(* its descriptor is armed.  Whether the controller is done with it is not   *)
(* asked.  tx_thread sends what it pops, and never yields.                   *)

\* Mutant of Fill: the index is left to the next call.
FillSame(f) ==
    /\ tx' = [tx EXCEPT ![tx_index].frame = f]
    /\ overrun' = (overrun \/ tx[tx_index].armed)
    /\ UNCHANGED <<tx_index, tx_dev, wire>>

Fill(f) ==
    /\ tx' = [tx EXCEPT ![tx_index].frame = f]
    /\ tx_index' = Next1(tx_index, Descs)
    /\ overrun' = (overrun \/ tx[tx_index].armed)
    /\ UNCHANGED <<tx_dev, wire>>

\* Mutant of Sending: tx_index is read again, after it has moved on.
SendingNext == tx_index
Sending == (tx_index - 1) % Descs

Arm ==
    /\ tx' = [tx EXCEPT ![Sending].armed = TRUE]
    /\ UNCHANGED <<tx_index, tx_dev, wire, overrun>>

TxThread ==
    \/ /\ pc = "tx" /\ Pop("tx") /\ Fill(out'["tx"])
       /\ pc' = "arm"
       /\ UNCHANGED <<setup, rxvars, made>>
    \/ /\ pc = "arm" /\ Arm
       /\ pc' = "tx"
       /\ UNCHANGED <<setup, rxvars, qvars>>

-----------------------------------------------------------------------------
(* Programs, and the thread that runs next.                                 *)

Dispatch ==
    /\ pc = "yield"
    /\ pc' \in {"rx", "tx", "poll"}
    /\ UNCHANGED <<setup, rxvars, txvars, qvars>>

Enqueue ==
    /\ pc = "yield" /\ made < MaxFrames
    /\ made' = made + 1
    /\ Push("tx", made + 1)
    /\ UNCHANGED <<pc, setup, rxvars, txvars, out>>

\* ethernet_send, for ip_send: the frame does not go through the queue.
EthernetSend ==
    \/ /\ pc = "yield" /\ made < MaxFrames
       /\ made' = made + 1
       /\ Fill(made + 1)
       /\ pc' = "send"
       /\ UNCHANGED <<setup, rxvars, queue, out>>
    \/ /\ pc = "send" /\ Arm
       /\ pc' = "yield"
       /\ UNCHANGED <<setup, rxvars, qvars>>

Dequeue ==
    /\ pc = "yield" /\ Pop("rx")
    /\ UNCHANGED <<pc, setup, rxvars, txvars, made>>

-----------------------------------------------------------------------------
(* The controller.                                                          *)

Arrive ==
    /\ mac /\ arrived < MaxFrames /\ rx[rx_dev].armed
    /\ arrived' = arrived + 1
    /\ rx' = [rx EXCEPT ![rx_dev] = [armed |-> FALSE, frame |-> arrived + 1]]
    /\ rx_dev' = Next1(rx_dev, Descs)
    /\ UNCHANGED <<pc, setup, rx_index, buf, wiped, txvars, qvars>>

Transmit ==
    /\ tx[tx_dev].armed
    /\ wire' = tx[tx_dev].frame
    /\ tx' = [tx EXCEPT ![tx_dev].armed = FALSE]
    /\ tx_dev' = Next1(tx_dev, Descs)
    /\ UNCHANGED <<pc, setup, rxvars, tx_index, overrun, qvars>>

-----------------------------------------------------------------------------
Driver == SetupDesc \/ EnableMac \/ InitDone \/ RxThread \/ HandleRx \/ TxThread
Next == Driver \/ Dispatch \/ Enqueue \/ Dequeue \/ EthernetSend \/ Arrive \/ Transmit

Spec == Init /\ [][Next]_vars

\* The processor goes on with the thread it runs, and the controller sends.
FairSpec == Spec /\ WF_vars(Driver) /\ WF_vars(Transmit)

=============================================================================
