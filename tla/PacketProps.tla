---------------------------- MODULE PacketProps ----------------------------
(***************************************************************************)
(* What the packet path promises, and when: the queues always are first    *)
(* in, first out; the receive ring is, unless genet_init wiped a frame out *)
(* when it set it up once more; the transmit ring is, until genet_send     *)
(* overtakes the controller.                                               *)
(***************************************************************************)
EXTENDS PacketPath, Sequences, FiniteSets

RingSetUp == mac /\ armed = Descs

\* The controller and the driver agree on where they are: the descriptor that
\* genet_recv looks at holds a frame if any does, so that no frame lies in the
\* ring unseen until the controller has gone round it.
RxInStep ==
    ~wiped /\ RingSetUp =>
        ((\E i \in Index : ~rx[i].armed) => ~rx[rx_index].armed)

\* The same of the transmit ring: the descriptor the controller waits at is armed
\* if any is, so that no frame stays behind for want of later ones.
TxInStep == ~overrun => ((\E i \in Index : tx[i].armed) => tx[tx_dev].armed)

-----------------------------------------------------------------------------
\* n entries of a ring of the given size, from i on.
From(f, i, n, size) == [k \in 1 .. n |-> f[(i + k - 1) % size]]

\* Frames in the receive ring that were not copied yet, and frames genet_send
\* has put in the transmit ring that were not sent yet.
Copied == pc \in {"rearm", "poll_rearm"}
Unread ==
    LET n == Cardinality({i \in Index : ~rx[i].armed})
        f == [i \in Index |-> rx[i].frame]
    IN  IF Copied THEN From(f, Next1(rx_index, Descs), n - 1, Descs)
                  ELSE From(f, rx_index, n, Descs)
Unsent ==
    LET n == Cardinality({i \in Index : tx[i].armed})
    IN  From([i \in Index |-> tx[i].frame], tx_dev,
             IF pc \in {"arm", "send"} THEN n + 1 ELSE n, Descs)

RxRing == INSTANCE Channels WITH
    Reader <- {"rx"}, Items <- Frame, Capacity <- Descs, NoItem <- 0,
    queue <- [k \in {"rx"} |-> Unread], got <- [k \in {"rx"} |-> buf]
TxRing == INSTANCE Channels WITH
    Reader <- {"tx"}, Items <- Frame, Capacity <- Descs, NoItem <- 0,
    queue <- [k \in {"tx"} |-> Unsent], got <- [k \in {"tx"} |-> wire]

\* genet_recv hands over each frame the controller stored, once and in order,
\* whoever calls it, rx_thread or genet_poll.
ReceivedInOrder ==
    [][~wiped' /\ RingSetUp => RxRing!Next \/ UNCHANGED <<Unread, buf>>]_vars

\* Each frame given to genet_send, by tx_thread or by ethernet_send, goes out
\* once and in order.
SentInOrder ==
    [][~overrun' => TxRing!Next \/ UNCHANGED <<Unsent, wire>>]_vars

\* rx_queue and tx_queue are bounded and first in, first out.
Queued(q) == From(q.buffer, q.head, q.count, QueueSize)

Promise == INSTANCE Channels WITH
    Reader <- Queues, Items <- Frame, Capacity <- QueueSize, NoItem <- 0,
    queue <- [k \in Queues |-> Queued(queue[k])], got <- out

ImplementsChannels == Promise!Spec

-----------------------------------------------------------------------------
\* Once tx_thread runs, all that waits in its queue goes out.
TxThreadDrains ==
    pc = "tx" /\ ~overrun ~> Empty(queue["tx"]) /\ (overrun \/ \A i \in Index : ~tx[i].armed)

=============================================================================
