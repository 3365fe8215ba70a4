------------------------------ MODULE TcpProps ------------------------------
(***************************************************************************)
(* What two hosts of module Tcp may rely on, and on which networks.        *)
(***************************************************************************)
EXTENDS Tcp

Peers(h, g) == remote[h] = g /\ remote[g] = h

\* Whatever is lost or reordered, repeated SYNs and their late answers
\* included, no host acknowledges octets its peer has not sent: remote_seq is
\* never ahead of the other end's local_seq.  A repeated FIN would count twice.
AcksNeverAhead ==
    "repeat" \notin network =>
        \A h, g \in Host : Peers(h, g) /\ state[h] # "closed" => rseq[h] <= lseq[g]

\* On every network, a connection goes to TIME_WAIT only after the other end
\* has closed it: tcp_recv takes no late segment for a FIN, and tcp_close leaves
\* the state in which it could be called again.
TornDownByPeer ==
    \A h \in Host : state[h] = "time_wait" =>
        state[remote[h]] \in {"fin_wait_1", "fin_wait_2", "time_wait"}

\* While segments stay in order, even if some are lost, the data tcp_recv takes
\* is new: it lies past all that the host has acknowledged.
TakenInOrder ==
    [][network \subseteq {"lose"} =>
         \A h \in Host : rx'[h] \notin {rx[h], NoData} => rx'[h].seq >= rseq[h]]_vars

\* When all segments arrive, tcp_close is answered: its caller leaves FIN_WAIT_1
\* and the other end is no longer established, also when both ends close.
CloseCompletes ==
    \A h \in Host : network = {} /\ state[h] = "fin_wait_1" ~>
        state[h] \in {"fin_wait_2", "time_wait"} /\ state[remote[h]] # "established"

-----------------------------------------------------------------------------
\* net/tcp.c:139, of the step from FIN_WAIT_1 to FIN_WAIT_2: "ACK for FIN
\* Redeived".  What came in acknowledges the FIN: the other end has taken it.
AckIsForFin ==
    [][\A h \in Host : state[h] = "fin_wait_1" /\ state'[h] = "fin_wait_2" =>
         rseq[remote[h]] >= lseq[h]]_vars

=============================================================================
