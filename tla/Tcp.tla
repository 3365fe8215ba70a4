-------------------------------- MODULE Tcp --------------------------------
(***************************************************************************)
(* The TCP of RealNetOS (net/tcp.c) on several hosts, over a network that  *)
(* may lose, repeat and reorder segments.                                  *)
(*                                                                         *)
(* A host has one connection.  A call, and the input of one segment, is    *)
(* one step; only tcp_connect has segments come in while it runs, in the   *)
(* delay loop after each SYN.  How segments get from ip_send of one host   *)
(* to tcp_recv of another is the network's business, outside this module.  *)
(***************************************************************************)
EXTENDS Integers, SequencesExt

CONSTANTS
    Host,        \* hosts, and
    NoHost,      \* remote_ip before there was a connection
    MaxLen,      \* bound: octets in a segment
    Relisten,    \* whether programs call tcp_listen while they have a connection
    Attempts,    \* times tcp_connect sends its SYN
    MaxCalls,    \* bound: calls of the API, all hosts together
    MaxFaults,   \* bound: things the network does wrong
    Networks     \* kinds of network: what each may do, subsets of FaultKinds

FaultKinds == {"lose", "repeat", "reorder"}

ASSUME TcpAssumption ==
    /\ NoHost \notin Host
    /\ MaxLen \in Nat \ {0} /\ Attempts \in Nat \ {0}
    /\ MaxCalls \in Nat /\ MaxFaults \in Nat
    /\ Networks \subseteq SUBSET FaultKinds /\ Relisten \in BOOLEAN

ClientStart == 4096   \* local_seq at boot: 0x1000
ServerStart == 8192   \* and of a connection that was accepted: 0x2000

States == {"closed", "syn_sent", "established", "fin_wait_1", "fin_wait_2", "time_wait"}
Flag   == {"SYN", "ACK", "PSH", "FIN"}

Segment == [from : Host, flags : SUBSET Flag, seq : Nat, ack : Nat, len : 0 .. MaxLen]
\* What the receive buffer holds: octets of a host, from a sequence number on.
Payload == [from : Host, seq : Nat, len : 1 .. MaxLen]
NoData  == [len |-> 0]

VARIABLES
    network,    \* the kind of network there is
    state,      \* tcp_state
    lseq,       \* local_seq
    rseq,       \* remote_seq
    remote,     \* remote_ip
    listening,  \* is_listening
    attempt,    \* the attempt tcp_connect is waiting in, 0 outside
    rx,         \* tcp_rx_buffer
    wire,       \* the segments on their way to a host
    calls,      \* calls still allowed
    mishaps     \* faults still allowed

conn == <<state, lseq, rseq, remote, listening>>
vars == <<network, conn, attempt, rx, wire, calls, mishaps>>

TypeOK ==
    /\ network \in Networks
    /\ state \in [Host -> States]
    /\ lseq \in [Host -> Nat] /\ rseq \in [Host -> Nat]
    /\ remote \in [Host -> Host \cup {NoHost}]
    /\ listening \in [Host -> BOOLEAN]
    /\ attempt \in [Host -> 0 .. Attempts]
    /\ rx \in [Host -> Payload \cup {NoData}]
    /\ wire \in [Host -> Seq(Segment)]
    /\ calls \in 0 .. MaxCalls /\ mishaps \in 0 .. MaxFaults

Init ==
    /\ network \in Networks
    /\ state = [h \in Host |-> "closed"]
    /\ lseq = [h \in Host |-> ClientStart] /\ rseq = [h \in Host |-> 0]
    /\ remote = [h \in Host |-> NoHost]
    /\ listening = [h \in Host |-> FALSE]
    /\ attempt = [h \in Host |-> 0]
    /\ rx = [h \in Host |-> NoData]
    /\ wire = [h \in Host |-> <<>>]
    /\ calls = MaxCalls /\ mishaps = MaxFaults

-----------------------------------------------------------------------------
(* tcp_send_packet. *)

\* What is left of w after a segment was taken off it, and s sent by h to g:
\* a segment to NoHost is sent to the address 0.0.0.0.
Sent(w, g, s) == IF g \in Host THEN [w EXCEPT ![g] = Append(@, s)] ELSE w

\* Mutant of Advance: only data counts.
AdvanceData(s) == s.seq + s.len
\* A SYN or a FIN takes one sequence number, data one for each octet.
Advance(s) == IF s.flags \cap {"SYN", "FIN"} # {} THEN s.seq + 1 ELSE s.seq + s.len

\* h sends n octets with the given flags to g; l and r are its numbers now.
Emit(w, h, g, flags, l, r, n) ==
    LET s == [from |-> h, flags |-> flags, seq |-> l, ack |-> r, len |-> n]
    IN  /\ wire' = Sent(w, g, s)
        /\ lseq' = [lseq EXCEPT ![h] = Advance(s)]

-----------------------------------------------------------------------------
(* The calls. *)

Call(h) == attempt[h] = 0 /\ calls > 0 /\ calls' = calls - 1 /\ UNCHANGED <<network, mishaps>>

Listen(h) ==
    /\ Call(h)
    /\ state[h] # "closed" => Relisten
    /\ state' = [state EXCEPT ![h] = "closed"]
    /\ listening' = [listening EXCEPT ![h] = TRUE]
    /\ UNCHANGED <<lseq, rseq, remote, attempt, rx, wire>>

SendSyn(h, g) == Emit(wire, h, g, {"SYN"}, lseq[h], rseq[h], 0)

Connect(h, g) ==
    /\ Call(h) /\ state[h] = "closed"
    /\ state' = [state EXCEPT ![h] = "syn_sent"]
    /\ remote' = [remote EXCEPT ![h] = g]
    /\ attempt' = [attempt EXCEPT ![h] = 1]
    /\ SendSyn(h, g)
    /\ UNCHANGED <<rseq, listening, rx>>

\* Mutant of MoreAttempts: one too many.
OneMoreAttempt(h) == attempt[h] <= Attempts
MoreAttempts(h) == attempt[h] < Attempts

\* The delay loop of an attempt is over.
Waited(h) ==
    /\ attempt[h] > 0
    /\ \/ /\ state[h] = "established"
          /\ attempt' = [attempt EXCEPT ![h] = 0]
          /\ UNCHANGED <<state, lseq, wire>>
       \/ /\ state[h] # "established" /\ MoreAttempts(h)
          /\ attempt' = [attempt EXCEPT ![h] = @ + 1]
          /\ SendSyn(h, remote[h])
          /\ UNCHANGED state
       \/ /\ state[h] # "established" /\ ~MoreAttempts(h)
          /\ attempt' = [attempt EXCEPT ![h] = 0]
          /\ state' = [state EXCEPT ![h] = "closed"]
          /\ UNCHANGED <<lseq, wire>>
    /\ UNCHANGED <<network, rseq, remote, listening, rx, calls, mishaps>>

SendData(h, n) ==
    /\ Call(h) /\ state[h] = "established"
    /\ Emit(wire, h, remote[h], {"ACK", "PSH"}, lseq[h], rseq[h], n)
    /\ UNCHANGED <<state, rseq, remote, listening, attempt, rx>>

\* Mutant of Close: the state stays as it was.
CloseStays(h) ==
    /\ Call(h) /\ state[h] = "established"
    /\ Emit(wire, h, remote[h], {"FIN", "ACK"}, lseq[h], rseq[h], 0)
    /\ UNCHANGED <<state, rseq, remote, listening, attempt, rx>>

Close(h) ==
    /\ Call(h) /\ state[h] = "established"
    /\ Emit(wire, h, remote[h], {"FIN", "ACK"}, lseq[h], rseq[h], 0)
    /\ state' = [state EXCEPT ![h] = "fin_wait_1"]
    /\ UNCHANGED <<rseq, remote, listening, attempt, rx>>

\* tcp_receive empties the buffer.
Fetch(h) ==
    /\ attempt[h] = 0 /\ rx[h] # NoData
    /\ rx' = [rx EXCEPT ![h] = NoData]
    /\ UNCHANGED <<network, conn, attempt, wire, calls, mishaps>>

-----------------------------------------------------------------------------
(* tcp_recv: the segment s comes in at h and leaves w on the wires.  The     *)
(* cases are tried in this order.                                            *)

Accepts(h, s)   == "SYN" \in s.flags /\ listening[h] /\ state[h] = "closed"
Connects(h, s)  == "SYN" \in s.flags /\ state[h] = "syn_sent"
FinAcked(h, s)  == "ACK" \in s.flags /\ state[h] = "fin_wait_1"
Finished(h, s)  == "FIN" \in s.flags
TakesData(h, s) == s.len > 0 /\ state[h] = "established"

Accept(h, s, w) ==
    /\ remote' = [remote EXCEPT ![h] = s.from]
    /\ rseq' = [rseq EXCEPT ![h] = s.seq + 1]
    /\ state' = [state EXCEPT ![h] = "established"]
    /\ Emit(w, h, s.from, {"SYN", "ACK"}, ServerStart, s.seq + 1, 0)
    /\ UNCHANGED rx

Established(h, s, w) ==
    /\ rseq' = [rseq EXCEPT ![h] = s.seq + 1]
    /\ state' = [state EXCEPT ![h] = "established"]
    /\ Emit(w, h, remote[h], {"ACK"}, lseq[h], s.seq + 1, 0)
    /\ UNCHANGED <<remote, rx>>

FinWait2(h, w) ==
    /\ state' = [state EXCEPT ![h] = "fin_wait_2"]
    /\ wire' = w
    /\ UNCHANGED <<lseq, rseq, remote, rx>>

\* Mutant of TimeWait: the FIN is not acknowledged.
TimeWaitMute(h, w) ==
    /\ rseq' = [rseq EXCEPT ![h] = @ + 1]
    /\ state' = [state EXCEPT ![h] = "time_wait"]
    /\ wire' = w
    /\ UNCHANGED <<lseq, remote, rx>>

\* A FIN is acknowledged and ends the connection in every other state.
TimeWait(h, w) ==
    /\ rseq' = [rseq EXCEPT ![h] = @ + 1]
    /\ state' = [state EXCEPT ![h] = "time_wait"]
    /\ Emit(w, h, remote[h], {"ACK"}, lseq[h], rseq[h] + 1, 0)
    /\ UNCHANGED <<remote, rx>>

\* Mutant of Took: one octet too many is counted.
TookMore(s) == s.seq + s.len + 1
Took(s) == s.seq + s.len

\* Data is taken whatever its number; what is in the buffer is overwritten.
Take(h, s, w) ==
    /\ rx' = [rx EXCEPT ![h] = [from |-> s.from, seq |-> s.seq, len |-> s.len]]
    /\ rseq' = [rseq EXCEPT ![h] = Took(s)]
    /\ Emit(w, h, remote[h], {"ACK"}, lseq[h], Took(s), 0)
    /\ UNCHANGED <<state, remote>>

Recv(h, s, w) ==
    /\ \/ Accepts(h, s) /\ Accept(h, s, w)
       \/ ~Accepts(h, s) /\ Connects(h, s) /\ Established(h, s, w)
       \/ ~Accepts(h, s) /\ ~Connects(h, s) /\ FinAcked(h, s) /\ FinWait2(h, w)
       \/ /\ ~Accepts(h, s) /\ ~Connects(h, s) /\ ~FinAcked(h, s) /\ Finished(h, s)
          /\ TimeWait(h, w)
       \/ /\ ~Accepts(h, s) /\ ~Connects(h, s) /\ ~FinAcked(h, s) /\ ~Finished(h, s)
          /\ \/ TakesData(h, s) /\ Take(h, s, w)
             \/ ~TakesData(h, s) /\ wire' = w /\ UNCHANGED <<state, lseq, rseq, remote, rx>>
    /\ UNCHANGED <<network, listening, attempt, calls>>

-----------------------------------------------------------------------------
(* The network. *)

Without(h, i) == [wire EXCEPT ![h] = RemoveAt(@, i)]

Mishap(kind) == kind \in network /\ mishaps > 0 /\ mishaps' = mishaps - 1

Deliver(h) ==
    \/ /\ wire[h] # <<>>
       /\ Recv(h, wire[h][1], Without(h, 1))
       /\ UNCHANGED mishaps
    \/ /\ Mishap("reorder")
       /\ \E i \in 2 .. Len(wire[h]) : Recv(h, wire[h][i], Without(h, i))
    \/ /\ Mishap("repeat") /\ wire[h] # <<>>
       /\ Recv(h, wire[h][1], wire)

Lose(h) ==
    /\ Mishap("lose") /\ wire[h] # <<>>
    /\ wire' = Without(h, 1)
    /\ UNCHANGED <<network, conn, attempt, rx, calls>>

-----------------------------------------------------------------------------
Next ==
    \E h \in Host :
        \/ Listen(h)
        \/ \E g \in Host \ {h} : Connect(h, g)
        \/ Waited(h)
        \/ \E n \in 1 .. MaxLen : SendData(h, n)
        \/ Close(h) \/ Fetch(h)
        \/ Deliver(h) \/ Lose(h)

Spec == Init /\ [][Next]_vars

\* Segments that are on the way are delivered at last.
FairSpec == Spec /\ \A h \in Host : WF_vars(Deliver(h))

=============================================================================
