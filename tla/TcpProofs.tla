----------------------------- MODULE TcpProofs -----------------------------
(***************************************************************************)
(* Proofs about module Tcp.  For any number of hosts, attempts, calls and  *)
(* faults, the variables keep their types.  For two hosts, and any number  *)
(* of the rest, the properties of module TcpProps that are not liveness:   *)
(* a connection goes to TIME_WAIT only after its other end closed it, no   *)
(* host acknowledges what was not sent, and the data taken is new.         *)
(***************************************************************************)
EXTENDS TcpProps, TLAPS

-----------------------------------------------------------------------------
(* Segments on the wires.                                                   *)

LEMMA RemoveAtType ==
  ASSUME NEW S, NEW w \in Seq(S), NEW i \in 1 .. Len(w)
  PROVE  RemoveAt(w, i) \in Seq(S)
<1>1. SubSeq(w, 1, i - 1) \in Seq(S) /\ SubSeq(w, i + 1, Len(w)) \in Seq(S)
  OBVIOUS
<1> QED BY <1>1 DEF RemoveAt

LEMMA AppendType ==
  ASSUME NEW S, NEW w \in Seq(S), NEW e \in S
  PROVE  Append(w, e) \in Seq(S)
OBVIOUS

\* Sending adds one segment to one wire.
LEMMA SentType ==
  ASSUME NEW S \in [Host -> SUBSET Segment], NEW w \in [Host -> Seq(Segment)],
         \A k \in Host : w[k] \in Seq(S[k]),
         NEW g, NEW s, g \in Host => s \in S[g]
  PROVE  /\ Sent(w, g, s) \in [Host -> Seq(Segment)]
         /\ \A k \in Host : Sent(w, g, s)[k] \in Seq(S[k])
<1>1. CASE g \notin Host
  BY <1>1 DEF Sent
<1>2. CASE g \in Host
  <2>1. Sent(w, g, s) = [w EXCEPT ![g] = Append(w[g], s)]
    BY <1>2 DEF Sent
  <2>2. Append(w[g], s) \in Seq(S[g])
    BY <1>2, AppendType
  <2>3. Append(w[g], s) \in Seq(Segment)
    <3>1. s \in Segment
      BY <1>2
    <3> QED BY <1>2, <3>1, AppendType
  <2>4. Sent(w, g, s) \in [Host -> Seq(Segment)]
    BY <2>1, <2>3
  <2>5. ASSUME NEW k \in Host PROVE Sent(w, g, s)[k] \in Seq(S[k])
    BY <1>2, <2>1, <2>2
  <2> QED BY <2>4, <2>5
<1> QED BY <1>1, <1>2

\* Taking a segment off a wire leaves the others.
LEMMA WithoutType ==
  ASSUME NEW S \in [Host -> SUBSET Segment], wire \in [Host -> Seq(Segment)],
         \A k \in Host : wire[k] \in Seq(S[k]),
         NEW h \in Host, NEW i \in 1 .. Len(wire[h])
  PROVE  /\ Without(h, i) \in [Host -> Seq(Segment)]
         /\ \A k \in Host : Without(h, i)[k] \in Seq(S[k])
<1>1. RemoveAt(wire[h], i) \in Seq(S[h])
  BY RemoveAtType
<1>2. RemoveAt(wire[h], i) \in Seq(Segment)
  BY RemoveAtType
<1>3. Without(h, i) = [wire EXCEPT ![h] = RemoveAt(wire[h], i)]
  BY DEF Without
<1> QED BY <1>1, <1>2, <1>3

-----------------------------------------------------------------------------
(* Type correctness.                                                        *)

LEMMA EmitType ==
  ASSUME TypeOK, NEW w \in [Host -> Seq(Segment)], NEW h \in Host, NEW g,
         NEW flags \in SUBSET Flag, NEW l \in Nat, NEW r \in Nat, NEW n \in 0 .. MaxLen,
         Emit(w, h, g, flags, l, r, n)
  PROVE  wire' \in [Host -> Seq(Segment)] /\ lseq' \in [Host -> Nat]
<1> DEFINE s == [from |-> h, flags |-> flags, seq |-> l, ack |-> r, len |-> n]
           S == [k \in Host |-> Segment]
<1>1. s \in Segment
  BY DEF Segment
<1>2. wire' = Sent(w, g, s) /\ lseq' = [lseq EXCEPT ![h] = Advance(s)]
  BY DEF Emit
<1>3. Advance(s) \in Nat
  BY DEF Advance
<1> HIDE DEF s
<1>4. S \in [Host -> SUBSET Segment] /\ \A k \in Host : S[k] = Segment
  OBVIOUS
<1> HIDE DEF S
<1>5. Sent(w, g, s) \in [Host -> Seq(Segment)]
  BY <1>1, <1>4, SentType
<1> QED BY <1>2, <1>3, <1>5 DEF TypeOK

\* The numbers tcp_recv sends are numbers.
LEMMA NumbersType ==
  ASSUME TypeOK, NEW h \in Host, NEW s \in Segment
  PROVE  /\ s.from \in Host /\ s.seq \in Nat /\ s.len \in 0 .. MaxLen
         /\ 0 \in 0 .. MaxLen /\ ServerStart \in Nat
         /\ s.seq + 1 \in Nat /\ rseq[h] + 1 \in Nat /\ s.seq + s.len \in Nat
         /\ lseq[h] \in Nat
         /\ {"SYN", "ACK"} \in SUBSET Flag /\ {"ACK"} \in SUBSET Flag
<1>1. s.from \in Host /\ s.seq \in Nat /\ s.len \in 0 .. MaxLen
  BY DEF Segment
<1>2. lseq[h] \in Nat /\ rseq[h] \in Nat
  BY DEF TypeOK
<1>3. 0 \in 0 .. MaxLen /\ ServerStart \in Nat
  BY TcpAssumption DEF ServerStart
<1>4. {"SYN", "ACK"} \in SUBSET Flag /\ {"ACK"} \in SUBSET Flag
  BY DEF Flag
<1>5. s.seq + 1 \in Nat /\ rseq[h] + 1 \in Nat /\ s.seq + s.len \in Nat
  BY <1>1, <1>2
<1> QED BY <1>1, <1>2, <1>3, <1>4, <1>5

LEMMA RecvType ==
  ASSUME TypeOK, NEW w \in [Host -> Seq(Segment)], NEW h \in Host, NEW s \in Segment,
         Recv(h, s, w)
  PROVE  /\ state' \in [Host -> States] /\ lseq' \in [Host -> Nat] /\ rseq' \in [Host -> Nat]
         /\ remote' \in [Host -> Host \cup {NoHost}] /\ rx' \in [Host -> Payload \cup {NoData}]
         /\ wire' \in [Host -> Seq(Segment)]
         /\ UNCHANGED <<network, listening, attempt, calls>>
<1>0. /\ s.from \in Host /\ s.seq \in Nat /\ s.len \in 0 .. MaxLen
      /\ 0 \in 0 .. MaxLen /\ ServerStart \in Nat
      /\ s.seq + 1 \in Nat /\ rseq[h] + 1 \in Nat /\ s.seq + s.len \in Nat
      /\ lseq[h] \in Nat
      /\ {"SYN", "ACK"} \in SUBSET Flag /\ {"ACK"} \in SUBSET Flag
  BY NumbersType
<1>1. CASE Accept(h, s, w)
  <2>1. Emit(w, h, s.from, {"SYN", "ACK"}, ServerStart, s.seq + 1, 0)
    BY <1>1 DEF Accept
  <2>2. wire' \in [Host -> Seq(Segment)] /\ lseq' \in [Host -> Nat]
    BY <1>0, <2>1, EmitType
  <2> QED BY <1>0, <1>1, <2>2 DEF Accept, Recv, TypeOK, States
<1>2. CASE Established(h, s, w)
  <2>1. Emit(w, h, remote[h], {"ACK"}, lseq[h], s.seq + 1, 0)
    BY <1>2 DEF Established
  <2>2. wire' \in [Host -> Seq(Segment)] /\ lseq' \in [Host -> Nat]
    BY <1>0, <2>1, EmitType
  <2> QED BY <1>0, <1>2, <2>2 DEF Established, Recv, TypeOK, States
<1>3. CASE FinWait2(h, w)
  BY <1>3 DEF FinWait2, Recv, TypeOK, States
<1>4. CASE TimeWait(h, w)
  <2>1. Emit(w, h, remote[h], {"ACK"}, lseq[h], rseq[h] + 1, 0)
    BY <1>4 DEF TimeWait
  <2>2. wire' \in [Host -> Seq(Segment)] /\ lseq' \in [Host -> Nat]
    BY <1>0, <2>1, EmitType
  <2> QED BY <1>0, <1>4, <2>2 DEF TimeWait, Recv, TypeOK, States
<1>5. CASE TakesData(h, s) /\ Take(h, s, w)
  <2>1. Emit(w, h, remote[h], {"ACK"}, lseq[h], s.seq + s.len, 0)
    BY <1>5 DEF Take, Took
  <2>2. wire' \in [Host -> Seq(Segment)] /\ lseq' \in [Host -> Nat]
    BY <1>0, <2>1, EmitType
  <2>3. [from |-> s.from, seq |-> s.seq, len |-> s.len] \in Payload
    BY <1>0, <1>5 DEF TakesData, Payload
  <2>4. rx' \in [Host -> Payload \cup {NoData}]
    BY <1>5, <2>3 DEF Take, TypeOK
  <2> QED BY <1>0, <1>5, <2>2, <2>4 DEF Take, Took, Recv, TypeOK, States
<1>6. CASE wire' = w /\ UNCHANGED <<state, lseq, rseq, remote, rx>>
  BY <1>6 DEF Recv, TypeOK
<1> QED BY <1>1, <1>2, <1>3, <1>4, <1>5, <1>6 DEF Recv

\* Under Networks, Deliver gives a segment of the wires to Recv.
LEMMA DeliverIsRecv ==
  ASSUME TypeOK, NEW h \in Host, Deliver(h)
  PROVE  /\ \E i \in 1 .. Len(wire[h]) :
               \/ Recv(h, wire[h][i], Without(h, i))
               \/ Recv(h, wire[h][i], wire)
         /\ mishaps' \in 0 .. MaxFaults
<1>1. wire[h] \in Seq(Segment) /\ Len(wire[h]) \in Nat
  BY DEF TypeOK
<1>2. wire[h] # <<>> => 1 \in 1 .. Len(wire[h])
  BY <1>1
<1>3. mishaps' \in 0 .. MaxFaults
  <2>1. mishaps \in 0 .. MaxFaults
    BY DEF TypeOK
  <2>2. mishaps' = mishaps \/ (mishaps > 0 /\ mishaps' = mishaps - 1)
    BY DEF Deliver, Mishap
  <2> QED BY <2>1, <2>2, TcpAssumption
<1>4. \E i \in 1 .. Len(wire[h]) : \/ Recv(h, wire[h][i], Without(h, i))
                                   \/ Recv(h, wire[h][i], wire)
  <2>1. CASE wire[h] # <<>> /\ Recv(h, wire[h][1], Without(h, 1))
    BY <1>2, <2>1
  <2>2. CASE \E i \in 2 .. Len(wire[h]) : Recv(h, wire[h][i], Without(h, i))
    BY <1>1, <2>2
  <2>3. CASE wire[h] # <<>> /\ Recv(h, wire[h][1], wire)
    BY <1>2, <2>3
  <2> QED BY <2>1, <2>2, <2>3 DEF Deliver
<1> QED BY <1>3, <1>4

LEMMA CallType ==
  ASSUME TypeOK, NEW h \in Host, Call(h)
  PROVE  calls' \in 0 .. MaxCalls /\ UNCHANGED <<network, mishaps>>
BY TcpAssumption DEF Call, TypeOK

LEMMA TypeStep == TypeOK /\ [Next]_vars => TypeOK'
<1> SUFFICES ASSUME TypeOK, [Next]_vars PROVE TypeOK'
  OBVIOUS
<1> DEFINE AllSegments == [k \in Host |-> Segment]
<1>0. AllSegments \in [Host -> SUBSET Segment] /\ \A k \in Host : AllSegments[k] = Segment
  OBVIOUS
<1>t. /\ wire \in [Host -> Seq(Segment)] /\ \A k \in Host : lseq[k] \in Nat /\ rseq[k] \in Nat
      /\ 0 \in 0 .. MaxLen
  BY TcpAssumption DEF TypeOK
<1> HIDE DEF AllSegments
<1>1. ASSUME NEW h \in Host, Listen(h) PROVE TypeOK'
  BY <1>1, CallType DEF Listen, TypeOK, States
<1>2. ASSUME NEW h \in Host, NEW g \in Host \ {h}, Connect(h, g) PROVE TypeOK'
  <2>1. Emit(wire, h, g, {"SYN"}, lseq[h], rseq[h], 0)
    BY <1>2 DEF Connect, SendSyn
  <2>2. {"SYN"} \in SUBSET Flag
    BY DEF Flag
  <2>3. wire' \in [Host -> Seq(Segment)] /\ lseq' \in [Host -> Nat]
    BY <1>t, <2>1, <2>2, EmitType
  <2>4. attempt' \in [Host -> 0 .. Attempts]
    BY <1>2, TcpAssumption DEF Connect, TypeOK
  <2> QED BY <1>2, <2>3, <2>4, CallType DEF Connect, TypeOK, States
<1>3. ASSUME NEW h \in Host, Waited(h) PROVE TypeOK'
  <2>1. attempt' \in [Host -> 0 .. Attempts]
    <3>1. attempt \in [Host -> 0 .. Attempts] /\ 0 \in 0 .. Attempts
      BY TcpAssumption DEF TypeOK
    <3>2. \/ attempt' = [attempt EXCEPT ![h] = 0]
          \/ attempt[h] < Attempts /\ attempt' = [attempt EXCEPT ![h] = attempt[h] + 1]
      BY <1>3 DEF Waited, MoreAttempts
    <3>3. attempt[h] < Attempts => attempt[h] + 1 \in 0 .. Attempts
      BY <3>1, TcpAssumption
    <3> QED BY <3>1, <3>2, <3>3
  <2>2. state' \in [Host -> States]
    BY <1>3 DEF Waited, TypeOK, States
  <2>3. wire' \in [Host -> Seq(Segment)] /\ lseq' \in [Host -> Nat]
    <3>1. CASE UNCHANGED <<lseq, wire>>
      BY <3>1 DEF TypeOK
    <3>2. CASE SendSyn(h, remote[h])
      <4>1. {"SYN"} \in SUBSET Flag
        BY DEF Flag
      <4> QED BY <1>t, <3>2, <4>1, EmitType DEF SendSyn
    <3> QED BY <1>3, <3>1, <3>2 DEF Waited
  <2> QED BY <1>3, <2>1, <2>2, <2>3 DEF Waited, TypeOK
<1>4. ASSUME NEW h \in Host, NEW n \in 1 .. MaxLen, SendData(h, n) PROVE TypeOK'
  <2>1. {"ACK", "PSH"} \in SUBSET Flag /\ n \in 0 .. MaxLen
    BY DEF Flag
  <2>2. Emit(wire, h, remote[h], {"ACK", "PSH"}, lseq[h], rseq[h], n)
    BY <1>4 DEF SendData
  <2>3. wire' \in [Host -> Seq(Segment)] /\ lseq' \in [Host -> Nat]
    BY <1>t, <2>1, <2>2, EmitType
  <2> QED BY <1>4, <2>3, CallType DEF SendData, TypeOK
<1>5. ASSUME NEW h \in Host, Close(h) PROVE TypeOK'
  <2>1. {"FIN", "ACK"} \in SUBSET Flag
    BY DEF Flag
  <2>2. Emit(wire, h, remote[h], {"FIN", "ACK"}, lseq[h], rseq[h], 0)
    BY <1>5 DEF Close
  <2>3. wire' \in [Host -> Seq(Segment)] /\ lseq' \in [Host -> Nat]
    BY <1>t, <2>1, <2>2, EmitType
  <2> QED BY <1>5, <2>3, CallType DEF Close, TypeOK, States
<1>6. ASSUME NEW h \in Host, Fetch(h) PROVE TypeOK'
  BY <1>6 DEF Fetch, TypeOK, conn
<1>7. ASSUME NEW h \in Host, Deliver(h) PROVE TypeOK'
  <2>1. PICK i \in 1 .. Len(wire[h]) : \/ Recv(h, wire[h][i], Without(h, i))
                                       \/ Recv(h, wire[h][i], wire)
    BY <1>7, DeliverIsRecv
  <2>2. wire[h][i] \in Segment
    BY <1>t
  <2>3. Without(h, i) \in [Host -> Seq(Segment)]
    BY <1>0, <1>t, WithoutType
  <2>4. PICK w \in [Host -> Seq(Segment)] : Recv(h, wire[h][i], w)
    BY <1>t, <2>1, <2>3
  <2>5. mishaps' \in 0 .. MaxFaults
    BY <1>7, DeliverIsRecv
  <2>6. /\ state' \in [Host -> States] /\ lseq' \in [Host -> Nat] /\ rseq' \in [Host -> Nat]
        /\ remote' \in [Host -> Host \cup {NoHost}] /\ rx' \in [Host -> Payload \cup {NoData}]
        /\ wire' \in [Host -> Seq(Segment)]
        /\ UNCHANGED <<network, listening, attempt, calls>>
    BY <2>2, <2>4, RecvType
  <2> QED BY <2>5, <2>6 DEF TypeOK
<1>8. ASSUME NEW h \in Host, Lose(h) PROVE TypeOK'
  <2>1. 1 \in 1 .. Len(wire[h])
    BY <1>8, <1>t DEF Lose
  <2>2. wire' \in [Host -> Seq(Segment)]
    BY <1>8, <1>0, <1>t, <2>1, WithoutType DEF Lose
  <2>3. mishaps' \in 0 .. MaxFaults
    BY <1>8, TcpAssumption DEF Lose, Mishap, TypeOK
  <2> QED BY <1>8, <2>2, <2>3 DEF Lose, TypeOK, conn
<1>9. CASE UNCHANGED vars
  BY <1>9 DEF vars, conn, TypeOK
<1> QED BY <1>1, <1>2, <1>3, <1>4, <1>5, <1>6, <1>7, <1>8, <1>9 DEF Next

\* Every variable of every host keeps its type, whatever the network does.
THEOREM TypeCorrect == Spec => []TypeOK
<1>1. Init => TypeOK
  BY TcpAssumption DEF Init, TypeOK, States, ClientStart
<1>2. TypeOK /\ [Next]_vars => TypeOK'
  BY TypeStep
<1> QED BY <1>1, <1>2, PTL DEF Spec

-----------------------------------------------------------------------------
(* Two hosts that call tcp_listen only when they have no connection.        *)

TwoHosts == ~Relisten /\ \E a, b \in Host : a # b /\ Host = {a, b}

Ended(h) == state[h] \in {"fin_wait_1", "fin_wait_2", "time_wait"} /\ attempt[h] = 0

Fin(s) == "FIN" \in s.flags

\* What is on the way to h comes from the other end, which knows its peer; a FIN
\* was sent by an end that stays ended, and h knows that peer.
Proper(h, s) ==
    /\ s.from # h /\ remote[s.from] = h
    /\ "FIN" \in s.flags => Ended(s.from) /\ remote[h] = s.from

PeerInv ==
    /\ TwoHosts /\ TypeOK
    /\ \A h \in Host :
        /\ \A i \in 1 .. Len(wire[h]) : Proper(h, wire[h][i])
        /\ remote[h] # h
        /\ \/ state[h] \in {"syn_sent", "established", "time_wait"}
           \/ attempt[h] > 0
           => remote[h] \in Host
        /\ state[h] = "established" => remote[remote[h]] = h
        /\ state[h] = "time_wait" => Ended(remote[h])

LEMMA Other ==
  ASSUME TwoHosts, NEW h \in Host, NEW g \in Host \ {h}
  PROVE  Host = {h, g}
BY DEF TwoHosts

LEMMA RemoveAtAt ==
  ASSUME NEW u \in Seq(Segment), NEW i \in 1 .. Len(u)
  PROVE  /\ RemoveAt(u, i) \in Seq(Segment) /\ Len(RemoveAt(u, i)) = Len(u) - 1
         /\ \A j \in 1 .. Len(u) - 1 :
               RemoveAt(u, i)[j] = IF j < i THEN u[j] ELSE u[j + 1]
<1> DEFINE l == SubSeq(u, 1, i - 1)
           r == SubSeq(u, i + 1, Len(u))
<1>0. Len(u) \in Nat /\ i \in Nat /\ 1 <= i /\ i <= Len(u)
  OBVIOUS
<1>1. l \in Seq(Segment) /\ Len(l) = i - 1 /\ \A j \in 1 .. i - 1 : l[j] = u[j]
  BY <1>0
<1>2. r \in Seq(Segment) /\ Len(r) = Len(u) - i /\ \A j \in 1 .. Len(u) - i : r[j] = u[i + j]
  BY <1>0
<1>3. RemoveAt(u, i) = l \o r
  BY DEF RemoveAt
<1> HIDE DEF l, r
<1>4. Len(l \o r) = Len(u) - 1
  <2>1. l \in Seq(Segment) /\ r \in Seq(Segment)
    BY <1>1, <1>2
  <2>2. Len(l \o r) = Len(l) + Len(r)
    BY <2>1
  <2> QED BY <1>0, <1>1, <1>2, <2>2
<1>5. ASSUME NEW j \in 1 .. Len(u) - 1
      PROVE  (l \o r)[j] = IF j < i THEN u[j] ELSE u[j + 1]
  <2>1. CASE j < i
    <3>1. j \in 1 .. Len(l)
      BY <1>0, <1>1, <2>1
    <3>2. (l \o r)[j] = l[j]
      BY <1>1, <1>2, <3>1
    <3> QED BY <1>0, <1>1, <2>1, <3>2
  <2>2. CASE ~(j < i)
    <3>1. j - (i - 1) \in 1 .. Len(u) - i /\ i + (j - (i - 1)) = j + 1
      BY <1>0, <2>2
    <3>2. (l \o r)[j] = r[j - (i - 1)]
      BY <1>0, <1>1, <1>2, <2>2
    <3> QED BY <1>2, <2>2, <3>1, <3>2
  <2> QED BY <2>1, <2>2
<1> QED BY <1>1, <1>2, <1>3, <1>4, <1>5

\* What tcp_send_packet does to a wire and to local_seq.
LEMMA Emitted ==
  ASSUME TypeOK, NEW w \in [Host -> Seq(Segment)], NEW h \in Host, NEW g \in Host,
         NEW flags \in SUBSET Flag, NEW l \in Nat, NEW r \in Nat, NEW n \in 0 .. MaxLen,
         Emit(w, h, g, flags, l, r, n)
  PROVE  \E s \in Segment :
            /\ s.from = h /\ s.flags = flags /\ s.seq = l /\ s.len = n
            /\ wire'[g] = Append(w[g], s) /\ \A k \in Host \ {g} : wire'[k] = w[k]
            /\ lseq'[h] = Advance(s) /\ \A k \in Host \ {h} : lseq'[k] = lseq[k]
<1> DEFINE s == [from |-> h, flags |-> flags, seq |-> l, ack |-> r, len |-> n]
<1>1. s \in Segment /\ s.from = h /\ s.flags = flags /\ s.seq = l /\ s.len = n
  BY DEF Segment
<1>2. wire' = Sent(w, g, s) /\ lseq' = [lseq EXCEPT ![h] = Advance(s)]
  BY DEF Emit
<1> HIDE DEF s
<1>3. wire' = [w EXCEPT ![g] = Append(w[g], s)]
  BY <1>2 DEF Sent
<1>4. wire'[g] = Append(w[g], s) /\ \A k \in Host \ {g} : wire'[k] = w[k]
  BY <1>3
<1>5. lseq'[h] = Advance(s) /\ \A k \in Host \ {h} : lseq'[k] = lseq[k]
  BY <1>2 DEF TypeOK
<1> QED BY <1>1, <1>4, <1>5

-----------------------------------------------------------------------------
(* A connection is torn down by its peer.                                   *)

\* A step of h that changes nothing of the other host, loses a segment to h at
\* most, and sends the other host one segment at most.
LEMMA PeerStep ==
  ASSUME PeerInv, TypeOK', NEW h \in Host, NEW g \in Host \ {h},
         UNCHANGED <<state[g], remote[g], attempt[g]>>,
         Ended(h) => Ended(h)', remote'[h] \in {remote[h], g},
         \/ wire'[h] = wire[h]
         \/ \E i \in 1 .. Len(wire[h]) : wire'[h] = RemoveAt(wire[h], i),
         \/ wire'[g] = wire[g]
         \/ \E s \in Segment : wire'[g] = Append(wire[g], s) /\ Proper(g, s)',
         state'[h] \in {"syn_sent", "established", "time_wait"} \/ attempt'[h] > 0
           => remote'[h] = g,
         state'[h] = "established" => remote[g] = h,
         state'[h] = "time_wait" => Ended(g)
  PROVE  PeerInv'
<1>1. Host = {h, g} /\ h # g
  BY Other DEF PeerInv
<1>2. wire[h] \in Seq(Segment) /\ wire[g] \in Seq(Segment)
  BY DEF PeerInv, TypeOK
<1>3. Ended(g) <=> Ended(g)'
  BY DEF Ended
<1>4. remote[g] \in {h, NoHost} /\ remote[h] \in {g, NoHost} /\ NoHost \notin Host
  BY <1>1, TcpAssumption DEF PeerInv, TypeOK
<1>5. ASSUME NEW s \in Segment, Proper(h, s) PROVE Proper(h, s)'
  BY <1>1, <1>3, <1>4, <1>5 DEF Proper, Segment
<1>6. ASSUME NEW s \in Segment, Proper(g, s) PROVE Proper(g, s)'
  BY <1>1, <1>3, <1>4, <1>6 DEF Proper, Segment
<1>7. ASSUME NEW j \in 1 .. Len(wire'[h]) PROVE Proper(h, wire[h][j])'
  <2>1. \E i \in 1 .. Len(wire[h]) : wire'[h][j] = wire[h][i]
    <3>1. CASE wire'[h] = wire[h]
      BY <3>1
    <3>2. ASSUME NEW i \in 1 .. Len(wire[h]), wire'[h] = RemoveAt(wire[h], i)
          PROVE  \E p \in 1 .. Len(wire[h]) : wire'[h][j] = wire[h][p]
      <4>1. /\ Len(RemoveAt(wire[h], i)) = Len(wire[h]) - 1
            /\ \A p \in 1 .. Len(wire[h]) - 1 :
                 RemoveAt(wire[h], i)[p] = IF p < i THEN wire[h][p] ELSE wire[h][p + 1]
        BY <1>2, RemoveAtAt
      <4>2. j \in 1 .. Len(wire[h]) - 1 /\ Len(wire[h]) \in Nat
        BY <1>2, <3>2, <4>1
      <4>3. j \in 1 .. Len(wire[h]) /\ j + 1 \in 1 .. Len(wire[h])
        BY <4>2
      <4> QED BY <3>2, <4>1, <4>2, <4>3
    <3> QED BY <3>1, <3>2
  <2>2. PICK i \in 1 .. Len(wire[h]) : wire'[h][j] = wire[h][i]
    BY <2>1
  <2>3. wire[h][i] \in Segment /\ Proper(h, wire[h][i])
    BY <1>2 DEF PeerInv
  <2>4. PICK s \in Segment : s = wire'[h][j] /\ Proper(h, s)
    BY <2>2, <2>3
  <2>5. Proper(h, s)'
    BY <1>5, <2>4
  <2> QED BY <2>4, <2>5 DEF Proper, Ended
<1>8. ASSUME NEW j \in 1 .. Len(wire'[g]) PROVE Proper(g, wire[g][j])'
  <2>1. CASE wire'[g] = wire[g]
    <3>1. PICK s \in Segment : s = wire'[g][j] /\ Proper(g, s)
      BY <1>2, <2>1 DEF PeerInv
    <3>2. Proper(g, s)'
      BY <1>6, <3>1
    <3> QED BY <3>1, <3>2 DEF Proper, Ended
  <2>2. ASSUME NEW s \in Segment, wire'[g] = Append(wire[g], s), Proper(g, s)'
        PROVE  Proper(g, wire[g][j])'
    <3>1. CASE j \in 1 .. Len(wire[g])
      <4>1. wire'[g][j] = wire[g][j]
        BY <1>2, <2>2, <3>1
      <4>2. PICK p \in Segment : p = wire'[g][j] /\ Proper(g, p)
        BY <1>2, <3>1, <4>1 DEF PeerInv
      <4>3. Proper(g, p)'
        BY <1>6, <4>2
      <4> QED BY <4>2, <4>3 DEF Proper, Ended
    <3>2. CASE j \notin 1 .. Len(wire[g])
      <4>1. wire'[g][j] = s
        BY <1>2, <2>2, <3>2
      <4> QED BY <2>2, <4>1 DEF Proper, Ended
    <3> QED BY <3>1, <3>2
  <2> QED BY <2>1, <2>2
<1>9. \A k \in Host : \A i \in 1 .. Len(wire'[k]) : Proper(k, wire[k][i])'
  BY <1>1, <1>7, <1>8
<1>10. /\ remote'[h] # h
       /\ state'[h] \in {"syn_sent", "established", "time_wait"} \/ attempt'[h] > 0
            => remote'[h] \in Host
       /\ state'[h] = "established" => remote'[remote'[h]] = h
       /\ state'[h] = "time_wait" => Ended(remote[h])'
  <2>1. state'[h] = "time_wait" => Ended(remote[h])'
    BY <1>3 DEF Ended
  <2> QED BY <1>1, <1>4, <2>1
<1>11. /\ remote'[g] # g
       /\ state'[g] \in {"syn_sent", "established", "time_wait"} \/ attempt'[g] > 0
            => remote'[g] \in Host
       /\ state'[g] = "established" => remote'[remote'[g]] = g
       /\ state'[g] = "time_wait" => Ended(remote[g])'
  <2>1. state[g] = "time_wait" => remote[g] = h /\ Ended(h)
    BY <1>1, <1>4 DEF PeerInv
  <2>2. state'[g] = "time_wait" => Ended(remote[g])'
    BY <2>1 DEF Ended
  <2>3. state[g] = "established" => remote[g] = h /\ remote[h] = g
    BY <1>1, <1>4 DEF PeerInv
  <2>4. state[g] \in {"syn_sent", "established", "time_wait"} \/ attempt[g] > 0
          => remote[g] \in Host
    BY DEF PeerInv
  <2> QED BY <1>1, <1>4, <2>2, <2>3, <2>4
<1>12. TwoHosts'
  BY DEF PeerInv, TwoHosts
<1> QED BY <1>1, <1>9, <1>10, <1>11, <1>12 DEF PeerInv

\* What tcp_send_packet sends to the peer is proper, unless it is a FIN.
LEMMA PeerEmits ==
  ASSUME PeerInv, NEW w \in [Host -> Seq(Segment)], NEW h \in Host, NEW g \in Host \ {h},
         w[g] = wire[g], NEW flags \in SUBSET Flag, NEW l \in Nat, NEW r \in Nat,
         NEW n \in 0 .. MaxLen, Emit(w, h, g, flags, l, r, n),
         remote'[h] = g, "FIN" \in flags => Ended(h)' /\ remote'[g] = h
  PROVE  /\ wire'[h] = w[h]
         /\ \E s \in Segment : wire'[g] = Append(wire[g], s) /\ Proper(g, s)'
<1>1. PICK s \in Segment :
         /\ s.from = h /\ s.flags = flags /\ s.seq = l /\ s.len = n
         /\ wire'[g] = Append(w[g], s) /\ \A k \in Host \ {g} : wire'[k] = w[k]
         /\ lseq'[h] = Advance(s) /\ \A k \in Host \ {h} : lseq'[k] = lseq[k]
  <2>1. TypeOK
    BY DEF PeerInv
  <2>2. g \in Host
    OBVIOUS
  <2> QED BY ONLY <2>1, <2>2, w \in [Host -> Seq(Segment)], h \in Host,
                  flags \in SUBSET Flag, l \in Nat, r \in Nat, n \in 0 .. MaxLen,
                  Emit(w, h, g, flags, l, r, n), Emitted
<1>2. Proper(g, s)'
  BY <1>1 DEF Proper, Ended
<1> QED BY <1>1, <1>2

LEMMA PeerRecv ==
  ASSUME PeerInv, TypeOK', NEW h \in Host, NEW i \in 1 .. Len(wire[h]),
         NEW w \in [Host -> Seq(Segment)],
         w[h] \in {wire[h], RemoveAt(wire[h], i)}, \A k \in Host \ {h} : w[k] = wire[k],
         Recv(h, wire[h][i], w)
  PROVE  PeerInv'
<1>1. PICK s \in Segment : s = wire[h][i]
  BY DEF PeerInv, TypeOK
<1>2. Proper(h, s) /\ Recv(h, s, w)
  BY <1>1 DEF PeerInv
<1>3. PICK g \in Host \ {h} : g = s.from
  BY <1>2 DEF Proper, Segment
<1>4. /\ Host = {h, g} /\ h # g /\ remote[g] = h /\ remote[h] \in {g, NoHost}
      /\ NoHost \notin Host
      /\ Fin(s) => Ended(g) /\ remote[h] = g
  <2>1. Host = {h, g} /\ h # g
    BY <1>3, Other DEF PeerInv
  <2>2. remote[h] \in Host \cup {NoHost} /\ remote[h] # h
    BY DEF PeerInv, TypeOK
  <2>3. Fin(s) => Ended(g) /\ remote[h] = g
    BY <1>2, <1>3 DEF Proper, Fin
  <2>4. remote[g] = h
    BY <1>2, <1>3 DEF Proper
  <2> QED BY <2>1, <2>2, <2>3, <2>4, TcpAssumption
<1>5. state[h] \in {"syn_sent", "established", "time_wait"} \/ attempt[h] > 0 => remote[h] = g
  BY <1>4 DEF PeerInv
<1>6. state[h] = "time_wait" => Ended(g)
  BY <1>5 DEF PeerInv
<1>7. UNCHANGED <<state[g], remote[g], attempt[g], attempt[h]>>
  BY <1>2, <1>4 DEF Recv, Accept, Established, FinWait2, TimeWait, Take, PeerInv, TypeOK
<1>t. state \in [Host -> States] /\ remote \in [Host -> Host \cup {NoHost}]
  BY DEF PeerInv, TypeOK
<1>8. /\ Ended(h) => Ended(h)'
      /\ remote'[h] \in {remote[h], g}
      /\ state'[h] \in {"syn_sent", "established", "time_wait"} \/ attempt'[h] > 0
           => remote'[h] = g
      /\ state'[h] = "time_wait" => Ended(g)
  <2>1. CASE Accepts(h, s) /\ Accept(h, s, w)
    BY <1>t, <1>3, <1>4, <1>5, <1>6, <1>7, <2>1 DEF Accepts, Accept, Ended
  <2>2. CASE Connects(h, s) /\ Established(h, s, w)
    BY <1>t, <1>3, <1>4, <1>5, <1>6, <1>7, <2>2 DEF Connects, Established, Ended
  <2>3. CASE FinAcked(h, s) /\ FinWait2(h, w)
    BY <1>t, <1>4, <1>5, <1>6, <1>7, <2>3 DEF FinAcked, FinWait2, Ended
  <2>4. CASE Finished(h, s) /\ TimeWait(h, w)
    BY <1>t, <1>4, <1>5, <1>6, <1>7, <2>4 DEF Finished, Fin, TimeWait, Ended
  <2>5. CASE UNCHANGED <<state, remote>>
    BY <1>4, <1>5, <1>6, <1>7, <2>5 DEF Ended
  <2> QED BY <1>2, <2>1, <2>2, <2>3, <2>4, <2>5 DEF Recv, Take
<1>9. state'[h] = "established" => remote[g] = h
  BY <1>4
<1>10. /\ wire'[h] = w[h]
       /\ \/ wire'[g] = wire[g]
          \/ \E p \in Segment : wire'[g] = Append(wire[g], p) /\ Proper(g, p)'
  <2>1. /\ s.seq \in Nat /\ s.len \in 0 .. MaxLen /\ s.seq + 1 \in Nat /\ s.seq + s.len \in Nat
        /\ lseq[h] \in Nat /\ rseq[h] + 1 \in Nat /\ 0 \in 0 .. MaxLen /\ ServerStart \in Nat
        /\ {"SYN", "ACK"} \in SUBSET Flag /\ {"ACK"} \in SUBSET Flag
    BY NumbersType DEF PeerInv
  <2>2. CASE Accepts(h, s) /\ Accept(h, s, w)
    <3>1. Emit(w, h, g, {"SYN", "ACK"}, ServerStart, s.seq + 1, 0) /\ remote'[h] = g
      BY <1>3, <2>2 DEF Accept, PeerInv, TypeOK
    <3>2. "FIN" \notin {"SYN", "ACK"} /\ w[g] = wire[g]
      BY <1>4
    <3> QED BY <2>1, <3>1, <3>2, PeerEmits
  <2>3. CASE Connects(h, s) /\ Established(h, s, w)
    <3>1. Emit(w, h, g, {"ACK"}, lseq[h], s.seq + 1, 0) /\ remote'[h] = g
      BY <1>5, <2>3 DEF Connects, Established
    <3>2. "FIN" \notin {"ACK"} /\ w[g] = wire[g]
      BY <1>4
    <3> QED BY <2>1, <3>1, <3>2, PeerEmits
  <2>4. CASE Finished(h, s) /\ TimeWait(h, w)
    <3>1. Emit(w, h, g, {"ACK"}, lseq[h], rseq[h] + 1, 0) /\ remote'[h] = g
      BY <1>4, <2>4 DEF Finished, Fin, TimeWait
    <3>2. "FIN" \notin {"ACK"} /\ w[g] = wire[g]
      BY <1>4
    <3> QED BY <2>1, <3>1, <3>2, PeerEmits
  <2>5. CASE TakesData(h, s) /\ Take(h, s, w)
    <3>1. Emit(w, h, g, {"ACK"}, lseq[h], s.seq + s.len, 0) /\ remote'[h] = g
      BY <1>5, <2>5 DEF TakesData, Take, Took
    <3>2. "FIN" \notin {"ACK"} /\ w[g] = wire[g]
      BY <1>4
    <3> QED BY <2>1, <3>1, <3>2, PeerEmits
  <2>6. CASE wire' = w
    BY <1>4, <2>6
  <2> QED BY <1>2, <2>2, <2>3, <2>4, <2>5, <2>6 DEF Recv, FinWait2
<1>11. \/ wire'[h] = wire[h]
       \/ \E p \in 1 .. Len(wire[h]) : wire'[h] = RemoveAt(wire[h], p)
  BY <1>10
<1> QED BY <1>7, <1>8, <1>9, <1>10, <1>11, PeerStep

LEMMA WithoutIs ==
  ASSUME TypeOK, NEW h \in Host, NEW i \in 1 .. Len(wire[h])
  PROVE  /\ Without(h, i) \in [Host -> Seq(Segment)]
         /\ Without(h, i)[h] = RemoveAt(wire[h], i)
         /\ \A k \in Host \ {h} : Without(h, i)[k] = wire[k]
<1>1. wire \in [Host -> Seq(Segment)] /\ wire[h] \in Seq(Segment)
  BY DEF TypeOK
<1>2. RemoveAt(wire[h], i) \in Seq(Segment)
  BY <1>1, RemoveAtType
<1>3. Without(h, i) = [wire EXCEPT ![h] = RemoveAt(wire[h], i)]
  BY DEF Without
<1> QED BY <1>1, <1>2, <1>3

LEMMA PeerInvStep == PeerInv /\ [Next]_vars => PeerInv'
<1> SUFFICES ASSUME PeerInv, [Next]_vars PROVE PeerInv'
  OBVIOUS
<1>0. TypeOK /\ TypeOK' /\ TwoHosts
  BY TypeStep DEF PeerInv
<1>t. /\ state \in [Host -> States] /\ remote \in [Host -> Host \cup {NoHost}]
      /\ attempt \in [Host -> 0 .. Attempts] /\ wire \in [Host -> Seq(Segment)]
      /\ \A k \in Host : lseq[k] \in Nat /\ rseq[k] \in Nat
      /\ 0 \in 0 .. MaxLen /\ NoHost \notin Host
      /\ {"SYN"} \in SUBSET Flag /\ {"ACK", "PSH"} \in SUBSET Flag /\ {"FIN", "ACK"} \in SUBSET Flag
  BY <1>0, TcpAssumption DEF TypeOK, Flag
<1>a. ASSUME NEW h \in Host
      PROVE  \E g \in Host \ {h} : remote[g] \in {h, NoHost} /\ remote[h] \in {g, NoHost}
  BY <1>0, <1>t DEF TwoHosts, PeerInv
<1>1. ASSUME NEW h \in Host, Listen(h) PROVE PeerInv'
  <2>1. PICK g \in Host \ {h} : remote[h] \in {g, NoHost}
    BY <1>a
  <2>2. UNCHANGED <<remote, attempt, wire>> /\ attempt[h] = 0 /\ state[h] = "closed"
    BY <1>0, <1>1 DEF Listen, Call, TwoHosts
  <2>3. state' = [state EXCEPT ![h] = "closed"]
    BY <1>1 DEF Listen
  <2>4. state'[h] = "closed" /\ state'[g] = state[g]
    BY <1>t, <2>3
  <2>5. Ended(h) => Ended(h)'
    BY <2>2 DEF Ended
  <2> QED BY <1>0, <2>1, <2>2, <2>4, <2>5, PeerStep
<1>2. ASSUME NEW h \in Host, NEW g \in Host \ {h}, Connect(h, g) PROVE PeerInv'
  <2>1. Emit(wire, h, g, {"SYN"}, lseq[h], rseq[h], 0) /\ state[h] = "closed"
    BY <1>2 DEF Connect, SendSyn
  <2>2. remote'[h] = g /\ state'[h] = "syn_sent" /\ UNCHANGED <<state[g], remote[g], attempt[g]>>
    BY <1>2, <1>t DEF Connect
  <2>3. /\ wire'[h] = wire[h]
        /\ \E s \in Segment : wire'[g] = Append(wire[g], s) /\ Proper(g, s)'
    <3>1. "FIN" \notin {"SYN"}
      OBVIOUS
    <3> QED BY <1>t, <2>1, <2>2, <3>1, PeerEmits
  <2>4. Ended(h) => Ended(h)'
    BY <2>1 DEF Ended
  <2> QED BY <1>0, <2>2, <2>3, <2>4, PeerStep
<1>3. ASSUME NEW h \in Host, Waited(h) PROVE PeerInv'
  <2>1. PICK g \in Host \ {h} : remote[g] \in {h, NoHost} /\ remote[h] \in {g, NoHost}
    BY <1>a
  <2>2. remote' = remote /\ attempt[h] > 0 /\ UNCHANGED <<state[g], attempt[g]>>
    BY <1>3, <1>t DEF Waited
  <2>3. remote[h] = g
    BY <1>t, <2>1, <2>2 DEF PeerInv
  <2>4. state'[h] = state[h] \/ state'[h] = "closed"
    BY <1>3, <1>t DEF Waited
  <2>5. /\ wire'[h] = wire[h]
        /\ \/ wire'[g] = wire[g]
           \/ \E s \in Segment : wire'[g] = Append(wire[g], s) /\ Proper(g, s)'
    <3>1. CASE SendSyn(h, remote[h])
      <4>1. Emit(wire, h, g, {"SYN"}, lseq[h], rseq[h], 0) /\ remote'[h] = g
        BY <2>2, <2>3, <3>1 DEF SendSyn
      <4>2. "FIN" \notin {"SYN"}
        OBVIOUS
      <4> QED BY <1>t, <4>1, <4>2, PeerEmits
    <3> QED BY <1>3, <3>1 DEF Waited
  <2>6. Ended(h) => Ended(h)'
    BY <1>t, <2>2 DEF Ended
  <2>7. /\ state[h] = "established" => remote[g] = h
        /\ state[h] = "time_wait" => Ended(g)
    BY <2>3 DEF PeerInv
  <2> QED BY <1>0, <2>2, <2>3, <2>4, <2>5, <2>6, <2>7, PeerStep
<1>4. ASSUME NEW h \in Host, NEW n \in 1 .. MaxLen, SendData(h, n) PROVE PeerInv'
  <2>1. PICK g \in Host \ {h} : remote[g] \in {h, NoHost} /\ remote[h] \in {g, NoHost}
    BY <1>a
  <2>2. state[h] = "established" /\ UNCHANGED <<state, remote, attempt>>
    BY <1>4 DEF SendData
  <2>3. remote[h] = g /\ remote[g] = h
    BY <1>t, <2>1, <2>2 DEF PeerInv
  <2>4. /\ wire'[h] = wire[h]
        /\ \E s \in Segment : wire'[g] = Append(wire[g], s) /\ Proper(g, s)'
    <3>1. Emit(wire, h, g, {"ACK", "PSH"}, lseq[h], rseq[h], n) /\ remote'[h] = g
      BY <1>4, <2>2, <2>3 DEF SendData
    <3>2. "FIN" \notin {"ACK", "PSH"} /\ n \in 0 .. MaxLen
      OBVIOUS
    <3> QED BY <1>t, <3>1, <3>2, PeerEmits
  <2>5. Ended(h) => Ended(h)'
    BY <2>2 DEF Ended
  <2> QED BY <1>0, <2>2, <2>3, <2>4, <2>5, PeerStep
<1>5. ASSUME NEW h \in Host, Close(h) PROVE PeerInv'
  <2>1. PICK g \in Host \ {h} : remote[g] \in {h, NoHost} /\ remote[h] \in {g, NoHost}
    BY <1>a
  <2>2. state[h] = "established" /\ attempt[h] = 0 /\ UNCHANGED <<remote, attempt>>
    BY <1>5 DEF Close, Call
  <2>3. remote[h] = g /\ remote[g] = h
    BY <1>t, <2>1, <2>2 DEF PeerInv
  <2>4. state'[h] = "fin_wait_1" /\ state'[g] = state[g]
    BY <1>5, <1>t DEF Close
  <2>5. Ended(h)'
    BY <2>2, <2>4 DEF Ended
  <2>6. /\ wire'[h] = wire[h]
        /\ \E s \in Segment : wire'[g] = Append(wire[g], s) /\ Proper(g, s)'
    <3>1. Emit(wire, h, g, {"FIN", "ACK"}, lseq[h], rseq[h], 0) /\ remote'[h] = g /\ remote'[g] = h
      BY <1>5, <2>2, <2>3 DEF Close
    <3> QED BY <1>t, <2>5, <3>1, PeerEmits
  <2> QED BY <1>0, <2>2, <2>3, <2>4, <2>5, <2>6, PeerStep
<1>6. ASSUME NEW h \in Host, Fetch(h) PROVE PeerInv'
  BY <1>0, <1>6 DEF Fetch, conn, PeerInv, Proper, Ended, TwoHosts
<1>7. ASSUME NEW h \in Host, Deliver(h) PROVE PeerInv'
  <2>1. PICK i \in 1 .. Len(wire[h]) : \/ Recv(h, wire[h][i], Without(h, i))
                                       \/ Recv(h, wire[h][i], wire)
    BY <1>0, <1>7, DeliverIsRecv
  <2>2. CASE Recv(h, wire[h][i], Without(h, i))
    <3>1. /\ Without(h, i) \in [Host -> Seq(Segment)]
          /\ Without(h, i)[h] \in {wire[h], RemoveAt(wire[h], i)}
          /\ \A k \in Host \ {h} : Without(h, i)[k] = wire[k]
      BY <1>0, WithoutIs
    <3> QED BY <1>0, <2>2, <3>1, PeerRecv
  <2>3. CASE Recv(h, wire[h][i], wire)
    BY <1>0, <1>t, <2>3, PeerRecv
  <2> QED BY <2>1, <2>2, <2>3
<1>8. ASSUME NEW h \in Host, Lose(h) PROVE PeerInv'
  <2>1. PICK g \in Host \ {h} : remote[h] \in {g, NoHost} /\ remote[g] \in {h, NoHost}
    BY <1>a
  <2>2. UNCHANGED <<state, remote, attempt>> /\ wire' = Without(h, 1) /\ wire[h] # <<>>
    BY <1>8 DEF Lose, conn
  <2>3. 1 \in 1 .. Len(wire[h])
    BY <1>t, <2>2
  <2>4. wire'[h] = RemoveAt(wire[h], 1) /\ wire'[g] = wire[g]
    BY <1>0, <2>2, <2>3, WithoutIs
  <2>5. /\ state[h] \in {"syn_sent", "established", "time_wait"} \/ attempt[h] > 0 => remote[h] = g
        /\ state[h] = "established" => remote[g] = h
        /\ state[h] = "time_wait" => Ended(g)
    BY <1>t, <2>1 DEF PeerInv
  <2>6. Ended(h) => Ended(h)'
    BY <2>2 DEF Ended
  <2> QED BY <1>0, <2>2, <2>3, <2>4, <2>5, <2>6, PeerStep
<1>9. CASE UNCHANGED vars
  BY <1>0, <1>9 DEF vars, conn, PeerInv, Proper, Ended, TwoHosts
<1> QED BY <1>1, <1>2, <1>3, <1>4, <1>5, <1>6, <1>7, <1>8, <1>9 DEF Next

LEMMA PeerInvInit == TwoHosts /\ Init => PeerInv
<1> SUFFICES ASSUME TwoHosts, Init PROVE PeerInv
  OBVIOUS
<1>1. TypeOK
  BY TcpAssumption DEF Init, TypeOK, States, ClientStart
<1>2. ASSUME NEW h \in Host
      PROVE  /\ wire[h] = <<>> /\ remote[h] = NoHost /\ state[h] = "closed" /\ attempt[h] = 0
  BY DEF Init
<1> QED BY <1>1, <1>2, TcpAssumption DEF PeerInv

\* A connection of two hosts goes to TIME_WAIT only after the other end closed
\* it, however often segments are lost, repeated or reordered and a tcp_connect
\* is tried again: tcp_recv takes a FIN only of an end that called tcp_close,
\* and that end does not leave the states after it.
THEOREM TornDown == TwoHosts /\ Spec => []TornDownByPeer
<1>1. PeerInv => TornDownByPeer
  BY DEF PeerInv, TornDownByPeer, Ended
<1> QED BY <1>1, PeerInvInit, PeerInvStep, PTL DEF Spec

-----------------------------------------------------------------------------
(* No host acknowledges what its peer has not sent.                         *)

FinIn(u)  == \E i \in 1 .. Len(u) : Fin(u[i])
FinsIn(u) == IF FinIn(u) THEN 1 ELSE 0

\* remote_seq of a receiver is r, u is on the way to it, and local_seq of the
\* sender is n: nothing the receiver may count, a FIN on top of the others, lies
\* past n.
Counted(u, r, n) ==
    /\ r + FinsIn(u) <= n
    /\ \A i \in 1 .. Len(u) :
        /\ "SYN" \in u[i].flags => ~Fin(u[i]) /\ u[i].seq + 1 + FinsIn(u) <= n
        /\ u[i].len > 0 /\ ~Fin(u[i]) => u[i].seq + u[i].len + FinsIn(u) <= n
        /\ \A j \in 1 .. Len(u) : Fin(u[i]) /\ Fin(u[j]) => i = j

\* Accepting a connection sets local_seq to ServerStart.  That must not be below
\* what a failed tcp_connect counted up to with its SYNs.
FewSyns == MaxCalls * Attempts <= ServerStart - ClientStart

SynsLeft(h) == (IF attempt[h] = 0 THEN 0 ELSE Attempts - attempt[h]) + calls * Attempts
SynsOnly(h) ==
    state[h] = "closed" \/ attempt[h] > 0 =>
        lseq[h] + SynsLeft(h) <= ClientStart + MaxCalls * Attempts

Truthful ==
    /\ \A h \in Host : SynsOnly(h) /\ (state[h] = "closed" => attempt[h] = 0)
    /\ \A h \in Host : \A g \in Host \ {h} : Counted(wire[h], rseq[h], lseq[g])

AckInv == PeerInv /\ FewSyns /\ ("repeat" \notin network => Truthful)

-----------------------------------------------------------------------------
LEMMA SegmentNumbers ==
  ASSUME NEW u \in Seq(Segment), NEW i \in 1 .. Len(u)
  PROVE  u[i] \in Segment /\ u[i].seq \in Nat /\ u[i].len \in Nat
<1>1. PICK s \in Segment : s = u[i]
  OBVIOUS
<1>2. s.seq \in Nat /\ s.len \in 0 .. MaxLen
  BY DEF Segment
<1> QED BY <1>1, <1>2, TcpAssumption

LEMMA CountedMore ==
  ASSUME NEW u \in Seq(Segment), NEW r \in Nat, NEW n \in Nat, NEW m \in Nat,
         Counted(u, r, n), n <= m
  PROVE  Counted(u, r, m)
<1>1. FinsIn(u) \in Nat
  BY DEF FinsIn
<1>2. r + FinsIn(u) <= m
  BY <1>1 DEF Counted
<1>3. ASSUME NEW i \in 1 .. Len(u)
      PROVE  /\ "SYN" \in u[i].flags => ~Fin(u[i]) /\ u[i].seq + 1 + FinsIn(u) <= m
             /\ u[i].len > 0 /\ ~Fin(u[i]) => u[i].seq + u[i].len + FinsIn(u) <= m
             /\ \A j \in 1 .. Len(u) : Fin(u[i]) /\ Fin(u[j]) => i = j
  <2>1. u[i].seq \in Nat /\ u[i].len \in Nat
    BY SegmentNumbers
  <2>2. "SYN" \in u[i].flags => ~Fin(u[i]) /\ u[i].seq + 1 + FinsIn(u) <= n
    BY DEF Counted
  <2>3. u[i].len > 0 /\ ~Fin(u[i]) => u[i].seq + u[i].len + FinsIn(u) <= n
    BY DEF Counted
  <2>4. \A j \in 1 .. Len(u) : Fin(u[i]) /\ Fin(u[j]) => i = j
    BY DEF Counted
  <2> QED BY <1>1, <2>1, <2>2, <2>3, <2>4
<1> QED BY <1>2, <1>3 DEF Counted

\* A segment is lost or taken, and what it carries may then be counted.
LEMMA CountedRemoved ==
  ASSUME NEW u \in Seq(Segment), NEW r \in Nat, NEW n \in Nat,
         Counted(u, r, n), NEW i \in 1 .. Len(u)
  PROVE  /\ Counted(RemoveAt(u, i), r, n)
         /\ Fin(u[i]) => Counted(RemoveAt(u, i), r + 1, n)
         /\ "SYN" \in u[i].flags => Counted(RemoveAt(u, i), u[i].seq + 1, n)
         /\ u[i].len > 0 /\ ~Fin(u[i]) => Counted(RemoveAt(u, i), u[i].seq + u[i].len, n)
<1> DEFINE v == RemoveAt(u, i)
           p(j) == IF j < i THEN j ELSE j + 1
<1>1. /\ v \in Seq(Segment) /\ Len(v) = Len(u) - 1
      /\ \A j \in 1 .. Len(u) - 1 : v[j] = IF j < i THEN u[j] ELSE u[j + 1]
  BY RemoveAtAt
<1>2. \A j \in 1 .. Len(v) : p(j) \in 1 .. Len(u) /\ p(j) # i /\ v[j] = u[p(j)]
  BY <1>1
<1>3. \A j, k \in 1 .. Len(v) : p(j) = p(k) => j = k
  BY <1>1
<1> HIDE DEF v, p
<1>4. FinsIn(v) \in {0, 1} /\ FinsIn(u) \in {0, 1} /\ FinsIn(v) <= FinsIn(u)
  <2>1. FinIn(v) => FinIn(u)
    BY <1>2 DEF FinIn
  <2> QED BY <2>1 DEF FinsIn
<1>5. Fin(u[i]) => FinsIn(v) = 0 /\ FinsIn(u) = 1
  <2>1. Fin(u[i]) => FinIn(u) /\ ~FinIn(v)
    BY <1>2 DEF FinIn, Counted
  <2> QED BY <2>1 DEF FinsIn
<1>6. ASSUME NEW j \in 1 .. Len(v)
      PROVE  /\ "SYN" \in v[j].flags => ~Fin(v[j]) /\ v[j].seq + 1 + FinsIn(v) <= n
             /\ v[j].len > 0 /\ ~Fin(v[j]) => v[j].seq + v[j].len + FinsIn(v) <= n
             /\ \A k \in 1 .. Len(v) : Fin(v[j]) /\ Fin(v[k]) => j = k
  <2>1. PICK q \in 1 .. Len(u) : q = p(j) /\ v[j] = u[q]
    BY <1>2
  <2>2. u[q].seq \in Nat /\ u[q].len \in Nat
    BY SegmentNumbers
  <2>3. /\ "SYN" \in u[q].flags => ~Fin(u[q]) /\ u[q].seq + 1 + FinsIn(u) <= n
        /\ u[q].len > 0 /\ ~Fin(u[q]) => u[q].seq + u[q].len + FinsIn(u) <= n
    BY DEF Counted
  <2>4. \A k \in 1 .. Len(v) : Fin(v[j]) /\ Fin(v[k]) => j = k
    BY <1>2, <1>3 DEF Counted
  <2> QED BY <1>4, <2>1, <2>2, <2>3, <2>4
<1>7. u[i].seq \in Nat /\ u[i].len \in Nat
  BY SegmentNumbers
<1>8. /\ r + FinsIn(u) <= n
      /\ "SYN" \in u[i].flags => u[i].seq + 1 + FinsIn(u) <= n
      /\ u[i].len > 0 /\ ~Fin(u[i]) => u[i].seq + u[i].len + FinsIn(u) <= n
  BY DEF Counted
<1>9. /\ r + FinsIn(v) <= n
      /\ Fin(u[i]) => r + 1 + FinsIn(v) <= n
      /\ "SYN" \in u[i].flags => u[i].seq + 1 + FinsIn(v) <= n
      /\ u[i].len > 0 /\ ~Fin(u[i]) => u[i].seq + u[i].len + FinsIn(v) <= n
  BY <1>4, <1>5, <1>7, <1>8
<1>10. /\ Counted(v, r, n)
       /\ Fin(u[i]) => Counted(v, r + 1, n)
       /\ "SYN" \in u[i].flags => Counted(v, u[i].seq + 1, n)
       /\ u[i].len > 0 /\ ~Fin(u[i]) => Counted(v, u[i].seq + u[i].len, n)
  BY <1>6, <1>9 DEF Counted
<1> QED BY <1>10 DEF v

\* A segment is sent, and local_seq goes on.
LEMMA CountedSent ==
  ASSUME NEW u \in Seq(Segment), NEW r \in Nat, NEW n \in Nat, NEW m \in Nat,
         Counted(u, r, n), n <= m, NEW s \in Segment,
         "SYN" \in s.flags => ~Fin(s) /\ s.seq + 1 + FinsIn(u) <= m,
         s.len > 0 /\ ~Fin(s) => s.seq + s.len + FinsIn(u) <= m,
         Fin(s) => ~FinIn(u) /\ n + 1 <= m
  PROVE  Counted(Append(u, s), r, m)
<1> DEFINE v == Append(u, s)
<1>1. v \in Seq(Segment) /\ Len(v) = Len(u) + 1 /\ v[Len(u) + 1] = s
      /\ \A j \in 1 .. Len(u) : v[j] = u[j]
  OBVIOUS
<1>2. Len(u) \in Nat
  OBVIOUS
<1>3. \A j \in 1 .. Len(v) : j \in 1 .. Len(u) \/ j = Len(u) + 1
  BY <1>1, <1>2
<1>4. 1 .. Len(u) \subseteq 1 .. Len(v) /\ Len(u) + 1 \in 1 .. Len(v)
  BY <1>1, <1>2
<1> HIDE DEF v
<1>5. FinIn(v) <=> FinIn(u) \/ Fin(s)
  BY <1>1, <1>3, <1>4 DEF FinIn
<1>6. /\ FinsIn(u) \in {0, 1} /\ FinsIn(v) \in {0, 1}
      /\ Fin(s) => FinsIn(u) = 0 /\ FinsIn(v) = 1
      /\ ~Fin(s) => FinsIn(v) = FinsIn(u)
  BY <1>5 DEF FinsIn
<1>7. r + FinsIn(u) <= n
  BY DEF Counted
<1>8. r + FinsIn(v) <= m
  BY <1>6, <1>7
<1>9. ASSUME NEW j \in 1 .. Len(v)
      PROVE  /\ "SYN" \in v[j].flags => ~Fin(v[j]) /\ v[j].seq + 1 + FinsIn(v) <= m
             /\ v[j].len > 0 /\ ~Fin(v[j]) => v[j].seq + v[j].len + FinsIn(v) <= m
             /\ \A k \in 1 .. Len(v) : Fin(v[j]) /\ Fin(v[k]) => j = k
  <2>1. s.seq \in Nat /\ s.len \in Nat
    BY TcpAssumption DEF Segment
  <2>2. CASE j = Len(u) + 1
    <3>1. v[j] = s
      BY <1>1, <2>2
    <3>2. \A k \in 1 .. Len(v) : Fin(s) /\ Fin(v[k]) => j = k
      BY <1>1, <1>3, <2>2 DEF FinIn
    <3> QED BY <1>6, <2>1, <3>1, <3>2
  <2>3. CASE j \in 1 .. Len(u)
    <3>1. v[j] = u[j] /\ u[j].seq \in Nat /\ u[j].len \in Nat
      BY <1>1, <2>3, SegmentNumbers
    <3>2. /\ "SYN" \in u[j].flags => ~Fin(u[j]) /\ u[j].seq + 1 + FinsIn(u) <= n
          /\ u[j].len > 0 /\ ~Fin(u[j]) => u[j].seq + u[j].len + FinsIn(u) <= n
      BY <2>3 DEF Counted
    <3>3. \A k \in 1 .. Len(v) : Fin(u[j]) /\ Fin(v[k]) => j = k
      <4>1. \A k \in 1 .. Len(u) : Fin(u[j]) /\ Fin(u[k]) => j = k
        BY <2>3 DEF Counted
      <4>2. Fin(u[j]) => ~Fin(s)
        BY <2>3 DEF FinIn
      <4> QED BY <1>1, <1>3, <4>1, <4>2
    <3>4. "SYN" \in u[j].flags => ~Fin(u[j]) /\ u[j].seq + 1 + FinsIn(v) <= m
      BY <1>6, <3>1, <3>2
    <3>5. u[j].len > 0 /\ ~Fin(u[j]) => u[j].seq + u[j].len + FinsIn(v) <= m
      BY <1>6, <3>1, <3>2
    <3> QED BY <3>1, <3>3, <3>4, <3>5
  <2> QED BY <1>3, <2>2, <2>3
<1>10. Counted(v, r, m)
  BY <1>8, <1>9 DEF Counted
<1> QED BY <1>10 DEF v

\* An end that is not ended has sent no FIN.
LEMMA NoFin ==
  ASSUME PeerInv, NEW h \in Host, NEW g \in Host \ {h}, ~Ended(h)
  PROVE  ~FinIn(wire[g]) /\ FinsIn(wire[g]) = 0
<1>1. Host = {h, g} /\ wire[g] \in Seq(Segment)
  BY Other DEF PeerInv, TypeOK
<1>2. ASSUME NEW i \in 1 .. Len(wire[g]), Fin(wire[g][i]) PROVE FALSE
  <2>1. PICK s \in Segment : s = wire[g][i] /\ Proper(g, s)
    BY <1>1 DEF PeerInv
  <2>2. s.from = h
    BY <1>1, <2>1 DEF Proper, Segment
  <2> QED BY <1>2, <2>1, <2>2 DEF Proper, Fin
<1>3. ~FinIn(wire[g])
  BY <1>2 DEF FinIn
<1> QED BY <1>3 DEF FinsIn

LEMMA Times ==
  ASSUME NEW a \in Nat, NEW b \in Nat, NEW c \in Nat, a <= b
  PROVE  a * c <= b * c /\ a * c \in Nat /\ b * c \in Nat /\ (a + 1) * c = a * c + c
<1>1. a * c \in Nat /\ b * c \in Nat /\ (b - a) * c \in Nat
  OBVIOUS
<1>2. b * c = a * c + (b - a) * c
  OBVIOUS
<1>3. (a + 1) * c = a * c + c
  OBVIOUS
<1> QED BY <1>1, <1>2, <1>3

\* The SYNs still allowed: a call of tcp_connect takes Attempts of them.
LEMMA Budget ==
  ASSUME TypeOK, TypeOK', calls' \in {calls, calls - 1}
  PROVE  /\ calls' * Attempts <= calls * Attempts
         /\ calls' * Attempts \in Nat /\ calls * Attempts \in Nat /\ MaxCalls * Attempts \in Nat
         /\ calls' = calls - 1 => calls * Attempts = calls' * Attempts + Attempts
<1>1. calls \in Nat /\ calls' \in Nat /\ Attempts \in Nat /\ MaxCalls \in Nat
  BY TcpAssumption DEF TypeOK
<1>2. calls' <= calls /\ (calls' = calls - 1 => calls = calls' + 1)
  <2>1. CASE calls' = calls
    BY <1>1, <2>1
  <2>2. CASE calls' = calls - 1
    BY <1>1, <2>2
  <2> QED BY <2>1, <2>2
<1>3. calls' * Attempts <= calls * Attempts /\ (calls' + 1) * Attempts = calls' * Attempts + Attempts
  BY <1>1, <1>2, Times
<1>4. calls' * Attempts \in Nat /\ calls * Attempts \in Nat
  BY <1>1, <1>2, Times
<1>5. MaxCalls * Attempts \in Nat
  BY <1>1, Times
<1> QED BY <1>2, <1>3, <1>4, <1>5

LEMMA SynsKept ==
  ASSUME TypeOK, TypeOK', NEW k \in Host, SynsOnly(k), calls' \in {calls, calls - 1},
         UNCHANGED <<lseq[k], attempt[k]>>,
         state'[k] = "closed" => state[k] = "closed" \/ attempt[k] > 0
  PROVE  SynsOnly(k)'
<1> DEFINE x == calls * Attempts
           y == calls' * Attempts
           z == MaxCalls * Attempts
<1>1. y <= x /\ x \in Nat /\ y \in Nat /\ z \in Nat
  BY Budget
<1>2. lseq[k] \in Nat /\ attempt[k] \in 0 .. Attempts /\ Attempts \in Nat
  BY TcpAssumption DEF TypeOK
<1>3. state[k] = "closed" \/ attempt[k] > 0 =>
        lseq[k] + ((IF attempt[k] = 0 THEN 0 ELSE Attempts - attempt[k]) + x) <= ClientStart + z
  BY DEF SynsOnly, SynsLeft
<1> HIDE DEF x, y, z
<1>4. state'[k] = "closed" \/ attempt'[k] > 0 =>
        lseq'[k] + ((IF attempt'[k] = 0 THEN 0 ELSE Attempts - attempt'[k]) + y) <= ClientStart + z
  BY <1>1, <1>2, <1>3 DEF ClientStart
<1> QED BY <1>4 DEF SynsOnly, SynsLeft, y, z

\* A step of h leaves the numbers of the other end alone.
LEMMA AckStep ==
  ASSUME PeerInv, Truthful, TypeOK', NEW h \in Host, NEW g \in Host \ {h},
         UNCHANGED <<state[g], attempt[g], lseq[g], rseq[g]>>, calls' \in {calls, calls - 1},
         SynsOnly(h)', state'[h] = "closed" => attempt'[h] = 0,
         Counted(wire'[h], rseq'[h], lseq[g]), Counted(wire'[g], rseq[g], lseq'[h])
  PROVE  Truthful'
<1>1. Host = {h, g} /\ h # g /\ TypeOK
  BY Other DEF PeerInv
<1>2. SynsOnly(g)'
  BY <1>1, SynsKept DEF Truthful
<1>3. state'[g] = "closed" => attempt'[g] = 0
  BY DEF Truthful
<1>4. Counted(wire'[h], rseq'[h], lseq'[g]) /\ Counted(wire'[g], rseq'[g], lseq'[h])
  OBVIOUS
<1>5. \A k \in Host : SynsOnly(k)' /\ (state'[k] = "closed" => attempt'[k] = 0)
  BY <1>1, <1>2, <1>3
<1>6. \A k \in Host : \A p \in Host \ {k} : Counted(wire[k], rseq[k], lseq[p])'
  <2>1. \A k \in Host : \A p \in Host \ {k} : Counted(wire'[k], rseq'[k], lseq'[p])
    BY <1>1, <1>4
  <2> QED BY <2>1 DEF Counted, FinsIn, FinIn, Fin
<1> QED BY <1>5, <1>6 DEF Truthful

\* What tcp_send_packet sends may be counted once local_seq is past it.
LEMMA CountedEmitted ==
  ASSUME TypeOK, NEW h \in Host, NEW g \in Host \ {h}, NEW s \in Segment,
         wire'[g] = Append(wire[g], s), lseq'[h] = Advance(s), lseq[h] <= s.seq,
         Counted(wire[g], rseq[g], lseq[h]),
         "SYN" \in s.flags => "FIN" \notin s.flags /\ s.len = 0,
         (s.flags = {"ACK"} /\ s.len = 0) \/ FinsIn(wire[g]) = 0
  PROVE  /\ Counted(wire'[g], rseq[g], lseq'[h])
         /\ lseq'[h] = IF s.flags \cap {"SYN", "FIN"} # {} THEN s.seq + 1 ELSE s.seq + s.len
<1>2. /\ wire[g] \in Seq(Segment) /\ rseq[g] \in Nat /\ lseq[h] \in Nat
      /\ s.seq \in Nat /\ s.len \in Nat
  <2>1. s.seq \in Nat /\ s.len \in 0 .. MaxLen
    BY DEF Segment
  <2> QED BY <2>1, TcpAssumption DEF TypeOK
<1>3. lseq'[h] = IF s.flags \cap {"SYN", "FIN"} # {} THEN s.seq + 1 ELSE s.seq + s.len
  BY DEF Advance
<1>4. lseq'[h] \in Nat /\ lseq[h] <= lseq'[h]
  BY <1>2, <1>3
<1>5. FinsIn(wire[g]) \in {0, 1} /\ (FinsIn(wire[g]) = 0 => ~FinIn(wire[g]))
  BY DEF FinsIn
<1>6. "SYN" \in s.flags => ~Fin(s) /\ s.seq + 1 + FinsIn(wire[g]) <= lseq'[h]
  BY <1>2, <1>3, <1>5 DEF Fin
<1>7. s.len > 0 /\ ~Fin(s) => s.seq + s.len + FinsIn(wire[g]) <= lseq'[h]
  <2>1. ASSUME s.len > 0, "FIN" \notin s.flags PROVE s.seq + s.len + FinsIn(wire[g]) <= lseq'[h]
    <3>1. "SYN" \notin s.flags
      BY <1>2, <2>1
    <3>2. lseq'[h] = s.seq + s.len
      BY <1>3, <2>1, <3>1
    <3>3. FinsIn(wire[g]) = 0
      BY <1>2, <2>1
    <3> QED BY <1>2, <3>2, <3>3
  <2> QED BY <2>1 DEF Fin
<1>8. Fin(s) => ~FinIn(wire[g]) /\ lseq[h] + 1 <= lseq'[h]
  <2>1. ASSUME "FIN" \in s.flags PROVE ~FinIn(wire[g]) /\ lseq[h] + 1 <= lseq'[h]
    <3>1. lseq'[h] = s.seq + 1
      BY <1>3, <2>1
    <3>2. s.flags # {"ACK"}
      BY <2>1
    <3> QED BY <1>2, <1>5, <3>1, <3>2
  <2> QED BY <2>1 DEF Fin
<1>9. Counted(Append(wire[g], s), rseq[g], lseq'[h])
  BY <1>2, <1>4, <1>6, <1>7, <1>8, CountedSent
<1> QED BY <1>3, <1>9

\* tcp_recv takes a segment off the wire.
LEMMA AckRecv ==
  ASSUME PeerInv, FewSyns, Truthful, TypeOK', NEW h \in Host, NEW i \in 1 .. Len(wire[h]),
         Recv(h, wire[h][i], Without(h, i))
  PROVE  Truthful'
<1>0. TypeOK /\ TwoHosts
  BY DEF PeerInv
<1>1. PICK s \in Segment : s = wire[h][i]
  BY <1>0 DEF TypeOK
<1>2. PICK w \in [Host -> Seq(Segment)] : w = Without(h, i)
  BY <1>0, WithoutIs
<1>3. Proper(h, s) /\ Recv(h, s, w)
  BY <1>1, <1>2 DEF PeerInv
<1>4. PICK g \in Host \ {h} : g = s.from
  BY <1>3 DEF Proper, Segment
<1>5. Host = {h, g} /\ h # g /\ w[g] = wire[g] /\ w[h] = RemoveAt(wire[h], i)
  BY <1>0, <1>2, <1>4, Other, WithoutIs
<1>6. /\ remote[h] \in {g, NoHost} /\ NoHost \notin Host
      /\ state[h] \in {"syn_sent", "established"} => remote[h] = g
      /\ Fin(s) => remote[h] = g
  <2>1. remote[h] \in Host \cup {NoHost} /\ remote[h] # h
    BY <1>0 DEF PeerInv, TypeOK
  <2>2. Fin(s) => remote[h] = g
    BY <1>3, <1>4 DEF Proper, Fin
  <2>3. state[h] \in {"syn_sent", "established"} => remote[h] \in Host
    BY DEF PeerInv
  <2> QED BY <1>5, <2>1, <2>2, <2>3, TcpAssumption
<1>7. /\ state \in [Host -> States] /\ lseq \in [Host -> Nat] /\ rseq \in [Host -> Nat]
      /\ wire[h] \in Seq(Segment) /\ wire[g] \in Seq(Segment)
  BY <1>0 DEF TypeOK
<1>8. /\ s.seq \in Nat /\ s.len \in 0 .. MaxLen /\ s.len \in Nat
      /\ s.seq + 1 \in Nat /\ s.seq + s.len \in Nat
      /\ lseq[h] \in Nat /\ rseq[h] + 1 \in Nat /\ 0 \in 0 .. MaxLen /\ ServerStart \in Nat
      /\ {"SYN", "ACK"} \in SUBSET Flag /\ {"ACK"} \in SUBSET Flag
  BY <1>0, <1>1, <1>7, NumbersType, SegmentNumbers
<1>9. UNCHANGED <<state[g], rseq[g], attempt, calls>> /\ calls' \in {calls, calls - 1}
  BY <1>3, <1>5, <1>7 DEF Recv, Accept, Established, FinWait2, TimeWait, Take
<1>10. Counted(wire[h], rseq[h], lseq[g]) /\ Counted(wire[g], rseq[g], lseq[h])
  BY <1>5 DEF Truthful
<1>11. /\ Counted(w[h], rseq[h], lseq[g])
       /\ Fin(s) => Counted(w[h], rseq[h] + 1, lseq[g])
       /\ "SYN" \in s.flags => Counted(w[h], s.seq + 1, lseq[g])
       /\ s.len > 0 /\ ~Fin(s) => Counted(w[h], s.seq + s.len, lseq[g])
  <2>1. rseq[h] \in Nat /\ lseq[g] \in Nat
    BY <1>7
  <2> QED BY <1>1, <1>5, <1>7, <1>10, <2>1, CountedRemoved
<1>12. CASE Accepts(h, s) /\ Accept(h, s, w)
  <2>1. state[h] = "closed" /\ attempt[h] = 0 /\ "SYN" \in s.flags
    BY <1>12 DEF Accepts, Truthful
  <2>2. lseq[h] <= ServerStart
    <3> DEFINE x == calls * Attempts
               z == MaxCalls * Attempts
    <3>1. x \in Nat /\ z \in Nat
      BY <1>0, <1>9, Budget
    <3>2. lseq[h] + (0 + x) <= ClientStart + z
      BY <2>1 DEF Truthful, SynsOnly, SynsLeft
    <3>3. z <= ServerStart - ClientStart
      BY DEF FewSyns
    <3> HIDE DEF x, z
    <3> QED BY <1>8, <3>1, <3>2, <3>3 DEF ServerStart, ClientStart
  <2>3. FinsIn(wire[g]) = 0
    BY <1>5, <2>1, NoFin DEF Ended
  <2>4. Emit(w, h, g, {"SYN", "ACK"}, ServerStart, s.seq + 1, 0)
    BY <1>4, <1>12 DEF Accept
  <2>5. /\ Counted(wire'[g], rseq[g], lseq'[h])
        /\ wire'[h] = w[h] /\ lseq'[g] = lseq[g]
    <3>1. PICK p \in Segment :
             /\ p.from = h /\ p.flags = {"SYN", "ACK"} /\ p.seq = ServerStart /\ p.len = 0
             /\ wire'[g] = Append(w[g], p) /\ \A k \in Host \ {g} : wire'[k] = w[k]
             /\ lseq'[h] = Advance(p) /\ \A k \in Host \ {h} : lseq'[k] = lseq[k]
      BY <1>0, <1>8, <2>4, Emitted
    <3>2. wire'[g] = Append(wire[g], p) /\ lseq[h] <= p.seq
      BY <1>5, <2>2, <3>1
    <3>3. "SYN" \in p.flags => "FIN" \notin p.flags /\ p.len = 0
      BY <3>1
    <3> QED BY <1>0, <1>5, <1>10, <2>3, <3>1, <3>2, <3>3, CountedEmitted
  <2>6. state'[h] = "established" /\ rseq'[h] = s.seq + 1
    BY <1>7, <1>12 DEF Accept
  <2>7. Counted(wire'[h], rseq'[h], lseq[g])
    BY <1>11, <2>1, <2>5, <2>6
  <2>8. SynsOnly(h)'
    BY <1>9, <2>1, <2>6 DEF SynsOnly
  <2> QED BY <1>9, <2>5, <2>6, <2>7, <2>8, AckStep
<1>13. ASSUME rseq'[h] \in Nat, Counted(w[h], rseq'[h], lseq[g]),
              \/ wire' = w /\ lseq' = lseq
              \/ \E q \in Nat : Emit(w, h, g, {"ACK"}, lseq[h], q, 0),
              state'[h] = "closed" => state[h] = "closed"
       PROVE  Truthful'
  <2>1. /\ Counted(wire'[g], rseq[g], lseq'[h])
        /\ wire'[h] = w[h] /\ lseq'[g] = lseq[g] /\ lseq'[h] = lseq[h]
    <3>1. CASE wire' = w /\ lseq' = lseq
      BY <1>5, <1>10, <3>1
    <3>2. ASSUME NEW q \in Nat, Emit(w, h, g, {"ACK"}, lseq[h], q, 0)
          PROVE  /\ Counted(wire'[g], rseq[g], lseq'[h])
                 /\ wire'[h] = w[h] /\ lseq'[g] = lseq[g] /\ lseq'[h] = lseq[h]
      <4>1. PICK p \in Segment :
               /\ p.from = h /\ p.flags = {"ACK"} /\ p.seq = lseq[h] /\ p.len = 0
               /\ wire'[g] = Append(w[g], p) /\ \A k \in Host \ {g} : wire'[k] = w[k]
               /\ lseq'[h] = Advance(p) /\ \A k \in Host \ {h} : lseq'[k] = lseq[k]
        BY <1>0, <1>8, <3>2, Emitted
      <4>2. wire'[g] = Append(wire[g], p) /\ lseq'[h] = Advance(p) /\ lseq[h] <= p.seq
        BY <1>5, <1>8, <4>1
      <4>3. /\ "SYN" \in p.flags => "FIN" \notin p.flags /\ p.len = 0
            /\ (p.flags = {"ACK"} /\ p.len = 0) \/ FinsIn(wire[g]) = 0
        BY <4>1
      <4>4. /\ Counted(wire'[g], rseq[g], lseq'[h])
            /\ lseq'[h] = IF p.flags \cap {"SYN", "FIN"} # {} THEN p.seq + 1 ELSE p.seq + p.len
        BY <1>0, <1>10, <4>2, <4>3, CountedEmitted
      <4>5. p.flags \cap {"SYN", "FIN"} = {}
        BY <4>1
      <4> QED BY <1>5, <1>8, <4>1, <4>4, <4>5
    <3> QED BY <1>13, <3>1, <3>2
  <2>2. SynsOnly(h)'
    BY <1>0, <1>9, <1>13, <2>1, SynsKept DEF Truthful
  <2>3. state'[h] = "closed" => attempt'[h] = 0
    BY <1>9, <1>13 DEF Truthful
  <2> QED BY <1>9, <1>13, <2>1, <2>2, <2>3, AckStep
<1>14. CASE Connects(h, s) /\ Established(h, s, w)
  <2>1. rseq'[h] = s.seq + 1 /\ state'[h] = "established" /\ "SYN" \in s.flags
    BY <1>7, <1>14 DEF Connects, Established
  <2>2. Emit(w, h, g, {"ACK"}, lseq[h], s.seq + 1, 0)
    BY <1>6, <1>14 DEF Connects, Established
  <2> QED BY <1>8, <1>11, <1>13, <2>1, <2>2
<1>15. CASE FinAcked(h, s) /\ FinWait2(h, w)
  <2>1. rseq' = rseq /\ state'[h] = "fin_wait_2" /\ wire' = w /\ lseq' = lseq
    BY <1>7, <1>15 DEF FinWait2
  <2> QED BY <1>7, <1>11, <1>13, <2>1
<1>16. CASE Finished(h, s) /\ TimeWait(h, w)
  <2>1. rseq'[h] = rseq[h] + 1 /\ state'[h] = "time_wait" /\ Fin(s)
    BY <1>7, <1>16 DEF Finished, TimeWait, Fin
  <2>2. Emit(w, h, g, {"ACK"}, lseq[h], rseq[h] + 1, 0)
    BY <1>6, <1>16, <2>1 DEF TimeWait
  <2> QED BY <1>8, <1>11, <1>13, <2>1, <2>2
<1>17. CASE ~Finished(h, s) /\ TakesData(h, s) /\ Take(h, s, w)
  <2>1. rseq'[h] = s.seq + s.len /\ state' = state /\ s.len > 0 /\ ~Fin(s)
    BY <1>7, <1>17 DEF Finished, TakesData, Take, Took, Fin
  <2>2. Emit(w, h, g, {"ACK"}, lseq[h], s.seq + s.len, 0)
    BY <1>6, <1>17 DEF TakesData, Take, Took
  <2> QED BY <1>8, <1>11, <1>13, <2>1, <2>2
<1>18. CASE wire' = w /\ UNCHANGED <<state, lseq, rseq, remote, rx>>
  <2>1. rseq'[h] \in Nat
    BY <1>7, <1>18
  <2> QED BY <1>11, <1>13, <1>18, <2>1
<1> QED BY <1>3, <1>12, <1>14, <1>15, <1>16, <1>17, <1>18 DEF Recv

\* A call, or the end of a wait, sends a segment that is not just an
\* acknowledgment.
LEMMA AckSend ==
  ASSUME PeerInv, Truthful, TypeOK', NEW h \in Host, NEW g \in Host \ {h}, ~Ended(h),
         NEW f \in SUBSET Flag, NEW n \in 0 .. MaxLen,
         Emit(wire, h, g, f, lseq[h], rseq[h], n),
         "SYN" \in f => "FIN" \notin f /\ n = 0,
         UNCHANGED <<state[g], attempt[g], rseq>>, calls' \in {calls, calls - 1},
         state'[h] = "closed" => attempt'[h] = 0,
         lseq'[h] = (IF f \cap {"SYN", "FIN"} # {} THEN lseq[h] + 1 ELSE lseq[h] + n)
           => SynsOnly(h)'
  PROVE  Truthful'
<1>0. TypeOK /\ Host = {h, g} /\ h # g
  BY Other DEF PeerInv
<1>1. lseq[h] \in Nat /\ rseq[h] \in Nat /\ wire \in [Host -> Seq(Segment)] /\ g \in Host
  BY <1>0 DEF TypeOK
<1>2. PICK s \in Segment :
         /\ s.from = h /\ s.flags = f /\ s.seq = lseq[h] /\ s.len = n
         /\ wire'[g] = Append(wire[g], s) /\ \A k \in Host \ {g} : wire'[k] = wire[k]
         /\ lseq'[h] = Advance(s) /\ \A k \in Host \ {h} : lseq'[k] = lseq[k]
  <2>1. PICK l \in Nat, r \in Nat : l = lseq[h] /\ r = rseq[h]
    BY <1>1
  <2>2. Emit(wire, h, g, f, l, r, n)
    BY <2>1
  <2>3. \E s \in Segment :
         /\ s.from = h /\ s.flags = f /\ s.seq = l /\ s.len = n
         /\ wire'[g] = Append(wire[g], s) /\ \A k \in Host \ {g} : wire'[k] = wire[k]
         /\ lseq'[h] = Advance(s) /\ \A k \in Host \ {h} : lseq'[k] = lseq[k]
    <3>1. TypeOK
      BY <1>0
    <3>2. wire \in [Host -> Seq(Segment)] /\ g \in Host
      BY <1>1
    <3> QED BY ONLY <3>1, <3>2, h \in Host, f \in SUBSET Flag, n \in 0 .. MaxLen,
                    l \in Nat, r \in Nat, <2>2, Emitted
  <2> QED BY <2>1, <2>3
<1>3. Counted(wire[h], rseq[h], lseq[g]) /\ Counted(wire[g], rseq[g], lseq[h])
  BY <1>0 DEF Truthful
<1>4. FinsIn(wire[g]) = 0
  BY NoFin
<1>5. wire'[g] = Append(wire[g], s) /\ lseq'[h] = Advance(s) /\ lseq[h] <= s.seq
  BY <1>1, <1>2
<1>6. "SYN" \in s.flags => "FIN" \notin s.flags /\ s.len = 0
  BY <1>2
<1>7. /\ Counted(wire'[g], rseq[g], lseq'[h])
      /\ lseq'[h] = IF s.flags \cap {"SYN", "FIN"} # {} THEN s.seq + 1 ELSE s.seq + s.len
  BY <1>0, <1>3, <1>4, <1>5, <1>6, CountedEmitted
<1>8. SynsOnly(h)'
  BY <1>2, <1>7
<1>9. Counted(wire'[h], rseq'[h], lseq[g]) /\ lseq'[g] = lseq[g] /\ rseq'[g] = rseq[g]
  BY <1>0, <1>2, <1>3
<1> QED BY <1>7, <1>8, <1>9, AckStep

LEMMA TruthfulStep ==
  ASSUME PeerInv, FewSyns, Truthful, "repeat" \notin network, [Next]_vars
  PROVE  Truthful'
<1>0. TypeOK /\ TypeOK' /\ TwoHosts
  BY TypeStep DEF PeerInv
<1>t. /\ state \in [Host -> States] /\ remote \in [Host -> Host \cup {NoHost}]
      /\ attempt \in [Host -> 0 .. Attempts] /\ wire \in [Host -> Seq(Segment)]
      /\ \A k \in Host : lseq[k] \in Nat /\ rseq[k] \in Nat
      /\ 0 \in 0 .. MaxLen
      /\ {"SYN"} \in SUBSET Flag /\ {"ACK", "PSH"} \in SUBSET Flag /\ {"FIN", "ACK"} \in SUBSET Flag
  BY <1>0, TcpAssumption DEF TypeOK, Flag
<1>n. calls \in Nat /\ Attempts \in Nat /\ \A k \in Host : attempt[k] \in Nat /\ attempt[k] <= Attempts
  BY <1>0, TcpAssumption DEF TypeOK
<1>a. ASSUME NEW h \in Host
      PROVE  \E g \in Host \ {h} : Host = {h, g} /\ (remote[h] \in Host => remote[h] = g)
  <2>1. PICK g \in Host : g # h
    BY <1>0 DEF TwoHosts
  <2>2. Host = {h, g}
    BY <1>0, <2>1, Other
  <2>3. remote[h] # h
    BY DEF PeerInv
  <2> QED BY <2>1, <2>2, <2>3
<1>b. ASSUME NEW h \in Host, Call(h) PROVE calls' \in {calls, calls - 1} /\ attempt[h] = 0
  BY <1>b DEF Call
<1>c. ASSUME NEW h \in Host, NEW g \in Host \ {h}
      PROVE  Counted(wire[h], rseq[h], lseq[g]) /\ Counted(wire[g], rseq[g], lseq[h])
  BY DEF Truthful
<1>1. ASSUME NEW h \in Host, Listen(h) PROVE Truthful'
  <2>1. PICK g \in Host \ {h} : Host = {h, g}
    BY <1>a
  <2>2. UNCHANGED <<lseq, rseq, attempt, wire>> /\ state[h] = "closed" /\ Call(h)
    BY <1>0, <1>1 DEF Listen, TwoHosts
  <2>3. state'[h] = "closed" /\ state'[g] = state[g]
    BY <1>1, <1>t DEF Listen
  <2>4. SynsOnly(h)'
    BY <1>0, <1>b, <2>2, SynsKept DEF Truthful
  <2> QED BY <1>0, <1>b, <1>c, <2>2, <2>3, <2>4, AckStep
<1>2. ASSUME NEW h \in Host, NEW g \in Host \ {h}, Connect(h, g) PROVE Truthful'
  <2>1. Emit(wire, h, g, {"SYN"}, lseq[h], rseq[h], 0) /\ state[h] = "closed"
    BY <1>2 DEF Connect, SendSyn
  <2>2. /\ state'[h] = "syn_sent" /\ attempt'[h] = 1
        /\ UNCHANGED <<state[g], attempt[g], rseq>>
        /\ calls' = calls - 1 /\ attempt[h] = 0
    BY <1>2, <1>t DEF Connect, Call
  <2>3. lseq'[h] = (IF {"SYN"} \cap {"SYN", "FIN"} # {} THEN lseq[h] + 1 ELSE lseq[h] + 0)
          => SynsOnly(h)'
    <3> DEFINE x == calls * Attempts
               y == calls' * Attempts
               z == MaxCalls * Attempts
    <3>1. x = y + Attempts /\ x \in Nat /\ y \in Nat /\ z \in Nat
      BY <1>0, <2>2, Budget
    <3>2. lseq[h] + (0 + x) <= ClientStart + z
      BY <2>1, <2>2 DEF Truthful, SynsOnly, SynsLeft
    <3>3. lseq[h] \in Nat
      BY <1>t
    <3> HIDE DEF x, y, z
    <3>4. lseq[h] + 1 + ((Attempts - 1) + y) <= ClientStart + z
      BY <1>n, <3>1, <3>2, <3>3 DEF ClientStart
    <3>5. {"SYN"} \cap {"SYN", "FIN"} # {}
      OBVIOUS
    <3> QED BY <2>2, <3>4, <3>5 DEF SynsOnly, SynsLeft, y, z
  <2>4. ~Ended(h) /\ calls' \in {calls, calls - 1} /\ ("SYN" \in {"SYN"} => "FIN" \notin {"SYN"} /\ 0 = 0)
    BY <2>1, <2>2 DEF Ended
  <2> QED BY <1>0, <1>t, <2>1, <2>2, <2>3, <2>4, AckSend
<1>3. ASSUME NEW h \in Host, Waited(h) PROVE Truthful'
  <2>1. PICK g \in Host \ {h} : Host = {h, g} /\ (remote[h] \in Host => remote[h] = g)
    BY <1>a
  <2>2. attempt[h] > 0 /\ remote[h] = g
    BY <1>3, <2>1 DEF Waited, PeerInv
  <2>3. UNCHANGED <<rseq, state[g], attempt[g], calls>> /\ calls' \in {calls, calls - 1}
    BY <1>3, <1>t DEF Waited
  <2>4. lseq[h] + ((Attempts - attempt[h]) + calls * Attempts) <= ClientStart + MaxCalls * Attempts
    BY <1>n, <2>2 DEF Truthful, SynsOnly, SynsLeft
  <2> DEFINE x == calls * Attempts
             z == MaxCalls * Attempts
  <2>5. x \in Nat /\ z \in Nat
    BY <1>0, <2>3, Budget
  <2>6. CASE state[h] = "established" /\ attempt' = [attempt EXCEPT ![h] = 0]
             /\ UNCHANGED <<state, lseq, wire>>
    <3>1. attempt'[h] = 0 /\ state'[h] = "established"
      BY <1>t, <2>6
    <3>2. SynsOnly(h)'
      BY <3>1 DEF SynsOnly
    <3> QED BY <1>0, <1>c, <2>3, <2>6, <3>1, <3>2, AckStep
  <2>7. CASE /\ state[h] # "established" /\ attempt[h] < Attempts
             /\ attempt' = [attempt EXCEPT ![h] = attempt[h] + 1]
             /\ SendSyn(h, remote[h]) /\ UNCHANGED state
    <3>1. attempt'[h] = attempt[h] + 1 /\ state[h] # "closed" /\ ~Ended(h)
      BY <1>t, <1>n, <2>2, <2>7 DEF Truthful, Ended
    <3>2. Emit(wire, h, g, {"SYN"}, lseq[h], rseq[h], 0)
      BY <2>2, <2>7 DEF SendSyn
    <3>3. lseq'[h] = (IF {"SYN"} \cap {"SYN", "FIN"} # {} THEN lseq[h] + 1 ELSE lseq[h] + 0)
            => SynsOnly(h)'
      <4>1. lseq[h] \in Nat
        BY <1>t
      <4>2. lseq[h] + ((Attempts - attempt[h]) + x) <= ClientStart + z
        BY <2>4
      <4> HIDE DEF x, z
      <4>3. lseq[h] + 1 + ((Attempts - (attempt[h] + 1)) + x) <= ClientStart + z
        BY <1>n, <2>5, <4>1, <4>2 DEF ClientStart
      <4>4. {"SYN"} \cap {"SYN", "FIN"} # {} /\ attempt[h] + 1 # 0
        BY <1>n
      <4> QED BY <2>3, <3>1, <4>3, <4>4 DEF SynsOnly, SynsLeft, x, z
    <3>4. "SYN" \in {"SYN"} => "FIN" \notin {"SYN"} /\ 0 = 0
      OBVIOUS
    <3>5. state'[h] = "closed" => attempt'[h] = 0
      BY <2>7, <3>1
    <3> QED BY <1>0, <1>t, <2>3, <2>7, <3>1, <3>2, <3>3, <3>4, <3>5, AckSend
  <2>8. CASE /\ attempt' = [attempt EXCEPT ![h] = 0] /\ state' = [state EXCEPT ![h] = "closed"]
             /\ UNCHANGED <<lseq, wire>>
    <3>1. attempt'[h] = 0 /\ state'[h] = "closed"
      BY <1>t, <2>8
    <3>2. SynsOnly(h)'
      <4>1. lseq[h] \in Nat
        BY <1>t
      <4>2. lseq[h] + ((Attempts - attempt[h]) + x) <= ClientStart + z
        BY <2>4
      <4> HIDE DEF x, z
      <4>3. lseq[h] + (0 + x) <= ClientStart + z
        BY <1>n, <2>5, <4>1, <4>2 DEF ClientStart
      <4> QED BY <2>3, <2>8, <3>1, <4>3 DEF SynsOnly, SynsLeft, x, z
    <3> QED BY <1>0, <1>c, <2>3, <2>8, <3>1, <3>2, AckStep
  <2> QED BY <1>3, <2>6, <2>7, <2>8 DEF Waited, MoreAttempts
<1>4. ASSUME NEW h \in Host, NEW n \in 1 .. MaxLen, SendData(h, n) PROVE Truthful'
  <2>1. PICK g \in Host \ {h} : Host = {h, g} /\ (remote[h] \in Host => remote[h] = g)
    BY <1>a
  <2>2. state[h] = "established" /\ Call(h) /\ UNCHANGED <<state, rseq, attempt>>
    BY <1>4 DEF SendData
  <2>3. remote[h] = g
    BY <2>1, <2>2 DEF PeerInv
  <2>4. Emit(wire, h, g, {"ACK", "PSH"}, lseq[h], rseq[h], n)
    BY <1>4, <2>3 DEF SendData
  <2>5. SynsOnly(h)'
    BY <1>b, <2>2 DEF SynsOnly
  <2>6. ~Ended(h) /\ "SYN" \notin {"ACK", "PSH"} /\ n \in 0 .. MaxLen
    BY <2>2 DEF Ended
  <2> QED BY <1>0, <1>b, <1>t, <2>2, <2>4, <2>5, <2>6, AckSend
<1>5. ASSUME NEW h \in Host, Close(h) PROVE Truthful'
  <2>1. PICK g \in Host \ {h} : Host = {h, g} /\ (remote[h] \in Host => remote[h] = g)
    BY <1>a
  <2>2. /\ state[h] = "established" /\ Call(h) /\ UNCHANGED <<rseq, attempt>>
        /\ state'[h] = "fin_wait_1" /\ state'[g] = state[g]
    BY <1>5, <1>t DEF Close
  <2>3. remote[h] = g
    BY <2>1, <2>2 DEF PeerInv
  <2>4. Emit(wire, h, g, {"FIN", "ACK"}, lseq[h], rseq[h], 0)
    BY <1>5, <2>3 DEF Close
  <2>5. SynsOnly(h)'
    BY <1>b, <2>2 DEF SynsOnly
  <2>6. ~Ended(h) /\ "SYN" \notin {"FIN", "ACK"}
    BY <2>2 DEF Ended
  <2> QED BY <1>0, <1>b, <1>t, <2>2, <2>4, <2>5, <2>6, AckSend
<1>6. ASSUME UNCHANGED <<conn, attempt, wire, calls>> PROVE Truthful'
  BY <1>6 DEF conn, Truthful, SynsOnly, SynsLeft, Counted, FinsIn, FinIn, Fin
<1>7. ASSUME NEW h \in Host, Deliver(h) PROVE Truthful'
  <2>1. PICK i \in 1 .. Len(wire[h]) : Recv(h, wire[h][i], Without(h, i))
    <3>1. wire[h] \in Seq(Segment)
      BY <1>t
    <3>2. wire[h] # <<>> => 1 \in 1 .. Len(wire[h])
      BY <3>1
    <3>3. 2 .. Len(wire[h]) \subseteq 1 .. Len(wire[h])
      BY <3>1
    <3> QED BY <1>7, <3>2, <3>3 DEF Deliver, Mishap
  <2> QED BY <1>0, <2>1, AckRecv
<1>8. ASSUME NEW h \in Host, Lose(h) PROVE Truthful'
  <2>1. PICK g \in Host \ {h} : Host = {h, g}
    BY <1>a
  <2>2. /\ UNCHANGED <<conn, attempt, calls>> /\ calls' \in {calls, calls - 1}
        /\ wire' = Without(h, 1) /\ wire[h] # <<>>
    BY <1>8 DEF Lose
  <2>3. 1 \in 1 .. Len(wire[h]) /\ wire[h] \in Seq(Segment)
    BY <1>t, <2>2
  <2>4. wire'[h] = RemoveAt(wire[h], 1) /\ wire'[g] = wire[g]
    BY <1>0, <2>2, <2>3, WithoutIs
  <2>5. Counted(wire'[h], rseq[h], lseq[g])
    BY <1>c, <1>t, <2>3, <2>4, CountedRemoved
  <2>6. SynsOnly(h)'
    BY <1>0, <2>2, SynsKept DEF Truthful, conn
  <2>7. state'[h] = "closed" => attempt'[h] = 0
    BY <2>2 DEF Truthful, conn
  <2> QED BY <1>0, <1>c, <2>2, <2>4, <2>5, <2>6, <2>7, AckStep DEF conn
<1> QED BY <1>1, <1>2, <1>3, <1>4, <1>5, <1>6, <1>7, <1>8 DEF Next, Fetch, vars

LEMMA NetworkStays == [Next]_vars => network' = network
BY DEF Next, Listen, Connect, Waited, SendData, Close, Fetch, Deliver, Recv, Lose, Call, vars

LEMMA AckInvStep == AckInv /\ [Next]_vars => AckInv'
<1> SUFFICES ASSUME AckInv, [Next]_vars PROVE AckInv'
  OBVIOUS
<1>1. PeerInv' /\ network' = network
  BY PeerInvStep, NetworkStays DEF AckInv
<1>2. "repeat" \notin network => Truthful'
  BY TruthfulStep DEF AckInv
<1> QED BY <1>1, <1>2 DEF AckInv, FewSyns

LEMMA AckInvInit == TwoHosts /\ FewSyns /\ Init => AckInv
<1> SUFFICES ASSUME TwoHosts, FewSyns, Init PROVE AckInv
  OBVIOUS
<1>1. PeerInv
  BY PeerInvInit
<1>2. ASSUME NEW h \in Host, NEW g \in Host \ {h} PROVE Counted(wire[h], rseq[h], lseq[g])
  <2>1. wire[h] = <<>> /\ rseq[h] = 0 /\ lseq[g] = ClientStart
    BY DEF Init
  <2>2. ~FinIn(wire[h])
    BY <2>1 DEF FinIn
  <2> QED BY <2>1, <2>2 DEF Counted, FinsIn, ClientStart
<1>3. ASSUME NEW h \in Host PROVE SynsOnly(h) /\ attempt[h] = 0
  <2>1. attempt[h] = 0 /\ lseq[h] = ClientStart /\ calls = MaxCalls
    BY DEF Init
  <2>2. MaxCalls * Attempts \in Nat
    BY TcpAssumption, Times
  <2> QED BY <2>1, <2>2 DEF SynsOnly, SynsLeft, ClientStart
<1> QED BY <1>1, <1>2, <1>3 DEF AckInv, Truthful

\* No host acknowledges what its peer has not sent, on any network that repeats
\* no segment: what is on the way to it, and what it has taken, lies below the
\* peer's local_seq, also when that is set anew as the peer accepts.
THEOREM NeverAhead == TwoHosts /\ FewSyns /\ Spec => []AcksNeverAhead
<1>1. AckInv => AcksNeverAhead
  <2> SUFFICES ASSUME AckInv, "repeat" \notin network, NEW h \in Host, NEW g \in Host, Peers(h, g)
               PROVE  rseq[h] <= lseq[g]
    BY DEF AcksNeverAhead
  <2>1. h # g
    BY DEF AckInv, PeerInv, Peers
  <2>2. Counted(wire[h], rseq[h], lseq[g])
    BY <2>1 DEF AckInv, Truthful
  <2>3. rseq[h] \in Nat /\ lseq[g] \in Nat
    BY DEF AckInv, PeerInv, TypeOK
  <2> QED BY <2>2, <2>3 DEF Counted, FinsIn
<1> QED BY <1>1, AckInvInit, AckInvStep, PTL DEF Spec

\* u comes in order: data lies past what is acknowledged up to r, past all that
\* is before it, and before a FIN.
InOrder(u, r) ==
    \A j \in 1 .. Len(u) : u[j].len > 0 =>
        /\ r <= u[j].seq
        /\ \A i \in 1 .. j - 1 :
             /\ ~Fin(u[i])
             /\ "SYN" \in u[i].flags => u[i].seq + 1 <= u[j].seq
             /\ u[i].len > 0 => u[i].seq + u[i].len <= u[j].seq

OrderInv ==
    /\ AckInv
    /\ network \subseteq {"lose"} => \A h \in Host : InOrder(wire[h], rseq[h])

LEMMA InOrderRemoved ==
  ASSUME NEW u \in Seq(Segment), 1 \in 1 .. Len(u), NEW r \in Nat, InOrder(u, r)
  PROVE  /\ InOrder(RemoveAt(u, 1), r)
         /\ \A q \in Nat :
              \/ Fin(u[1])
              \/ "SYN" \in u[1].flags /\ q = u[1].seq + 1
              \/ u[1].len > 0 /\ q = u[1].seq + u[1].len
              => InOrder(RemoveAt(u, 1), q)
<1> DEFINE v == RemoveAt(u, 1)
<1>1. /\ v \in Seq(Segment) /\ Len(v) = Len(u) - 1
      /\ \A j \in 1 .. Len(u) - 1 : v[j] = IF j < 1 THEN u[j] ELSE u[j + 1]
  BY RemoveAtAt
<1>2. \A j \in 1 .. Len(v) : j + 1 \in 1 .. Len(u) /\ v[j] = u[j + 1]
  BY <1>1
<1> HIDE DEF v
<1>3. ASSUME NEW j \in 1 .. Len(v), v[j].len > 0
      PROVE  /\ r <= v[j].seq
             /\ ~Fin(u[1])
             /\ "SYN" \in u[1].flags => u[1].seq + 1 <= v[j].seq
             /\ u[1].len > 0 => u[1].seq + u[1].len <= v[j].seq
             /\ \A i \in 1 .. j - 1 :
                  /\ ~Fin(v[i])
                  /\ "SYN" \in v[i].flags => v[i].seq + 1 <= v[j].seq
                  /\ v[i].len > 0 => v[i].seq + v[i].len <= v[j].seq
  <2>1. j + 1 \in 1 .. Len(u) /\ v[j] = u[j + 1] /\ u[j + 1].len > 0
    BY <1>2, <1>3
  <2>2. /\ r <= u[j + 1].seq
        /\ \A i \in 1 .. (j + 1) - 1 :
             /\ ~Fin(u[i])
             /\ "SYN" \in u[i].flags => u[i].seq + 1 <= u[j + 1].seq
             /\ u[i].len > 0 => u[i].seq + u[i].len <= u[j + 1].seq
    BY <2>1 DEF InOrder
  <2>3. 1 \in 1 .. (j + 1) - 1
    BY <2>1
  <2>4. ASSUME NEW i \in 1 .. j - 1
        PROVE  /\ ~Fin(v[i])
               /\ "SYN" \in v[i].flags => v[i].seq + 1 <= v[j].seq
               /\ v[i].len > 0 => v[i].seq + v[i].len <= v[j].seq
    <3>1. i \in 1 .. Len(v) /\ i + 1 \in 1 .. (j + 1) - 1
      BY <1>1
    <3>2. v[i] = u[i + 1]
      BY <1>2, <3>1
    <3> QED BY <2>1, <2>2, <3>1, <3>2
  <2> QED BY <2>1, <2>2, <2>3, <2>4
<1>4. InOrder(v, r)
  BY <1>3 DEF InOrder
<1>5. ASSUME NEW q \in Nat,
             \/ Fin(u[1])
             \/ "SYN" \in u[1].flags /\ q = u[1].seq + 1
             \/ u[1].len > 0 /\ q = u[1].seq + u[1].len
      PROVE  InOrder(v, q)
  <2>1. ASSUME NEW j \in 1 .. Len(v), v[j].len > 0 PROVE q <= v[j].seq
    BY <1>3, <1>5, <2>1
  <2> QED BY <1>3, <2>1 DEF InOrder
<1> QED BY <1>4, <1>5 DEF v

\* Data that takes up where local_seq is lies past all that was sent.
LEMMA InOrderSent ==
  ASSUME NEW u \in Seq(Segment), NEW r \in Nat, NEW n \in Nat, NEW s \in Segment,
         InOrder(u, r), Counted(u, r, n),
         s.len > 0 => s.seq = n /\ ~FinIn(u)
  PROVE  InOrder(Append(u, s), r)
<1> DEFINE v == Append(u, s)
<1>1. v[Len(u) + 1] = s /\ Len(v) = Len(u) + 1 /\ \A j \in 1 .. Len(u) : v[j] = u[j]
  OBVIOUS
<1>2. Len(u) \in Nat
  OBVIOUS
<1> HIDE DEF v
<1>3. ASSUME NEW j \in 1 .. Len(v), v[j].len > 0
      PROVE  /\ r <= v[j].seq
             /\ \A i \in 1 .. j - 1 :
                  /\ ~Fin(v[i])
                  /\ "SYN" \in v[i].flags => v[i].seq + 1 <= v[j].seq
                  /\ v[i].len > 0 => v[i].seq + v[i].len <= v[j].seq
  <2>1. CASE j \in 1 .. Len(u)
    <3>1. v[j] = u[j] /\ \A i \in 1 .. j - 1 : v[i] = u[i]
      BY <1>1, <1>2, <2>1
    <3> QED BY <1>3, <2>1, <3>1 DEF InOrder
  <2>2. CASE j = Len(u) + 1
    <3>1. v[j] = s /\ s.seq = n /\ ~FinIn(u)
      BY <1>1, <1>3, <2>2
    <3>2. FinsIn(u) = 0
      BY <3>1 DEF FinsIn
    <3>3. r <= n
      BY <3>2 DEF Counted
    <3>4. ASSUME NEW i \in 1 .. Len(u)
          PROVE  /\ ~Fin(u[i])
                 /\ "SYN" \in u[i].flags => u[i].seq + 1 <= n
                 /\ u[i].len > 0 => u[i].seq + u[i].len <= n
      <4>1. ~Fin(u[i])
        BY <3>1 DEF FinIn
      <4>2. u[i].seq \in Nat /\ u[i].len \in Nat
        BY SegmentNumbers
      <4> QED BY <3>2, <4>1, <4>2 DEF Counted
    <3>5. \A i \in 1 .. j - 1 : i \in 1 .. Len(u) /\ v[i] = u[i]
      BY <1>1, <1>2, <2>2
    <3> QED BY <3>1, <3>3, <3>4, <3>5
  <2> QED BY <1>1, <1>2, <2>1, <2>2
<1>4. InOrder(v, r)
  BY <1>3 DEF InOrder
<1> QED BY <1>4 DEF v

\* A step of h: at most one segment goes to the other end, with the data that
\* local_seq is at, or none.
Sends(h, g) ==
    \/ wire'[g] = wire[g]
    \/ \E s \in Segment : /\ wire'[g] = Append(wire[g], s)
                          /\ s.len > 0 => s.seq = lseq[h] /\ ~Ended(h)

LEMMA OrderStep ==
  ASSUME PeerInv, Truthful, NEW h \in Host, NEW g \in Host \ {h},
         \A k \in Host : InOrder(wire[k], rseq[k]),
         rseq'[g] = rseq[g], InOrder(wire'[h], rseq'[h]), Sends(h, g)
  PROVE  \A k \in Host : InOrder(wire[k], rseq[k])'
<1>1. Host = {h, g} /\ h # g /\ TypeOK
  BY Other DEF PeerInv
<1>2. wire[g] \in Seq(Segment) /\ rseq[g] \in Nat /\ lseq[h] \in Nat
  BY <1>1 DEF TypeOK
<1>3. InOrder(wire[g], rseq[g]) /\ Counted(wire[g], rseq[g], lseq[h])
  BY <1>1 DEF Truthful
<1>4. InOrder(wire'[g], rseq'[g])
  <2>1. CASE wire'[g] = wire[g]
    BY <1>3, <2>1
  <2>2. ASSUME NEW s \in Segment, wire'[g] = Append(wire[g], s),
               s.len > 0 => s.seq = lseq[h] /\ ~Ended(h)
        PROVE  InOrder(wire'[g], rseq'[g])
    <3>1. s.len > 0 => s.seq = lseq[h] /\ ~FinIn(wire[g])
      BY <2>2, NoFin
    <3> QED BY <1>2, <1>3, <2>2, <3>1, InOrderSent
  <2> QED BY <2>1, <2>2 DEF Sends
<1>5. \A k \in Host : InOrder(wire'[k], rseq'[k])
  BY <1>1, <1>4
<1> QED BY <1>5 DEF InOrder, Fin

LEMMA EmitSends ==
  ASSUME TypeOK, NEW w \in [Host -> Seq(Segment)], NEW h \in Host, NEW g \in Host \ {h},
         w[g] = wire[g], NEW f \in SUBSET Flag, NEW l \in Nat, NEW r \in Nat,
         NEW n \in 0 .. MaxLen, Emit(w, h, g, f, l, r, n),
         n > 0 => l = lseq[h] /\ ~Ended(h)
  PROVE  wire'[h] = w[h] /\ Sends(h, g)
<1>0. g \in Host
  OBVIOUS
<1>1. PICK s \in Segment :
         /\ s.from = h /\ s.flags = f /\ s.seq = l /\ s.len = n
         /\ wire'[g] = Append(w[g], s) /\ \A k \in Host \ {g} : wire'[k] = w[k]
         /\ lseq'[h] = Advance(s) /\ \A k \in Host \ {h} : lseq'[k] = lseq[k]
  BY ONLY TypeOK, <1>0, w \in [Host -> Seq(Segment)], h \in Host, f \in SUBSET Flag,
          n \in 0 .. MaxLen, l \in Nat, r \in Nat, Emit(w, h, g, f, l, r, n), Emitted
<1> QED BY <1>1 DEF Sends

\* tcp_recv takes the first segment off the wire.
LEMMA OrderRecv ==
  ASSUME PeerInv, NEW h \in Host, NEW g \in Host \ {h}, 1 \in 1 .. Len(wire[h]),
         InOrder(wire[h], rseq[h]), Recv(h, wire[h][1], Without(h, 1))
  PROVE  rseq'[g] = rseq[g] /\ InOrder(wire'[h], rseq'[h]) /\ Sends(h, g)
<1>0. TypeOK /\ Host = {h, g} /\ h # g
  BY Other DEF PeerInv
<1>1. PICK s \in Segment : s = wire[h][1]
  BY <1>0 DEF TypeOK
<1>2. PICK w \in [Host -> Seq(Segment)] :
         w = Without(h, 1) /\ w[h] = RemoveAt(wire[h], 1) /\ w[g] = wire[g]
  BY <1>0, WithoutIs
<1>3. Recv(h, s, w) /\ Proper(h, s)
  BY <1>1, <1>2 DEF PeerInv
<1>4. rseq \in [Host -> Nat] /\ wire[h] \in Seq(Segment)
  BY <1>0 DEF TypeOK
<1>5. /\ s.seq \in Nat /\ s.len \in 0 .. MaxLen /\ s.len \in Nat
      /\ s.seq + 1 \in Nat /\ s.seq + s.len \in Nat
      /\ lseq[h] \in Nat /\ rseq[h] + 1 \in Nat /\ 0 \in 0 .. MaxLen /\ ServerStart \in Nat
      /\ {"SYN", "ACK"} \in SUBSET Flag /\ {"ACK"} \in SUBSET Flag
  BY <1>0, <1>1, <1>4, NumbersType, SegmentNumbers
<1>6. rseq[h] \in Nat
  BY <1>4
<1>7. /\ InOrder(w[h], rseq[h])
      /\ \A q \in Nat : \/ Fin(s)
                        \/ "SYN" \in s.flags /\ q = s.seq + 1
                        \/ s.len > 0 /\ q = s.seq + s.len
                        => InOrder(w[h], q)
  BY <1>1, <1>2, <1>4, <1>6, InOrderRemoved
<1>8. s.from = g /\ remote[h] \in {g, NoHost} /\ NoHost \notin Host
  <2>1. s.from \in Host
    BY DEF Segment
  <2>2. remote[h] \in Host \cup {NoHost} /\ remote[h] # h
    BY <1>0 DEF PeerInv, TypeOK
  <2> QED BY <1>0, <1>3, <2>1, <2>2, TcpAssumption DEF Proper
<1>9. ASSUME NEW f \in SUBSET Flag, NEW l \in Nat, NEW q \in Nat,
             Emit(w, h, remote[h], f, l, q, 0) \/ Emit(w, h, g, f, l, q, 0)
      PROVE  wire'[h] = w[h] /\ Sends(h, g)
  <2>1. CASE Emit(w, h, g, f, l, q, 0)
    <3>1. PICK n \in 0 .. MaxLen : n = 0
      BY <1>5
    <3>2. Emit(w, h, g, f, l, q, n) /\ (n > 0 => l = lseq[h] /\ ~Ended(h)) /\ w[g] = wire[g]
      BY <1>2, <2>1, <3>1
    <3>3. TypeOK
      BY <1>0
    <3> QED BY ONLY <3>3, w \in [Host -> Seq(Segment)], h \in Host, g \in Host \ {h},
                    f \in SUBSET Flag, l \in Nat, q \in Nat, n \in 0 .. MaxLen, <3>2, EmitSends
  <2>2. CASE remote[h] = NoHost /\ Emit(w, h, remote[h], f, l, q, 0)
    BY <1>2, <1>8, <2>2 DEF Emit, Sent, Sends
  <2> QED BY <1>8, <1>9, <2>1, <2>2
<1>10. CASE Accepts(h, s) /\ Accept(h, s, w)
  <2>1. rseq' = [rseq EXCEPT ![h] = s.seq + 1] /\ "SYN" \in s.flags
    BY <1>10 DEF Accepts, Accept
  <2>2. Emit(w, h, g, {"SYN", "ACK"}, ServerStart, s.seq + 1, 0)
    BY <1>8, <1>10 DEF Accept
  <2>3. rseq'[h] = s.seq + 1 /\ rseq'[g] = rseq[g]
    BY <1>0, <1>4, <2>1
  <2> QED BY <1>5, <1>7, <1>9, <2>1, <2>2, <2>3
<1>11. CASE Connects(h, s) /\ Established(h, s, w)
  <2>1. rseq' = [rseq EXCEPT ![h] = s.seq + 1] /\ "SYN" \in s.flags
    BY <1>11 DEF Connects, Established
  <2>2. Emit(w, h, remote[h], {"ACK"}, lseq[h], s.seq + 1, 0)
    BY <1>11 DEF Established
  <2>3. rseq'[h] = s.seq + 1 /\ rseq'[g] = rseq[g]
    BY <1>0, <1>4, <2>1
  <2> QED BY <1>5, <1>7, <1>9, <2>1, <2>2, <2>3
<1>12. CASE wire' = w /\ rseq' = rseq
  BY <1>2, <1>7, <1>12 DEF Sends
<1>13. CASE Finished(h, s) /\ TimeWait(h, w)
  <2>1. rseq' = [rseq EXCEPT ![h] = rseq[h] + 1] /\ Fin(s)
    BY <1>13 DEF Finished, TimeWait, Fin
  <2>2. Emit(w, h, remote[h], {"ACK"}, lseq[h], rseq[h] + 1, 0)
    BY <1>13 DEF TimeWait
  <2>3. rseq'[h] = rseq[h] + 1 /\ rseq'[g] = rseq[g]
    BY <1>0, <1>4, <2>1
  <2> QED BY <1>5, <1>7, <1>9, <2>1, <2>2, <2>3
<1>14. CASE TakesData(h, s) /\ Take(h, s, w)
  <2>1. rseq' = [rseq EXCEPT ![h] = s.seq + s.len] /\ s.len > 0
    BY <1>14 DEF TakesData, Take, Took
  <2>2. Emit(w, h, remote[h], {"ACK"}, lseq[h], s.seq + s.len, 0)
    BY <1>14 DEF Take, Took
  <2>3. rseq'[h] = s.seq + s.len /\ rseq'[g] = rseq[g]
    BY <1>0, <1>4, <2>1
  <2> QED BY <1>5, <1>7, <1>9, <2>1, <2>2, <2>3
<1> QED BY <1>3, <1>10, <1>11, <1>12, <1>13, <1>14 DEF Recv, FinWait2

\* Without reordering and repeating, it is the first segment that is taken.
LEMMA FirstOnly ==
  ASSUME TypeOK, NEW h \in Host, network \subseteq {"lose"}, Deliver(h)
  PROVE  1 \in 1 .. Len(wire[h]) /\ Recv(h, wire[h][1], Without(h, 1))
<1>1. wire[h] \in Seq(Segment)
  BY DEF TypeOK
<1>2. wire[h] # <<>> => 1 \in 1 .. Len(wire[h])
  BY <1>1
<1> QED BY <1>2 DEF Deliver, Mishap

LEMMA OrderInvStep == OrderInv /\ [Next]_vars => OrderInv'
<1> SUFFICES ASSUME OrderInv, [Next]_vars PROVE OrderInv'
  OBVIOUS
<1>s. AckInv' /\ network' = network
  BY AckInvStep, NetworkStays DEF OrderInv
<1> SUFFICES ASSUME network \subseteq {"lose"}
             PROVE  \A k \in Host : InOrder(wire[k], rseq[k])'
  BY <1>s DEF OrderInv
<1>0. /\ PeerInv /\ Truthful /\ TypeOK /\ TwoHosts
      /\ \A k \in Host : InOrder(wire[k], rseq[k])
  <2>1. AckInv /\ "repeat" \notin network
    BY DEF OrderInv
  <2> QED BY <2>1 DEF OrderInv, AckInv, PeerInv
<1>t. /\ wire \in [Host -> Seq(Segment)] /\ \A k \in Host : lseq[k] \in Nat /\ rseq[k] \in Nat
      /\ 0 \in 0 .. MaxLen
      /\ {"SYN"} \in SUBSET Flag /\ {"ACK", "PSH"} \in SUBSET Flag /\ {"FIN", "ACK"} \in SUBSET Flag
  BY <1>0, TcpAssumption DEF TypeOK, Flag
<1>a. ASSUME NEW h \in Host
      PROVE  \E g \in Host \ {h} : remote[h] \in Host => remote[h] = g
  <2>1. PICK g \in Host : g # h
    BY <1>0 DEF TwoHosts
  <2>2. Host = {h, g} /\ remote[h] # h
    BY <1>0, <2>1, Other DEF PeerInv
  <2> QED BY <2>1, <2>2
<1>e. ASSUME NEW h \in Host, NEW g \in Host \ {h}, NEW f \in SUBSET Flag, NEW n \in 0 .. MaxLen,
             Emit(wire, h, g, f, lseq[h], rseq[h], n), n > 0 => ~Ended(h), rseq' = rseq
      PROVE  \A k \in Host : InOrder(wire[k], rseq[k])'
  <2>1. PICK l \in Nat, r \in Nat : l = lseq[h] /\ r = rseq[h]
    BY <1>t
  <2>2. Emit(wire, h, g, f, l, r, n) /\ (n > 0 => l = lseq[h] /\ ~Ended(h)) /\ wire[g] = wire[g]
    BY <1>e, <2>1
  <2>3. TypeOK /\ wire \in [Host -> Seq(Segment)]
    BY <1>0, <1>t
  <2>4. wire'[h] = wire[h] /\ Sends(h, g)
    BY ONLY <2>3, h \in Host, g \in Host \ {h}, f \in SUBSET Flag, l \in Nat, r \in Nat,
            n \in 0 .. MaxLen, <2>2, EmitSends
  <2> QED BY <1>0, <1>e, <2>4, OrderStep
<1>f. ASSUME NEW h \in Host, NEW g \in Host \ {h}, NEW f \in SUBSET Flag,
             Emit(wire, h, g, f, lseq[h], rseq[h], 0), rseq' = rseq
      PROVE  \A k \in Host : InOrder(wire[k], rseq[k])'
  <2>1. PICK n \in 0 .. MaxLen : n = 0
    BY <1>t
  <2>2. Emit(wire, h, g, f, lseq[h], rseq[h], n) /\ ~(n > 0)
    BY <1>f, <2>1
  <2> QED BY <1>e, <1>f, <2>2
<1>1. ASSUME NEW h \in Host, NEW g \in Host \ {h}, Connect(h, g)
      PROVE  \A k \in Host : InOrder(wire[k], rseq[k])'
  BY <1>1, <1>f, <1>t DEF Connect, SendSyn
<1>2. ASSUME NEW h \in Host, Waited(h), SendSyn(h, remote[h])
      PROVE  \A k \in Host : InOrder(wire[k], rseq[k])'
  <2>1. PICK g \in Host \ {h} : remote[h] \in Host => remote[h] = g
    BY <1>a
  <2>2. remote[h] = g
    BY <1>0, <1>2, <2>1 DEF Waited, PeerInv
  <2> QED BY <1>2, <1>f, <1>t, <2>2 DEF Waited, SendSyn
<1>3. ASSUME NEW h \in Host, NEW n \in 1 .. MaxLen, SendData(h, n)
      PROVE  \A k \in Host : InOrder(wire[k], rseq[k])'
  <2>1. PICK g \in Host \ {h} : remote[h] \in Host => remote[h] = g
    BY <1>a
  <2>2. state[h] = "established" /\ rseq' = rseq
    BY <1>3 DEF SendData
  <2>3. remote[h] = g
    BY <1>0, <2>1, <2>2 DEF PeerInv
  <2>4. Emit(wire, h, g, {"ACK", "PSH"}, lseq[h], rseq[h], n)
    BY <1>3, <2>3 DEF SendData
  <2>5. ~Ended(h) /\ n \in 0 .. MaxLen
    BY <2>2 DEF Ended
  <2> QED BY <1>e, <1>t, <2>2, <2>4, <2>5
<1>4. ASSUME NEW h \in Host, Close(h)
      PROVE  \A k \in Host : InOrder(wire[k], rseq[k])'
  <2>1. PICK g \in Host \ {h} : remote[h] \in Host => remote[h] = g
    BY <1>a
  <2>2. state[h] = "established" /\ rseq' = rseq
    BY <1>4 DEF Close
  <2>3. remote[h] = g
    BY <1>0, <2>1, <2>2 DEF PeerInv
  <2>4. Emit(wire, h, g, {"FIN", "ACK"}, lseq[h], rseq[h], 0)
    BY <1>4, <2>3 DEF Close
  <2> QED BY <1>f, <1>t, <2>2, <2>4
<1>5. ASSUME NEW h \in Host, Deliver(h)
      PROVE  \A k \in Host : InOrder(wire[k], rseq[k])'
  <2>1. PICK g \in Host \ {h} : remote[h] \in Host => remote[h] = g
    BY <1>a
  <2>2. 1 \in 1 .. Len(wire[h]) /\ Recv(h, wire[h][1], Without(h, 1))
    BY <1>0, <1>5, FirstOnly
  <2>3. rseq'[g] = rseq[g] /\ InOrder(wire'[h], rseq'[h]) /\ Sends(h, g)
    BY <1>0, <2>2, OrderRecv
  <2> QED BY <1>0, <2>3, OrderStep
<1>6. ASSUME NEW h \in Host, Lose(h)
      PROVE  \A k \in Host : InOrder(wire[k], rseq[k])'
  <2>1. PICK g \in Host \ {h} : remote[h] \in Host => remote[h] = g
    BY <1>a
  <2>2. rseq' = rseq /\ wire' = Without(h, 1) /\ wire[h] # <<>>
    BY <1>6 DEF Lose, conn
  <2>3. 1 \in 1 .. Len(wire[h]) /\ wire[h] \in Seq(Segment) /\ rseq[h] \in Nat
    BY <1>t, <2>2
  <2>4. wire'[h] = RemoveAt(wire[h], 1) /\ wire'[g] = wire[g]
    BY <1>0, <2>2, <2>3, WithoutIs
  <2>5. InOrder(wire'[h], rseq'[h])
    BY <1>0, <2>2, <2>3, <2>4, InOrderRemoved
  <2> QED BY <1>0, <2>2, <2>4, <2>5, OrderStep DEF Sends
<1>7. ASSUME UNCHANGED <<wire, rseq>> PROVE \A k \in Host : InOrder(wire[k], rseq[k])'
  BY <1>0, <1>7 DEF InOrder, Fin
<1>8. ASSUME NEW h \in Host, Listen(h) \/ Fetch(h) \/ Waited(h)
      PROVE  \A k \in Host : InOrder(wire[k], rseq[k])'
  BY <1>2, <1>7, <1>8 DEF Listen, Fetch, Waited, conn
<1> QED BY <1>1, <1>3, <1>4, <1>5, <1>6, <1>7, <1>8 DEF Next, vars, conn

LEMMA OrderInvInit == TwoHosts /\ FewSyns /\ Init => OrderInv
BY AckInvInit DEF OrderInv, InOrder, Init

\* Only tcp_recv puts data into the buffer: the first segment on the wire.
LEMMA TakesFirst ==
  OrderInv /\ [Next]_vars =>
    (network \subseteq {"lose"} =>
       \A h \in Host : rx'[h] \notin {rx[h], NoData} => rx'[h].seq >= rseq[h])
<1> SUFFICES ASSUME OrderInv, [Next]_vars, network \subseteq {"lose"},
                    NEW k \in Host, rx'[k] \notin {rx[k], NoData}
             PROVE  rx'[k].seq >= rseq[k]
  OBVIOUS
<1>0. TypeOK /\ InOrder(wire[k], rseq[k])
  BY DEF OrderInv, AckInv, PeerInv
<1>1. rx \in [Host -> Payload \cup {NoData}]
  BY <1>0 DEF TypeOK
<1>2. \E h \in Host : Deliver(h)
  <2>1. ASSUME NEW h \in Host, Fetch(h) PROVE FALSE
    BY <1>1, <2>1 DEF Fetch
  <2>2. rx' # rx
    BY <1>1
  <2> QED BY <2>1, <2>2 DEF Next, Listen, Connect, Waited, SendData, Close, Lose, vars
<1>3. PICK h \in Host : Deliver(h)
  BY <1>2
<1>4. 1 \in 1 .. Len(wire[h]) /\ Recv(h, wire[h][1], Without(h, 1))
  BY <1>0, <1>3, FirstOnly
<1>5. PICK s \in Segment : s = wire[h][1]
  BY <1>0, <1>4 DEF TypeOK
<1>6. s.len > 0 /\ rx' = [rx EXCEPT ![h] = [from |-> s.from, seq |-> s.seq, len |-> s.len]]
  BY <1>1, <1>4, <1>5 DEF Recv, Accept, Established, FinWait2, TimeWait, Take, TakesData
<1>7. h = k /\ rx'[k].seq = s.seq
  BY <1>1, <1>6
<1>8. rseq[k] <= s.seq
  BY <1>0, <1>4, <1>5, <1>6, <1>7 DEF InOrder
<1>9. rseq[k] \in Nat /\ s.seq \in Nat
  BY <1>0 DEF TypeOK, Segment
<1> QED BY <1>7, <1>8, <1>9

\* While segments stay in order and are not repeated, what tcp_recv takes is new,
\* however many are lost.
THEOREM InOrderTaken == TwoHosts /\ FewSyns /\ Spec => TakenInOrder
BY OrderInvInit, OrderInvStep, TakesFirst, PTL DEF Spec, TakenInOrder

=============================================================================
