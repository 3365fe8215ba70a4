------------------------------ MODULE IpProofs ------------------------------
(***************************************************************************)
(* Proofs about module Ip: whatever is sent, and to whom, a machine takes  *)
(* no packet that another one with the same code has sent.                 *)
(***************************************************************************)
EXTENDS Ip, TLAPS

Byte    == 0 .. 255
Address == [1 .. 4 -> Byte]

\* A sum of words that sixteen bits do not hold.
Carries(acc) == acc \in Int /\ 65536 <= acc /\ acc <= 16 * 65536

LEMMA BytesOf ==
  ASSUME NEW x \in Nat, x <= 65535
  PROVE  x \div 256 \in Byte /\ x % 256 \in Byte
<1>1. x \div 256 \in Int /\ 0 <= x \div 256 /\ x \div 256 <= 255
  OBVIOUS
<1> QED BY <1>1 DEF Byte

\* What ip_send fills the header with is more than sixteen bits hold, whatever
\* the checksum in it: local_ip, id, flags_frag and ttl alone are.
LEMMA SumIsLarge ==
  ASSUME NEW dest \in Address, NEW total \in Nat, total <= 65535, NEW proto \in Byte,
         NEW sum \in Nat, sum <= 65535
  PROVE  Carries(Sum(Fields(dest, total, proto, sum)))
<1>1. /\ total \div 256 \in Byte /\ total % 256 \in Byte
      /\ sum \div 256 \in Byte /\ sum % 256 \in Byte
  BY BytesOf
<1>2. PICK a \in Byte, b \in Byte, c \in Byte : a = dest[1] /\ b = dest[2] /\ c = dest[3]
  BY DEF Address
<1>3. PICK thi \in Byte, tlo \in Byte : thi = total \div 256 /\ tlo = total % 256
  BY <1>1
<1>4. PICK shi \in Byte, slo \in Byte : shi = sum \div 256 /\ slo = sum % 256
  BY <1>1
<1> DEFINE h == Fields(dest, total, proto, sum)
<1>5. h = <<69, 0, thi, tlo, 18, 52, 64, 0, 64, 0, proto, slo, shi, 192, 168, 0, 2, a, b, c>>
  BY <1>2, <1>3, <1>4 DEF Fields
<1> HIDE DEF h
<1>6. /\ h[1] = 69 /\ h[2] = 0 /\ h[3] = thi /\ h[4] = tlo /\ h[5] = 18 /\ h[6] = 52
      /\ h[7] = 64 /\ h[8] = 0 /\ h[9] = 64 /\ h[10] = 0
  BY <1>5
<1>7. /\ h[11] = proto /\ h[12] = slo /\ h[13] = shi /\ h[14] = 192 /\ h[15] = 168
      /\ h[16] = 0 /\ h[17] = 2 /\ h[18] = a /\ h[19] = b /\ h[20] = c
  BY <1>5
<1>8. Sum(h) = 256 * (69 + thi + 18 + 64 + 64 + proto + shi + 168 + 2 + b)
               + 0 + tlo + 52 + 0 + 0 + slo + 192 + 0 + a + c
  BY <1>6, <1>7 DEF Sum, Byte
<1>9. Carries(Sum(h))
  BY <1>8 DEF Byte, Carries
<1> QED BY <1>9 DEF h

\* Folded with the mask 0xFFF a sum with a carry is never all ones.
LEMMA CarryIsLost ==
  ASSUME NEW acc, Carries(acc)
  PROVE  Folded(acc) \in Nat /\ Folded(acc) <= 4111
BY DEF Folded, Carries

\* ip_recv finds the checksum of a packet wrong that ip_send built.
LEMMA NoneAccepted ==
  ASSUME NEW dest \in Address, NEW total \in Nat, total <= 65535, NEW proto \in Byte, NEW n
  PROVE  ~Accepted(IpHeader(dest, total, proto), n)
<1> DEFINE blank == Sum(Fields(dest, total, proto, 0))
           sum   == ip_checksum(Fields(dest, total, proto, 0))
           acc   == Sum(Fields(dest, total, proto, sum))
<1>1. Carries(blank)
  BY SumIsLarge
<1>2. Folded(blank) \in Nat /\ Folded(blank) <= 4111
  BY <1>1, CarryIsLost
<1>3. sum \in Nat /\ sum <= 65535
  BY <1>2 DEF ip_checksum
<1> HIDE DEF sum
<1>4. Carries(acc)
  BY <1>3, SumIsLarge
<1>5. Folded(acc) \in Nat /\ Folded(acc) <= 4111
  BY <1>4, CarryIsLost
<1>6. ip_checksum(Fields(dest, total, proto, sum)) # 0
  BY <1>5 DEF ip_checksum
<1> QED BY <1>6 DEF Accepted, IpHeader, sum

-----------------------------------------------------------------------------
OurFrame(f) ==
    \E dest \in Address, total \in Nat, proto \in Byte :
        total <= 65535 /\ f.header = IpHeader(dest, total, proto)

NothingIn ==
    /\ \A f \in wire : f.type = ETH_P_IP => OurFrame(f)
    /\ udp_rx.len = 0 /\ segment = NoSegment

LEMMA PutKeeps ==
  ASSUME NothingIn, NEW f, f.type = ETH_P_IP => OurFrame(f), Put(f)
  PROVE  NothingIn'
BY DEF NothingIn, Put, OurFrame

LEMMA HandleKeeps ==
  ASSUME NothingIn, NEW f \in wire, ethernet_handle(f)
  PROVE  NothingIn'
<1>1. CASE f.type = ETH_P_IP
  <2>1. PICK dest \in Address, total \in Nat, proto \in Byte :
             total <= 65535 /\ f.header = IpHeader(dest, total, proto)
    BY <1>1 DEF NothingIn, OurFrame
  <2>2. ~Accepted(f.header, 20 + f.len)
    BY <2>1, NoneAccepted
  <2>3. UNCHANGED <<udp_rx, segment>>
    BY <1>1, <2>2 DEF ethernet_handle, ip_recv, UDP, TCP
  <2> QED BY <2>3 DEF NothingIn, ethernet_handle, OurFrame
<1>2. CASE f.type # ETH_P_IP
  BY <1>2 DEF NothingIn, ethernet_handle, OurFrame
<1> QED BY <1>1, <1>2

LEMMA FrameIsOurs ==
  ASSUME NEW dest \in Address, NEW n \in Nat, n <= 65515, NEW proto \in Byte, NEW port
  PROVE  OurFrame(Frame(dest, proto, n, port))
<1>1. 20 + n \in Nat /\ 20 + n <= 65535
  OBVIOUS
<1>2. Frame(dest, proto, n, port).header = IpHeader(dest, 20 + n, proto)
  BY DEF Frame
<1> QED BY <1>1, <1>2 DEF OurFrame

\* Of the machines that run this code none ever hands a packet of another one to
\* udp_recv or tcp_recv: the mask of ip_checksum loses the carries, and the
\* fields ip_send fills in always have one.
THEOREM NoPacketOfOursIsTaken ==
  ASSUME Dests \subseteq Address, Sizes \subseteq 0 .. 1500
  PROVE  Spec => [](udp_rx.len = 0 /\ segment = NoSegment)
<1>1. Init => NothingIn
  BY DEF Init, NothingIn, NoDatagram
<1>2. NothingIn /\ [Next]_vars => NothingIn'
  <2> SUFFICES ASSUME NothingIn, [Next]_vars PROVE NothingIn'
    OBVIOUS
  <2>1. CASE UNCHANGED vars
    BY <2>1 DEF vars, NothingIn, OurFrame
  <2>2. ASSUME NEW d \in Dests, NEW n \in Sizes, udp_send(d, n) PROVE NothingIn'
    <3>1. /\ d \in Address /\ UDP \in Byte
          /\ UDP_HEADER_SIZE + n \in Nat /\ UDP_HEADER_SIZE + n <= 65515
      BY DEF UDP, Byte, UDP_HEADER_SIZE
    <3> QED BY <2>2, <3>1, FrameIsOurs, PutKeeps DEF udp_send
  <2>3. ASSUME NEW d \in Dests, NEW n \in Sizes, tcp_send_packet(d, n) PROVE NothingIn'
    <3>1. /\ d \in Address /\ TCP \in Byte
          /\ TCP_HEADER_SIZE + n \in Nat /\ TCP_HEADER_SIZE + n <= 65515
      BY DEF TCP, Byte, TCP_HEADER_SIZE
    <3> QED BY <2>3, <3>1, FrameIsOurs, PutKeeps DEF tcp_send_packet
  <2>4. CASE Arp
    BY <2>4, PutKeeps DEF Arp, ETH_P_IP, ETH_P_ARP
  <2>5. CASE udp_receive
    BY <2>5 DEF udp_receive, NothingIn
  <2> QED BY <2>1, <2>2, <2>3, <2>4, <2>5, HandleKeeps DEF Next
<1>3. NothingIn => udp_rx.len = 0 /\ segment = NoSegment
  BY DEF NothingIn
<1> QED BY <1>1, <1>2, <1>3, PTL DEF Spec

=============================================================================
