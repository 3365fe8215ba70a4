--------------------------------- MODULE Ip ---------------------------------
(***************************************************************************)
(* IP, UDP and Ethernet (net/ip.c, net/udp.c, net/ethernet.c): machines    *)
(* that run this code send each other datagrams and TCP segments.          *)
(*                                                                         *)
(* Machines have one address, local_ip, built in, and send every frame to  *)
(* the broadcast address; the model follows one of them as it sends and    *)
(* takes in what comes.  Of a packet the twenty bytes that the checksum    *)
(* covers are kept as they are; of its payload the fields that are read.   *)
(***************************************************************************)
EXTENDS Integers, FiniteSets

CONSTANTS
    Dests,       \* addresses sent to, four bytes each
    Sizes,       \* numbers of bytes a datagram or a segment carries
    MaxWire      \* bound: frames on the wire

ETH_P_IP          == 2048
ETH_P_ARP         == 2054
UDP               == 17           \* IP_PROTO_UDP
TCP               == 6
UDP_HEADER_SIZE   == 8
TCP_HEADER_SIZE   == 20
UDP_MAX_DATA_SIZE == 1472
LOCAL_PORT        == 1234

VARIABLES
    wire,        \* the frames under way
    udp_rx,      \* udp_rx_len, udp_rx_src_ip and udp_rx_src_port
    got,         \* what udp_receive returned last
    segment      \* the size and the sender of what tcp_recv was called with last

vars == <<wire, udp_rx, got, segment>>

NoDatagram == [len |-> 0, src_ip |-> <<0, 0, 0, 0>>, src_port |-> 0]
NoSegment  == [len |-> 0, src_ip |-> <<0, 0, 0, 0>>]

Init ==
    /\ wire = {}
    /\ udp_rx = NoDatagram /\ got = NoDatagram /\ segment = NoSegment

-----------------------------------------------------------------------------
(* ip_checksum, over a header of twenty bytes: byte k of the source is h[k + 1]. *)

Sum(h) == 256 * (h[1] + h[3] + h[5] + h[7] + h[9] + h[11] + h[13] + h[15] + h[17] + h[19])
          + h[2] + h[4] + h[6] + h[8] + h[10] + h[12] + h[14] + h[16] + h[18] + h[20]

\* The carries are folded in with the mask 0xFFF.  Of ten words one turn of the
\* loop leaves no carry.
Folded(acc) == IF acc < 65536 THEN acc ELSE (acc % 4096) + (acc \div 65536)

ip_checksum(h) == 65535 - Folded(Sum(h))

-----------------------------------------------------------------------------
(* Sending.                                                                 *)

\* ttl has sixteen bits in ipv4_header_t, of which the machine stores the lower
\* ones first: what follows lies one byte further on than in an IPv4 header, and
\* the last byte of dest_ip, the 21st, is written over by the payload.
Fields(dest, total, proto, sum) ==
    <<69, 0, total \div 256, total % 256, 18, 52, 64, 0, 64, 0, proto,
      sum % 256, sum \div 256, 192, 168, 0, 2, dest[1], dest[2], dest[3]>>

\* The header ip_send builds: the checksum is taken with 0 in its place, and
\* stored the lower byte first.
IpHeader(dest, total, proto) ==
    Fields(dest, total, proto, ip_checksum(Fields(dest, total, proto, 0)))

htons(x) == (x % 256) * 256 + x \div 256

\* ip_send and ethernet_send; port is the first field of a datagram, as it is read.
Frame(dest, proto, n, port) ==
    [type |-> ETH_P_IP, header |-> IpHeader(dest, 20 + n, proto),
     port |-> port, len |-> n]

Put(f) ==
    /\ Cardinality(wire) < MaxWire /\ wire' = wire \cup {f}
    /\ UNCHANGED <<udp_rx, got, segment>>

\* Callers keep to the 1500 bytes of the buffer in ip_send.
Fits(n) == 20 + n <= 1500

udp_send(dest, n) ==
    Fits(UDP_HEADER_SIZE + n) /\ Put(Frame(dest, UDP, UDP_HEADER_SIZE + n, htons(LOCAL_PORT)))

\* tcp_send_packet of module Tcp.
tcp_send_packet(dest, n) ==
    Fits(TCP_HEADER_SIZE + n) /\ Put(Frame(dest, TCP, TCP_HEADER_SIZE + n, 0))

\* Other machines ask for addresses.
Arp == Put([type |-> ETH_P_ARP, header |-> Fields(<<0, 0, 0>>, 0, 0, 0), port |-> 0, len |-> 8])

-----------------------------------------------------------------------------
(* Receiving.                                                               *)

Total(h) == 256 * h[3] + h[4]
Ihl(h)   == 4 * (h[1] % 16)
SrcIp(h) == <<h[14], h[15], h[16], h[17]>>

\* ntohl of a field of sixteen bits, cut to sixteen bits again.
PortRead(field) == 256 * ((field \div 65536) % 256) + field \div 16777216

\* The datagram takes the place of one that was not fetched yet.
udp_recv(f, src) ==
    IF f.len - UDP_HEADER_SIZE \notin 1 .. UDP_MAX_DATA_SIZE
    THEN udp_rx
    ELSE [len |-> f.len - UDP_HEADER_SIZE, src_ip |-> src, src_port |-> PortRead(f.port)]

\* The early returns of ip_recv, for a packet of n bytes.
Accepted(h, n) ==
    /\ n >= 20 /\ Ihl(h) >= 20 /\ n >= Total(h)
    /\ h[1] \div 16 = 4
    /\ ip_checksum(h) = 0

ip_recv(f) ==
    LET h == f.header
        to == IF Accepted(h, 20 + f.len) THEN h[11] ELSE 0
    IN  \/ to = UDP /\ udp_rx' = udp_recv(f, SrcIp(h)) /\ UNCHANGED segment
        \/ /\ to = TCP
           /\ segment' = [len |-> Total(h) - Ihl(h), src_ip |-> SrcIp(h)]
           /\ UNCHANGED udp_rx
        \/ to \notin {UDP, TCP} /\ UNCHANGED <<udp_rx, segment>>

\* The controller hands the driver whole frames.
ethernet_handle(f) ==
    /\ wire' = wire \ {f}
    /\ \/ f.type = ETH_P_IP /\ ip_recv(f)
       \/ f.type # ETH_P_IP /\ UNCHANGED <<udp_rx, segment>>
    /\ UNCHANGED got

udp_receive ==
    /\ udp_rx.len # 0
    /\ got' = udp_rx
    /\ udp_rx' = [udp_rx EXCEPT !.len = 0]
    /\ UNCHANGED <<wire, segment>>

-----------------------------------------------------------------------------
Next ==
    \/ \E d \in Dests, n \in Sizes : udp_send(d, n) \/ tcp_send_packet(d, n)
    \/ Arp
    \/ \E f \in wire : ethernet_handle(f)
    \/ udp_receive

Spec == Init /\ [][Next]_vars

\* net/udp.c:55: "udp_recv() is called by the IP layer (ip_recv() in ip.c) when a
\* UDP packet arrives."  What a datagram carried is in udp_rx_buf once
\* ethernet_handle has taken its frame.
UdpPacketsArrive ==
    [][\A f \in wire \ wire' :
         f.type = ETH_P_IP /\ f.header[11] = UDP /\ f.len > UDP_HEADER_SIZE =>
           udp_rx'.len = f.len - UDP_HEADER_SIZE]_vars

=============================================================================
