---------------------------- MODULE PacketProofs ----------------------------
(***************************************************************************)
(* Proofs about module PacketPath, for rings and queues of any size and    *)
(* any number of frames: types, the two queues as the bounded queues of    *)
(* Channels, and the rings: in step with the controller, and in order.     *)
(***************************************************************************)
EXTENDS PacketProps, FiniteSetTheorems, TLAPS

-----------------------------------------------------------------------------
(* Arithmetic round a ring. *)

\* Round the ring at most once.
LEMMA Around ==
  ASSUME NEW size \in Nat \ {0}, NEW h \in 0 .. size - 1, NEW k \in 0 .. size
  PROVE  /\ (h + k) % size \in 0 .. size - 1
         /\ (h + k) % size = IF h + k < size THEN h + k ELSE h + k - size
OBVIOUS

LEMMA AroundNext ==
  ASSUME NEW size \in Nat \ {0}, NEW h \in 0 .. size - 1, NEW k \in 0 .. size - 1
  PROVE  /\ Next1(h, size) \in 0 .. size - 1
         /\ Next1((h + k) % size, size) = (h + (k + 1)) % size
         /\ (Next1(h, size) + k) % size = (h + (k + 1)) % size
<1>1. k \in 0 .. size /\ k + 1 \in 0 .. size /\ 1 \in 0 .. size
  OBVIOUS
<1>2. /\ (h + k) % size = IF h + k < size THEN h + k ELSE h + k - size
      /\ (h + (k + 1)) % size = IF h + (k + 1) < size THEN h + (k + 1) ELSE h + (k + 1) - size
  BY <1>1, Around
<1>3. Next1(h, size) = (IF h + 1 < size THEN h + 1 ELSE h + 1 - size) /\ Next1(h, size) \in 0 .. size - 1
  BY <1>1, Around DEF Next1
<1>4. Next1((h + k) % size, size) = (h + (k + 1)) % size
  <2> DEFINE x == (h + k) % size
  <2>1. x \in 0 .. size - 1
    BY <1>1, Around
  <2>2. Next1(x, size) = IF x + 1 < size THEN x + 1 ELSE x + 1 - size
    <3> HIDE DEF x
    <3> QED  BY <1>1, <2>1, Around DEF Next1
  <2> QED  BY <1>1, <1>2, <2>2
<1>5. (Next1(h, size) + k) % size
        = IF Next1(h, size) + k < size THEN Next1(h, size) + k ELSE Next1(h, size) + k - size
  BY <1>1, <1>3, Around
<1>6. (Next1(h, size) + k) % size = (h + (k + 1)) % size
  BY <1>1, <1>2, <1>3, <1>5
<1> QED  BY <1>3, <1>4, <1>6

\* Different numbers of steps lead to different places.
LEMMA AroundDiffers ==
  ASSUME NEW size \in Nat \ {0}, NEW h \in 0 .. size - 1,
         NEW j \in 0 .. size - 1, NEW k \in 0 .. size - 1, j # k
  PROVE  (h + j) % size # (h + k) % size
<1>1. j \in 0 .. size /\ k \in 0 .. size
  OBVIOUS
<1>2. /\ (h + j) % size = IF h + j < size THEN h + j ELSE h + j - size
      /\ (h + k) % size = IF h + k < size THEN h + k ELSE h + k - size
  BY <1>1, Around
<1> QED  BY <1>1, <1>2

\* Some number of steps leads to every place.
LEMMA AroundReaches ==
  ASSUME NEW size \in Nat \ {0}, NEW h \in 0 .. size - 1, NEW i \in 0 .. size - 1
  PROVE  \E k \in 0 .. size - 1 : i = (h + k) % size
<1> DEFINE k == IF i >= h THEN i - h ELSE i - h + size
<1>1. k \in 0 .. size - 1 /\ k \in 0 .. size
  OBVIOUS
<1>2. (h + k) % size = IF h + k < size THEN h + k ELSE h + k - size
  <2> HIDE DEF k
  <2> QED  BY <1>1, Around
<1>3. (h + k) % size = i
  BY <1>2
<1> QED  BY <1>1, <1>3

-----------------------------------------------------------------------------
(* The entries of a ring as a sequence. *)

LEMMA FromType ==
  ASSUME NEW size \in Nat \ {0}, NEW f \in [0 .. size - 1 -> Frame],
         NEW h \in 0 .. size - 1, NEW n \in 0 .. size
  PROVE  /\ From(f, h, n, size) \in Seq(Frame) /\ Len(From(f, h, n, size)) = n
         /\ \A i \in 1 .. n : /\ From(f, h, n, size)[i] = f[(h + (i - 1)) % size]
                              /\ (h + (i - 1)) % size \in 0 .. size - 1
<1>1. ASSUME NEW i \in 1 .. n
      PROVE  h + i - 1 = h + (i - 1) /\ (h + (i - 1)) % size \in 0 .. size - 1
  <2>1. i - 1 \in 0 .. size /\ h \in Int
    OBVIOUS
  <2> QED  BY <2>1, Around
<1>2. \A i \in 1 .. n : f[(h + i - 1) % size] \in Frame
  BY <1>1
<1>3. From(f, h, n, size) \in [1 .. n -> Frame]
  BY <1>2 DEF From
<1>4. From(f, h, n, size) \in Seq(Frame) /\ Len(From(f, h, n, size)) = n
  BY <1>3
<1> QED  BY <1>1, <1>4 DEF From

\* Only the entries counted matter.
LEMMA FromSame ==
  ASSUME NEW size \in Nat \ {0}, NEW f, NEW g,
         NEW h \in 0 .. size - 1, NEW n \in 0 .. size,
         \A k \in 0 .. n - 1 : f[(h + k) % size] = g[(h + k) % size]
  PROVE  From(f, h, n, size) = From(g, h, n, size)
<1>1. ASSUME NEW i \in 1 .. n PROVE f[(h + i - 1) % size] = g[(h + i - 1) % size]
  <2>1. i - 1 \in 0 .. n - 1 /\ h + i - 1 = h + (i - 1)
    OBVIOUS
  <2> QED  BY <2>1
<1> QED  BY <1>1 DEF From

\* An entry more is appended.
LEMMA FromAppend ==
  ASSUME NEW size \in Nat \ {0}, NEW f \in [0 .. size - 1 -> Frame],
         NEW h \in 0 .. size - 1, NEW n \in 0 .. size - 1
  PROVE  From(f, h, n + 1, size) = Append(From(f, h, n, size), f[(h + n) % size])
<1> DEFINE s == From(f, h, n, size)
           t == From(f, h, n + 1, size)
           m == f[(h + n) % size]
<1> HIDE DEF s, t, m
<1>1. n \in 0 .. size /\ n + 1 \in 0 .. size /\ n \in Nat /\ (n + 1) - 1 = n
  OBVIOUS
<1>2. /\ s \in Seq(Frame) /\ Len(s) = n
      /\ \A i \in 1 .. n : s[i] = f[(h + (i - 1)) % size]
  BY <1>1, FromType DEF s
<1>3. /\ t \in Seq(Frame) /\ Len(t) = n + 1
      /\ \A i \in 1 .. n + 1 : t[i] = f[(h + (i - 1)) % size]
  <2>1. ASSUME NEW q \in 0 .. size
        PROVE  /\ From(f, h, q, size) \in Seq(Frame) /\ Len(From(f, h, q, size)) = q
               /\ \A i \in 1 .. q : From(f, h, q, size)[i] = f[(h + (i - 1)) % size]
    BY FromType
  <2>2. /\ From(f, h, n + 1, size) \in Seq(Frame) /\ Len(From(f, h, n + 1, size)) = n + 1
        /\ \A i \in 1 .. n + 1 : From(f, h, n + 1, size)[i] = f[(h + (i - 1)) % size]
    BY ONLY <1>1, <2>1
  <2> QED  BY <2>2 DEF t
<1>4. m \in Frame /\ n + 1 \in 1 .. n + 1
  <2>1. (h + n) % size \in 0 .. size - 1
    BY ONLY <1>1, size \in Nat \ {0}, h \in 0 .. size - 1, Around
  <2>2. m \in Frame
    BY <2>1 DEF m
  <2> QED  BY <1>1, <2>2
<1>5. t[n + 1] = m
  <2>1. t[n + 1] = f[(h + ((n + 1) - 1)) % size]
    BY <1>3, <1>4
  <2> QED  BY <1>1, <2>1 DEF m
<1>6. Append(s, m) \in Seq(Frame) /\ Len(Append(s, m)) = n + 1
  BY <1>2, <1>4
<1>7. \A i \in 1 .. n + 1 : t[i] = Append(s, m)[i]
  BY <1>1, <1>2, <1>3, <1>4, <1>5
<1>8. t = Append(s, m)
  BY <1>3, <1>6, <1>7
<1> QED  BY <1>8 DEF s, t, m

\* The first entry is the head, and the others follow from the next place on.
LEMMA FromTail ==
  ASSUME NEW size \in Nat \ {0}, NEW f \in [0 .. size - 1 -> Frame],
         NEW h \in 0 .. size - 1, NEW n \in 1 .. size
  PROVE  /\ From(f, h, n, size) # <<>>
         /\ Head(From(f, h, n, size)) = f[h]
         /\ Tail(From(f, h, n, size)) = From(f, Next1(h, size), n - 1, size)
<1> DEFINE s == From(f, h, n, size)
           t == From(f, Next1(h, size), n - 1, size)
<1>1. n \in 0 .. size /\ n - 1 \in 0 .. size /\ n \in Nat \ {0} /\ 0 \in 0 .. size - 1 /\ 1 \in 1 .. n
  OBVIOUS
<1>2. Next1(h, size) \in 0 .. size - 1
  BY <1>1, AroundNext
<1>3. /\ s \in Seq(Frame) /\ Len(s) = n
      /\ \A i \in 1 .. n : s[i] = f[(h + (i - 1)) % size]
  <2>1. n \in 0 .. size
    OBVIOUS
  <2> QED  BY <2>1, FromType
<1>4. /\ t \in Seq(Frame) /\ Len(t) = n - 1
      /\ \A i \in 1 .. n - 1 : t[i] = f[(Next1(h, size) + (i - 1)) % size]
  <2> DEFINE g == Next1(h, size)
             r == n - 1
  <2>1. g \in 0 .. size - 1 /\ r \in 0 .. size
    BY <1>2
  <2> HIDE DEF g, r
  <2>2. /\ From(f, g, r, size) \in Seq(Frame) /\ Len(From(f, g, r, size)) = r
        /\ \A i \in 1 .. r : From(f, g, r, size)[i] = f[(g + (i - 1)) % size]
    BY <2>1, FromType
  <2> QED  BY <2>2 DEF g, r
<1>5. s[1] = f[h]
  <2>1. h + (1 - 1) = h /\ h % size = h
    OBVIOUS
  <2> QED  BY <1>1, <1>3, <2>1
<1>6. ASSUME NEW i \in 1 .. n - 1 PROVE t[i] = s[i + 1]
  <2>1. i - 1 \in 0 .. size - 1 /\ (i - 1) + 1 = i /\ (i + 1) - 1 = i /\ i + 1 \in 1 .. n
    OBVIOUS
  <2>2. (Next1(h, size) + (i - 1)) % size = (h + i) % size
    BY <2>1, AroundNext
  <2> QED  BY <1>3, <1>4, <2>1, <2>2
<1> HIDE DEF s, t
<1>7. Tail(s) \in Seq(Frame) /\ Len(Tail(s)) = n - 1 /\ s # <<>> /\ Head(s) = s[1]
  BY <1>1, <1>3
<1>8. \A i \in 1 .. n - 1 : t[i] = Tail(s)[i]
  BY <1>1, <1>3, <1>6
<1>9. t = Tail(s)
  BY <1>4, <1>7, <1>8
<1> QED  BY <1>5, <1>7, <1>9 DEF s, t

-----------------------------------------------------------------------------
(* Types. *)

LEMMA Sizes == /\ Descs \in Nat \ {0} /\ Index = 0 .. Descs - 1
               /\ QueueSize \in Nat \ {0} /\ Slot = 0 .. QueueSize - 1
               /\ MaxFrames \in Nat /\ Frame = 0 .. MaxFrames
BY PacketAssumption DEF Index, Slot, Frame

LEMMA Next1Type ==
  ASSUME NEW size \in Nat \ {0}, NEW i \in 0 .. size - 1
  PROVE  Next1(i, size) \in 0 .. size - 1
BY DEF Next1

LEMMA PushedType ==
  ASSUME NEW q \in Queue, ~Full(q), NEW f \in Frame
  PROVE  /\ Pushed(q, f) \in Queue
         /\ Pushed(q, f).buffer = [q.buffer EXCEPT ![q.tail] = f]
         /\ Pushed(q, f).head = q.head /\ Pushed(q, f).tail = Next1(q.tail, QueueSize)
         /\ Pushed(q, f).count = q.count + 1
<1>1. Next1(q.tail, QueueSize) \in Slot
  BY Sizes, Next1Type DEF Queue
<1>2. q.count + 1 \in 0 .. QueueSize
  BY PacketAssumption DEF Queue, Full
<1>3. [q.buffer EXCEPT ![q.tail] = f] \in [Slot -> Frame]
  BY DEF Queue
<1> QED  BY <1>1, <1>2, <1>3 DEF Queue, Pushed

LEMMA PoppedType ==
  ASSUME NEW q \in Queue, ~Empty(q)
  PROVE  /\ Popped(q) \in Queue
         /\ Popped(q).buffer = q.buffer /\ Popped(q).tail = q.tail
         /\ Popped(q).head = Next1(q.head, QueueSize) /\ Popped(q).count = q.count - 1
<1>1. Next1(q.head, QueueSize) \in Slot
  BY Sizes, Next1Type DEF Queue
<1>2. q.count - 1 \in 0 .. QueueSize
  BY PacketAssumption DEF Queue, Empty
<1> QED  BY <1>1, <1>2 DEF Queue, Popped

QueuesOK == queue \in [Queues -> Queue] /\ out \in [Queues -> Frame]

LEMMA PushType ==
  ASSUME QueuesOK, NEW k \in Queues, NEW f \in Frame, Push(k, f)
  PROVE  queue' \in [Queues -> Queue]
BY PushedType DEF QueuesOK, Push

LEMMA PopType ==
  ASSUME QueuesOK, NEW k \in Queues, Pop(k)
  PROVE  queue' \in [Queues -> Queue] /\ out' \in [Queues -> Frame]
<1>1. Popped(queue[k]) \in Queue
  BY PoppedType DEF QueuesOK, Pop
<1>2. queue[k].buffer[queue[k].head] \in Frame
  BY DEF QueuesOK, Queue
<1> QED  BY <1>1, <1>2 DEF QueuesOK, Pop

LEMMA FillType ==
  ASSUME TypeOK, NEW f \in Frame, Fill(f)
  PROVE  /\ tx' \in Ring /\ tx_index' \in Index /\ tx_dev' \in Index
         /\ wire' \in Frame /\ overrun' \in BOOLEAN
<1>1. tx_index' \in Index
  BY Sizes, Next1Type DEF TypeOK, Fill
<1> QED  BY <1>1 DEF TypeOK, Fill, Ring

LEMMA ArmType ==
  ASSUME TypeOK, Arm
  PROVE  /\ Sending \in Index
         /\ tx' \in Ring /\ tx_index' \in Index /\ tx_dev' \in Index
         /\ wire' \in Frame /\ overrun' \in BOOLEAN
<1>1. Sending \in Index
  BY Sizes DEF TypeOK, Sending
<1> QED  BY <1>1 DEF TypeOK, Arm, Ring

LEMMA RearmType ==
  ASSUME TypeOK, Rearm
  PROVE  rx' \in Ring /\ rx_index' \in Index /\ rx_dev' \in Index
<1>1. rx_index' \in Index
  BY Sizes, Next1Type DEF TypeOK, Rearm
<1> QED  BY <1>1 DEF TypeOK, Rearm, Ring

LEMMA InitType == Init => TypeOK
<1> SUFFICES ASSUME Init PROVE TypeOK
  OBVIOUS
<1>1. 0 \in Index /\ 0 \in Slot /\ 0 \in Frame /\ 0 \in 0 .. QueueSize /\ 0 \in 0 .. Descs
  BY Sizes
<1>2. ZeroRing \in Ring
  BY <1>1 DEF ZeroRing, Ring
<1>3. EmptyQueue \in Queue
  BY <1>1 DEF EmptyQueue, Queue
<1>4. queue \in [Queues -> Queue] /\ out \in [Queues -> Frame]
  BY <1>1, <1>3 DEF Init
<1> QED  BY <1>1, <1>2, <1>4 DEF Init, TypeOK, Places

LEMMA NextType == TypeOK /\ [Next]_vars => TypeOK'
<1> SUFFICES ASSUME TypeOK, [Next]_vars PROVE TypeOK'
  OBVIOUS
<1> USE DEF rxvars, txvars, qvars, setup
<1>1. QueuesOK
  BY DEF TypeOK, QueuesOK
<1>2. CASE SetupDesc
  <2>1. armed \in Index /\ armed' \in 0 .. Descs
    BY <1>2, Sizes DEF TypeOK, SetupDesc
  <2>2. rx' \in Ring
    BY <1>2, <2>1 DEF TypeOK, SetupDesc, Ring
  <2> QED  BY <1>2, <2>1, <2>2 DEF TypeOK, SetupDesc
<1>3. CASE EnableMac
  BY <1>3, Sizes DEF TypeOK, EnableMac
<1>4. CASE InitDone
  BY <1>4 DEF TypeOK, InitDone, Places
<1>5. CASE RxThread
  <2>1. CASE Copy("rearm") \/ NoFrame
    <3>1. rx[rx_index].frame \in Frame
      BY DEF TypeOK, Ring
    <3> QED  BY <2>1, <3>1 DEF TypeOK, Copy, NoFrame, Places
  <2>2. CASE pc = "rearm" /\ Rearm /\ Push("rx", buf) /\ pc' = "yield" /\ UNCHANGED <<setup, txvars, out, made>>
    <3>1. queue' \in [Queues -> Queue]
      BY <1>1, <2>2, PushType DEF TypeOK, Queues
    <3> QED  BY <2>2, <3>1, RearmType DEF TypeOK, Rearm, Places
  <2> QED  BY <1>5, <2>1, <2>2 DEF RxThread
<1>6. CASE HandleRx
  <2>1. CASE Copy("poll_rearm") \/ NoFrame
    <3>1. rx[rx_index].frame \in Frame
      BY DEF TypeOK, Ring
    <3> QED  BY <2>1, <3>1 DEF TypeOK, Copy, NoFrame, Places
  <2>2. CASE Rearm /\ pc' = "poll" /\ UNCHANGED <<setup, txvars, qvars>>
    BY <2>2, RearmType DEF TypeOK, Rearm, Places
  <2> QED  BY <1>6, <2>1, <2>2 DEF HandleRx
<1>7. CASE TxThread
  <2>1. CASE Pop("tx") /\ Fill(out'["tx"]) /\ pc' = "arm" /\ UNCHANGED <<setup, rxvars, made>>
    <3>1. queue' \in [Queues -> Queue] /\ out' \in [Queues -> Frame]
      BY <1>1, <2>1, PopType DEF Queues
    <3>2. out'["tx"] \in Frame
      BY <3>1 DEF Queues
    <3> QED  BY <2>1, <3>1, <3>2, FillType DEF TypeOK, Places
  <2>2. CASE Arm /\ pc' = "tx" /\ UNCHANGED <<setup, rxvars, qvars>>
    BY <2>2, ArmType DEF TypeOK, Places
  <2> QED  BY <1>7, <2>1, <2>2 DEF TxThread
<1>8. CASE Dispatch
  BY <1>8 DEF TypeOK, Dispatch, Places
<1>9. CASE Enqueue
  <2>1. made + 1 \in Frame /\ made' = made + 1
    BY <1>9, Sizes DEF TypeOK, Enqueue
  <2>2. queue' \in [Queues -> Queue]
    BY <1>1, <1>9, <2>1, PushType DEF Enqueue, Queues
  <2> QED  BY <1>9, <2>1, <2>2 DEF TypeOK, Enqueue
<1>10. CASE Dequeue
  BY <1>1, <1>10, PopType DEF TypeOK, Dequeue, Queues
<1>11. CASE EthernetSend
  <2>1. CASE /\ made < MaxFrames /\ made' = made + 1 /\ Fill(made + 1)
             /\ pc' = "send" /\ UNCHANGED <<setup, rxvars, queue, out>>
    <3>1. made + 1 \in Frame
      BY <2>1, Sizes DEF TypeOK
    <3> QED  BY <2>1, <3>1, FillType DEF TypeOK, Places
  <2>2. CASE Arm /\ pc' = "yield" /\ UNCHANGED <<setup, rxvars, qvars>>
    BY <2>2, ArmType DEF TypeOK, Places
  <2> QED  BY <1>11, <2>1, <2>2 DEF EthernetSend
<1>12. CASE Arrive
  <2>1. arrived + 1 \in Frame /\ arrived' = arrived + 1
    BY <1>12, Sizes DEF TypeOK, Arrive
  <2>2. rx_dev' \in Index
    BY <1>12, Sizes, Next1Type DEF TypeOK, Arrive
  <2>3. rx' \in Ring
    BY <1>12, <2>1 DEF TypeOK, Arrive, Ring
  <2> QED  BY <1>12, <2>1, <2>2, <2>3 DEF TypeOK, Arrive
<1>13. CASE Transmit
  <2>1. tx_dev' \in Index
    BY <1>13, Sizes, Next1Type DEF TypeOK, Transmit
  <2>2. tx' \in Ring /\ wire' \in Frame
    BY <1>13 DEF TypeOK, Transmit, Ring
  <2> QED  BY <1>13, <2>1, <2>2 DEF TypeOK, Transmit
<1>14. CASE UNCHANGED vars
  BY <1>14 DEF vars, TypeOK
<1> QED
  BY <1>2, <1>3, <1>4, <1>5, <1>6, <1>7, <1>8, <1>9, <1>10, <1>11, <1>12, <1>13, <1>14
  DEF Next, Driver

\* Every index stays within its ring or queue, and every count within its bound,
\* for rings and queues of any size.
THEOREM TypeCorrect == Spec => []TypeOK
BY InitType, NextType, PTL DEF Spec

-----------------------------------------------------------------------------
(* The queues.  What makes one first in, first out is that tail is where   *)
(* head arrives after count steps.                                         *)

InLine(q) == q.tail = (q.head + q.count) % QueueSize
QueueInv  == \A k \in Queues : InLine(queue[k])

LEMMA PushedQueued ==
  ASSUME NEW q \in Queue, InLine(q), ~Full(q), NEW f \in Frame
  PROVE  /\ InLine(Pushed(q, f))
         /\ Queued(Pushed(q, f)) = Append(Queued(q), f)
         /\ Len(Queued(q)) < QueueSize
<1> DEFINE p == Pushed(q, f)
<1>1. /\ q.head \in 0 .. QueueSize - 1 /\ q.tail \in 0 .. QueueSize - 1
      /\ q.count \in 0 .. QueueSize - 1 /\ q.count \in 0 .. QueueSize /\ q.count < QueueSize
      /\ q.buffer \in [0 .. QueueSize - 1 -> Frame] /\ QueueSize \in Nat \ {0}
  BY PacketAssumption DEF Queue, Full, Slot
<1>2. /\ p.buffer = [q.buffer EXCEPT ![q.tail] = f]
      /\ p.head = q.head /\ p.tail = Next1(q.tail, QueueSize) /\ p.count = q.count + 1
  BY PushedType
<1> HIDE DEF p
<1>3. InLine(p)
  <2>1. Next1((q.head + q.count) % QueueSize, QueueSize) = (q.head + (q.count + 1)) % QueueSize
    BY <1>1, AroundNext
  <2> QED  BY <1>2, <2>1 DEF InLine
<1>4. p.buffer \in [0 .. QueueSize - 1 -> Frame] /\ p.buffer[q.tail] = f
  BY <1>1, <1>2
<1>5. Queued(p) = Append(From(p.buffer, q.head, q.count, QueueSize), f)
  <2>1. From(p.buffer, q.head, q.count + 1, QueueSize)
          = Append(From(p.buffer, q.head, q.count, QueueSize), p.buffer[(q.head + q.count) % QueueSize])
    BY <1>1, <1>4, FromAppend
  <2> QED  BY <1>2, <1>4, <2>1 DEF Queued, InLine
<1>6. From(p.buffer, q.head, q.count, QueueSize) = Queued(q)
  <2>1. ASSUME NEW k \in 0 .. q.count - 1
        PROVE  p.buffer[(q.head + k) % QueueSize] = q.buffer[(q.head + k) % QueueSize]
    <3>1. k \in 0 .. QueueSize - 1 /\ k # q.count /\ k \in 0 .. QueueSize
      BY <1>1
    <3>2. (q.head + k) % QueueSize # q.tail
      BY <1>1, <3>1, AroundDiffers DEF InLine
    <3>3. (q.head + k) % QueueSize \in 0 .. QueueSize - 1
      BY <1>1, <3>1, Around
    <3> QED  BY <1>1, <1>2, <3>2, <3>3
  <2> QED  BY <1>1, <2>1, FromSame DEF Queued
<1>7. Len(Queued(q)) = q.count
  <2> DEFINE b == q.buffer
             h == q.head
             n == q.count
  <2>1. b \in [0 .. QueueSize - 1 -> Frame] /\ h \in 0 .. QueueSize - 1 /\ n \in 0 .. QueueSize
    BY <1>1
  <2> HIDE DEF b, h, n
  <2>2. Len(From(b, h, n, QueueSize)) = n
    BY <2>1, FromType, PacketAssumption
  <2> QED  BY <2>2 DEF Queued, b, h, n
<1> QED  BY <1>1, <1>3, <1>5, <1>6, <1>7 DEF p

LEMMA PoppedQueued ==
  ASSUME NEW q \in Queue, InLine(q), ~Empty(q)
  PROVE  /\ InLine(Popped(q)) /\ Queued(q) # <<>>
         /\ Head(Queued(q)) = q.buffer[q.head]
         /\ Queued(Popped(q)) = Tail(Queued(q))
<1> DEFINE p == Popped(q)
<1>1. /\ q.head \in 0 .. QueueSize - 1 /\ q.count \in 1 .. QueueSize
      /\ q.buffer \in [0 .. QueueSize - 1 -> Frame] /\ QueueSize \in Nat \ {0}
      /\ q.count - 1 \in 0 .. QueueSize - 1 /\ (q.count - 1) + 1 = q.count
  BY PacketAssumption DEF Queue, Empty, Slot
<1>2. /\ p.buffer = q.buffer /\ p.tail = q.tail
      /\ p.head = Next1(q.head, QueueSize) /\ p.count = q.count - 1
  BY PoppedType
<1> HIDE DEF p
<1>3. InLine(p)
  <2>1. (Next1(q.head, QueueSize) + (q.count - 1)) % QueueSize = (q.head + ((q.count - 1) + 1)) % QueueSize
    BY <1>1, AroundNext
  <2> QED  BY <1>1, <1>2, <2>1 DEF InLine
<1>4. /\ Queued(q) # <<>> /\ Head(Queued(q)) = q.buffer[q.head]
      /\ Tail(Queued(q)) = From(q.buffer, Next1(q.head, QueueSize), q.count - 1, QueueSize)
  BY <1>1, FromTail DEF Queued
<1>5. Queued(p) = Tail(Queued(q))
  BY <1>2, <1>4 DEF Queued
<1> QED  BY <1>3, <1>4, <1>5 DEF p

\* What a step does to the queues: a frame joins one, is taken from one, or
\* neither.
LEMMA QueueStep ==
  ASSUME TypeOK, [Next]_vars
  PROVE  \/ UNCHANGED <<queue, out>>
         \/ \E k \in Queues, f \in Frame :
              /\ ~Full(queue[k]) /\ out' = out
              /\ queue' = [queue EXCEPT ![k] = Pushed(@, f)]
         \/ \E k \in Queues : Pop(k)
<1> USE DEF rxvars, txvars, qvars, setup
<1>1. CASE SetupDesc \/ EnableMac \/ InitDone \/ HandleRx \/ Dispatch \/ EthernetSend
             \/ Arrive \/ Transmit \/ UNCHANGED vars
  BY <1>1 DEF SetupDesc, EnableMac, InitDone, HandleRx, Copy, NoFrame, Rearm, Dispatch,
              EthernetSend, Arrive, Transmit, vars
<1>2. CASE RxThread
  <2>1. CASE Copy("rearm") \/ NoFrame
    BY <2>1 DEF Copy, NoFrame
  <2>2. CASE Push("rx", buf) /\ out' = out
    <3>1. buf \in Frame /\ "rx" \in Queues
      BY DEF TypeOK, Queues
    <3> QED  BY <2>2, <3>1 DEF Push
  <2> QED  BY <1>2, <2>1, <2>2 DEF RxThread
<1>3. CASE TxThread
  BY <1>3 DEF TxThread, Queues
<1>4. CASE Enqueue
  <2>1. made + 1 \in Frame /\ "tx" \in Queues
    BY <1>4, Sizes DEF TypeOK, Enqueue, Queues
  <2> QED  BY <1>4, <2>1 DEF Enqueue, Push
<1>5. CASE Dequeue
  BY <1>5 DEF Dequeue, Queues
<1> QED  BY <1>1, <1>2, <1>3, <1>4, <1>5 DEF Next, Driver

LEMMA InitQueues == Init => QueueInv /\ Promise!Init
<1> SUFFICES ASSUME Init PROVE QueueInv /\ Promise!Init
  OBVIOUS
<1>1. QueueInv
  BY PacketAssumption DEF Init, QueueInv, InLine, EmptyQueue
<1>2. Queued(EmptyQueue) = <<>>
  BY DEF Queued, From, EmptyQueue
<1>3. [k \in Queues |-> Queued(queue[k])] = [k \in Queues |-> <<>>]
  BY <1>2 DEF Init
<1> QED  BY <1>1, <1>3 DEF Init, Promise!Init

LEMMA StepQueues ==
  ASSUME TypeOK, QueueInv, [Next]_vars
  PROVE  /\ QueueInv'
         /\ [Promise!Next]_<<[k \in Queues |-> Queued(queue[k])], out>>
<1> DEFINE queues == [k \in Queues |-> Queued(queue[k])]
<1>1. queue \in [Queues -> Queue] /\ out \in [Queues -> Frame]
  BY DEF TypeOK
<1>2. CASE UNCHANGED <<queue, out>>
  BY <1>2 DEF QueueInv
<1>3. ASSUME NEW k \in Queues, NEW f \in Frame, ~Full(queue[k]), out' = out,
             queue' = [queue EXCEPT ![k] = Pushed(@, f)]
      PROVE  QueueInv' /\ Promise!Next
  <2>1. queue[k] \in Queue /\ InLine(queue[k])
    BY <1>1 DEF QueueInv
  <2>2. queue'[k] = Pushed(queue[k], f) /\ \A j \in Queues \ {k} : queue'[j] = queue[j]
    BY <1>1, <1>3
  <2>3. /\ InLine(queue'[k]) /\ Queued(queue'[k]) = Append(Queued(queue[k]), f)
        /\ Len(Queued(queue[k])) < QueueSize
    BY <1>3, <2>1, <2>2, PushedQueued
  <2>4. QueueInv'
    BY <2>2, <2>3 DEF QueueInv
  <2>5. queues' = [queues EXCEPT ![k] = Append(@, f)]
    BY <2>2, <2>3
  <2>6. Promise!Put(k)
    BY <1>3, <2>3, <2>5 DEF Promise!Put
  <2> QED  BY <2>4, <2>6 DEF Promise!Next
<1>4. ASSUME NEW k \in Queues, Pop(k)
      PROVE  QueueInv' /\ Promise!Next
  <2>1. queue[k] \in Queue /\ InLine(queue[k])
    BY <1>1 DEF QueueInv
  <2>2. queue'[k] = Popped(queue[k]) /\ \A j \in Queues \ {k} : queue'[j] = queue[j]
    BY <1>1, <1>4 DEF Pop
  <2>3. /\ InLine(queue'[k]) /\ Queued(queue[k]) # <<>>
        /\ Head(Queued(queue[k])) = queue[k].buffer[queue[k].head]
        /\ Queued(queue'[k]) = Tail(Queued(queue[k]))
    BY <1>4, <2>1, <2>2, PoppedQueued DEF Pop
  <2>4. QueueInv'
    BY <2>2, <2>3 DEF QueueInv
  <2>5. queues' = [queues EXCEPT ![k] = Tail(@)]
    BY <2>2, <2>3
  <2>6. queues[k] # <<>> /\ out' = [out EXCEPT ![k] = Head(queues[k])]
    BY <1>4, <2>3 DEF Pop
  <2>7. Promise!Get(k)
    BY <2>5, <2>6 DEF Promise!Get
  <2> QED  BY <2>4, <2>7 DEF Promise!Next
<1> QED  BY <1>2, <1>3, <1>4, QueueStep

\* packet_queue_push and packet_queue_pop, whoever calls them, carry out the promise of
\* Channels: no frame is lost once it is in a queue, doubled or overtaken.
THEOREM QueuesImplementChannels == Spec => ImplementsChannels
<1>1. TypeOK /\ QueueInv /\ [Next]_vars
        => QueueInv' /\ [Promise!Next]_<<[k \in Queues |-> Queued(queue[k])], out>>
  BY StepQueues
<1> QED  BY <1>1, InitType, NextType, InitQueues, PTL DEF Spec, ImplementsChannels, Promise!Spec

-----------------------------------------------------------------------------
(* The rings.  A set of descriptors is a window on a ring: n of them, from *)
(* h on.                                                                   *)

Window(S, h, n) ==
    n \in 0 .. Descs /\ \A k \in 0 .. Descs - 1 : (h + k) % Descs \in S <=> k < n

\* What the driver has to read, and what the controller has to send.
Filled == {i \in Index : ~rx[i].armed}
Armed  == {i \in Index : tx[i].armed}

\* The receive ring: once it is set up, the filled descriptors go from the driver's
\* place to that of the controller.  The first round of genet_init leaves it empty.
RxInv ==
    /\ ~mac => /\ pc = "init" /\ ~wiped /\ rx_index = 0 /\ rx_dev = 0
               /\ \A i \in Index : rx[i].armed <=> i < armed
    /\ mac /\ ~wiped => /\ Window(Filled, rx_index, Cardinality(Filled))
                        /\ rx_dev = (rx_index + Cardinality(Filled)) % Descs
                        /\ Copied => ~rx[rx_index].armed

LEMMA IndexFinite ==
  ASSUME NEW S \in SUBSET Index
  PROVE  IsFiniteSet(S) /\ Cardinality(S) \in Nat
<1>1. IsFiniteSet(Index)
  <2>1. 0 \in Int /\ Descs - 1 \in Int
    BY Sizes
  <2> QED  BY <2>1, FS_Interval DEF Index
<1>2. IsFiniteSet(S)
  BY <1>1, FS_Subset
<1> QED  BY <1>2, FS_CardinalityType

\* Some descriptor is in the window only if the first one is.
LEMMA WindowFirst ==
  ASSUME NEW S \in SUBSET Index, NEW h \in Index, NEW n, Window(S, h, n), S # {}
  PROVE  h \in S /\ n \in 1 .. Descs
<1>1. PICK i \in Index : i \in S
  OBVIOUS
<1>2. PICK k \in 0 .. Descs - 1 : i = (h + k) % Descs
  BY Sizes, AroundReaches
<1>3. k < n /\ n \in 0 .. Descs
  BY <1>1, <1>2 DEF Window
<1>4. 0 \in 0 .. Descs - 1 /\ 0 < n /\ n \in 1 .. Descs
  BY <1>3, Sizes
<1>5. (h + 0) % Descs = h
  BY Sizes
<1> QED  BY <1>4, <1>5 DEF Window

LEMMA WindowAdd ==
  ASSUME NEW S \in SUBSET Index, NEW h \in Index, Window(S, h, Cardinality(S)),
         NEW i, i = (h + Cardinality(S)) % Descs, i \notin S
  PROVE  /\ Cardinality(S) \in 0 .. Descs - 1
         /\ Cardinality(S \cup {i}) = Cardinality(S) + 1
         /\ Window(S \cup {i}, h, Cardinality(S) + 1)
<1> DEFINE n == Cardinality(S)
<1>1. n \in 0 .. Descs
  BY DEF Window
<1>2. Cardinality(S \cup {i}) = n + 1
  BY IndexFinite, FS_AddElement
<1>3. i = (h + n) % Descs /\ Window(S, h, n)
  OBVIOUS
<1> HIDE DEF n
<1>4. n # Descs
  <2> SUFFICES ASSUME n = Descs PROVE FALSE
    OBVIOUS
  <2>1. (h + Descs) % Descs = h /\ (h + 0) % Descs = h /\ 0 \in 0 .. Descs - 1 /\ 0 < Descs
    BY Sizes
  <2> QED  BY <1>3, <2>1 DEF Window
<1>5. n \in 0 .. Descs - 1 /\ n + 1 \in 0 .. Descs
  BY <1>1, <1>4, Sizes
<1>6. ASSUME NEW k \in 0 .. Descs - 1
      PROVE  (h + k) % Descs \in S \cup {i} <=> k < n + 1
  <2>1. CASE k = n
    BY <1>3, <1>5, <2>1
  <2>2. CASE k # n
    <3>1. (h + k) % Descs # i
      BY <1>3, <1>5, <2>2, AroundDiffers, Sizes
    <3>2. k < n <=> k < n + 1
      BY <1>5, <2>2
    <3> QED  BY <1>3, <3>1, <3>2 DEF Window
  <2> QED  BY <2>1, <2>2
<1>7. Window(S \cup {i}, h, n + 1)
  BY <1>5, <1>6 DEF Window
<1> QED  BY <1>2, <1>5, <1>7 DEF n

LEMMA WindowDrop ==
  ASSUME NEW S \in SUBSET Index, NEW h \in Index, Window(S, h, Cardinality(S)), h \in S
  PROVE  /\ Cardinality(S) \in 1 .. Descs
         /\ Cardinality(S \ {h}) = Cardinality(S) - 1
         /\ Window(S \ {h}, Next1(h, Descs), Cardinality(S) - 1)
         /\ (Next1(h, Descs) + (Cardinality(S) - 1)) % Descs = (h + Cardinality(S)) % Descs
<1> DEFINE n == Cardinality(S)
           g == Next1(h, Descs)
<1>1. n \in 1 .. Descs
  BY WindowFirst
<1>2. Cardinality(S \ {h}) = n - 1
  BY IndexFinite, FS_RemoveElement
<1>3. Window(S, h, n)
  OBVIOUS
<1>4. ASSUME NEW k \in 0 .. Descs - 1
      PROVE  (g + k) % Descs = (h + (k + 1)) % Descs
  BY Sizes, AroundNext
<1> HIDE DEF n, g
<1>5. n - 1 \in 0 .. Descs - 1 /\ n - 1 \in 0 .. Descs /\ (n - 1) + 1 = n
  BY <1>1, Sizes
<1>6. ASSUME NEW k \in 0 .. Descs - 1
      PROVE  (g + k) % Descs \in S \ {h} <=> k < n - 1
  <2>1. CASE k + 1 = Descs
    <3>1. (h + Descs) % Descs = h
      BY Sizes
    <3> QED  BY <1>1, <1>4, <2>1, <3>1
  <2>2. CASE k + 1 # Descs
    <3>1. k + 1 \in 0 .. Descs - 1 /\ k + 1 # 0 /\ 0 \in 0 .. Descs - 1 /\ (k + 1 < n <=> k < n - 1)
      BY <1>5, <2>2, Sizes
    <3>2. (h + (k + 1)) % Descs # (h + 0) % Descs
      BY <3>1, AroundDiffers, Sizes
    <3>3. (h + 0) % Descs = h
      BY Sizes
    <3> QED  BY <1>3, <1>4, <3>1, <3>2, <3>3 DEF Window
  <2> QED  BY <2>1, <2>2
<1>7. Window(S \ {h}, g, n - 1)
  BY <1>5, <1>6 DEF Window
<1>8. (g + (n - 1)) % Descs = (h + n) % Descs
  BY <1>4, <1>5
<1> QED  BY <1>1, <1>2, <1>7, <1>8 DEF n, g

\* An entry that is written at the end of the window joins the sequence.
LEMMA FromJoined ==
  ASSUME NEW f \in [Index -> Frame], NEW g \in [Index -> Frame],
         NEW h \in Index, NEW n \in 0 .. Descs - 1, NEW m \in Frame,
         g[(h + n) % Descs] = m, \A i \in Index \ {(h + n) % Descs} : g[i] = f[i]
  PROVE  /\ From(g, h, n + 1, Descs) = Append(From(f, h, n, Descs), m)
         /\ Len(From(f, h, n, Descs)) = n
<1>1. n \in 0 .. Descs
  BY Sizes
<1>2. (h + n) % Descs \in Index
  BY <1>1, Sizes, Around
<1>3. From(g, h, n + 1, Descs) = Append(From(g, h, n, Descs), m)
  BY <1>2, Sizes, FromAppend
<1>4. From(g, h, n, Descs) = From(f, h, n, Descs)
  <2>1. ASSUME NEW k \in 0 .. n - 1 PROVE f[(h + k) % Descs] = g[(h + k) % Descs]
    <3>1. k \in 0 .. Descs - 1 /\ k # n /\ k \in 0 .. Descs
      BY Sizes
    <3>2. (h + k) % Descs # (h + n) % Descs
      BY <3>1, Sizes, AroundDiffers
    <3>3. (h + k) % Descs \in Index
      BY <3>1, Sizes, Around
    <3> QED  BY <3>2, <3>3
  <2>2. \A k \in 0 .. n - 1 : g[(h + k) % Descs] = f[(h + k) % Descs]
    BY <2>1
  <2>3. /\ Descs \in Nat \ {0} /\ h \in 0 .. Descs - 1
        /\ f \in [0 .. Descs - 1 -> Frame] /\ g \in [0 .. Descs - 1 -> Frame]
    BY Sizes
  <2> QED  BY <1>1, <2>2, <2>3, FromSame
<1>5. Descs \in Nat \ {0} /\ f \in [0 .. Descs - 1 -> Frame] /\ h \in 0 .. Descs - 1
  BY Sizes
<1>6. Len(From(f, h, n, Descs)) = n
  BY ONLY <1>1, <1>5, FromType
<1> QED  BY <1>3, <1>4, <1>6

-----------------------------------------------------------------------------
(* The receive ring.                                                       *)

RxPlace   == <<rx, rx_index, rx_dev, wiped, mac, armed>>
RxFrames  == [i \in Index |-> rx[i].frame]
CopyStep  == /\ pc # "init" /\ ~Copied /\ Copied' /\ Received
             /\ buf' = rx[rx_index].frame /\ UNCHANGED RxPlace
RearmStep == Copied /\ ~Copied' /\ Rearm /\ UNCHANGED <<mac, armed>>
Beside    == /\ UNCHANGED <<RxPlace, buf>> /\ Copied' = Copied
             /\ mac \/ pc' = pc \/ pc # "init"

\* What a step is to the receive ring.
LEMMA RxStep ==
  ASSUME TypeOK, [Next]_vars
  PROVE  Beside \/ SetupDesc \/ EnableMac \/ CopyStep \/ RearmStep \/ Arrive
<1> USE DEF rxvars, txvars, qvars, setup
<1>1. CASE InitDone \/ Dispatch
  BY <1>1 DEF InitDone, Dispatch, Beside, RxPlace, Copied
<1>2. CASE RxThread
  <2>1. CASE pc = "rx" /\ Copy("rearm")
    BY <2>1 DEF Copy, CopyStep, RxPlace, Copied
  <2>2. CASE pc = "rx" /\ NoFrame
    BY <2>2 DEF NoFrame, Beside, RxPlace, Copied
  <2>3. CASE pc = "rearm" /\ Rearm /\ pc' = "yield" /\ UNCHANGED setup
    BY <2>3 DEF RearmStep, Copied
  <2> QED  BY <1>2, <2>1, <2>2, <2>3 DEF RxThread
<1>3. CASE HandleRx
  <2>1. CASE pc = "poll" /\ Copy("poll_rearm")
    BY <2>1 DEF Copy, CopyStep, RxPlace, Copied
  <2>2. CASE pc = "poll" /\ NoFrame
    BY <2>2 DEF NoFrame, Beside, RxPlace, Copied
  <2>3. CASE pc = "poll_rearm" /\ Rearm /\ pc' = "poll" /\ UNCHANGED setup
    BY <2>3 DEF RearmStep, Copied
  <2> QED  BY <1>3, <2>1, <2>2, <2>3 DEF HandleRx
<1>4. CASE TxThread \/ EthernetSend
  BY <1>4 DEF TxThread, EthernetSend, Beside, RxPlace, Copied
<1>5. CASE Enqueue \/ Dequeue \/ Transmit
  BY <1>5 DEF Enqueue, Dequeue, Transmit, Beside, RxPlace, Copied
<1>6. CASE UNCHANGED vars
  BY <1>6 DEF vars, Beside, RxPlace, Copied
<1> QED  BY <1>1, <1>2, <1>3, <1>4, <1>5, <1>6 DEF Next, Driver

LEMMA RxInvInit == Init => RxInv
BY Sizes DEF Init, RxInv, ZeroRing

\* When the ring is set up and nothing was wiped out.
RxWindow == /\ Window(Filled, rx_index, Cardinality(Filled))
            /\ rx_dev = (rx_index + Cardinality(Filled)) % Descs
            /\ Copied => ~rx[rx_index].armed

LEMMA RearmWindow ==
  ASSUME TypeOK, RxWindow, RearmStep
  PROVE  /\ RxWindow' /\ Cardinality(Filled) \in 1 .. Descs
         /\ Cardinality(Filled') = Cardinality(Filled) - 1
         /\ RxFrames' = RxFrames
<1>1. rx \in Ring /\ rx_index \in Index /\ Filled \in SUBSET Index
  BY DEF TypeOK, Filled
<1>2. /\ rx' = [rx EXCEPT ![rx_index].armed = TRUE]
      /\ rx_index' = Next1(rx_index, Descs) /\ rx_dev' = rx_dev
      /\ Copied /\ ~Copied'
  BY DEF RearmStep, Rearm
<1>3. /\ rx'[rx_index].armed /\ rx'[rx_index].frame = rx[rx_index].frame
      /\ \A i \in Index \ {rx_index} : rx'[i] = rx[i]
  BY <1>1, <1>2 DEF Ring
<1>4. Filled' = Filled \ {rx_index} /\ rx_index \in Filled
  BY <1>1, <1>2, <1>3 DEF Filled, RxWindow
<1>5. RxFrames' = RxFrames
  BY <1>1, <1>3 DEF RxFrames
<1>6. /\ Cardinality(Filled) \in 1 .. Descs
      /\ Cardinality(Filled') = Cardinality(Filled) - 1
      /\ Window(Filled', rx_index', Cardinality(Filled'))
      /\ rx_dev' = (rx_index' + Cardinality(Filled')) % Descs
  BY <1>1, <1>2, <1>4, WindowDrop DEF RxWindow
<1> QED  BY <1>2, <1>5, <1>6 DEF RxWindow, Window, Filled

LEMMA ArriveWindow ==
  ASSUME TypeOK, RxWindow, Arrive
  PROVE  /\ RxWindow' /\ Cardinality(Filled) \in 0 .. Descs - 1
         /\ Cardinality(Filled') = Cardinality(Filled) + 1
         /\ RxFrames'[rx_dev] = arrived + 1
         /\ \A i \in Index \ {rx_dev} : RxFrames'[i] = RxFrames[i]
<1>1. rx \in Ring /\ rx_index \in Index /\ rx_dev \in Index /\ Filled \in SUBSET Index
  BY DEF TypeOK, Filled
<1>2. /\ rx' = [rx EXCEPT ![rx_dev] = [armed |-> FALSE, frame |-> arrived + 1]]
      /\ rx_index' = rx_index /\ rx_dev' = Next1(rx_dev, Descs) /\ rx[rx_dev].armed
      /\ Copied' = Copied
  BY DEF Arrive, Copied
<1>3. /\ rx'[rx_dev] = [armed |-> FALSE, frame |-> arrived + 1]
      /\ \A i \in Index \ {rx_dev} : rx'[i] = rx[i]
  BY <1>1, <1>2 DEF Ring
<1>4. Filled' = Filled \cup {rx_dev} /\ rx_dev \notin Filled
  BY <1>1, <1>2, <1>3 DEF Filled
<1>5. /\ Cardinality(Filled) \in 0 .. Descs - 1
      /\ Cardinality(Filled') = Cardinality(Filled) + 1
      /\ Window(Filled', rx_index, Cardinality(Filled'))
  BY <1>1, <1>4, WindowAdd DEF RxWindow
<1>6. rx_dev' = (rx_index' + Cardinality(Filled')) % Descs
  <2> DEFINE n == Cardinality(Filled)
  <2>1. rx_dev = (rx_index + n) % Descs
    BY DEF RxWindow
  <2> HIDE DEF n
  <2>2. n \in 0 .. Descs - 1 /\ Cardinality(Filled') = n + 1
    BY <1>5 DEF n
  <2>3. Descs \in Nat \ {0} /\ rx_index \in 0 .. Descs - 1
    BY <1>1, Sizes
  <2>4. Next1((rx_index + n) % Descs, Descs) = (rx_index + (n + 1)) % Descs
    BY ONLY <2>2, <2>3, AroundNext
  <2> QED  BY <1>2, <2>1, <2>2, <2>4
<1>7. Copied' => ~rx'[rx_index'].armed
  BY <1>1, <1>2, <1>3 DEF RxWindow
<1>8. /\ RxFrames'[rx_dev] = arrived + 1
      /\ \A i \in Index \ {rx_dev} : RxFrames'[i] = RxFrames[i]
  BY <1>1, <1>3 DEF RxFrames
<1> QED  BY <1>2, <1>5, <1>6, <1>7, <1>8 DEF RxWindow, Window, Filled

LEMMA RxInvNext ==
  ASSUME TypeOK, RxInv, [Next]_vars
  PROVE  RxInv'
<1>1. CASE Beside
  BY <1>1 DEF Beside, RxPlace, RxInv, Filled, Window
<1>2. CASE SetupDesc
  <2>1. /\ armed \in Index /\ rx \in Ring
        /\ rx' = [rx EXCEPT ![armed].armed = TRUE] /\ armed' = armed + 1
        /\ wiped' = (wiped \/ (mac /\ ~rx[armed].armed))
        /\ UNCHANGED <<pc, mac, rx_index, rx_dev>>
    BY <1>2, Sizes DEF SetupDesc, TypeOK
  <2>2. CASE ~mac
    <3>1. \A i \in Index : rx'[i].armed <=> i < armed'
      <4>1. ASSUME NEW i \in Index PROVE rx'[i].armed <=> i = armed \/ rx[i].armed
        BY <2>1 DEF Ring
      <4>2. ASSUME NEW i \in Index PROVE i < armed' <=> i = armed \/ i < armed
        BY <2>1, Sizes
      <4> QED  BY <2>2, <4>1, <4>2 DEF RxInv
    <3> QED  BY <2>1, <2>2, <3>1 DEF RxInv
  <2>3. CASE mac /\ ~wiped'
    <3>1. rx' = rx
      BY <2>1, <2>3 DEF Ring
    <3> QED  BY <2>1, <2>3, <3>1 DEF RxInv, Filled, Window, Copied
  <2>4. CASE mac /\ wiped'
    BY <2>1, <2>4 DEF RxInv
  <2> QED  BY <2>2, <2>3, <2>4
<1>3. CASE EnableMac
  <2>1. /\ ~mac /\ mac' /\ armed = Descs /\ UNCHANGED <<pc, rx, rx_index, rx_dev, wiped>>
        /\ pc = "init" /\ rx_index = 0 /\ rx_dev = 0
    BY <1>3 DEF EnableMac, rxvars, RxInv
  <2>2. Filled' = {} /\ Cardinality(Filled') = 0
    <3>1. Filled' = {}
      BY <1>3, <2>1, Sizes DEF RxInv, Filled
    <3> QED  BY <3>1, FS_EmptySet
  <2>3. Window({}, 0, 0) /\ (0 + 0) % Descs = 0
    BY Sizes DEF Window
  <2> QED  BY <2>1, <2>2, <2>3 DEF RxInv, Filled, Window, Copied
<1>4. CASE CopyStep
  <2>1. mac /\ mac' /\ UNCHANGED <<rx, rx_index, rx_dev, wiped>> /\ ~rx[rx_index].armed
    BY <1>4 DEF CopyStep, RxInv, Received, RxPlace
  <2> QED  BY <2>1 DEF RxInv, Filled, Window
<1>5. CASE RearmStep
  <2>1. mac /\ mac' /\ wiped' = wiped
    BY <1>5 DEF RearmStep, Rearm, RxInv, Copied
  <2> QED  BY <1>5, <2>1, RearmWindow DEF RxInv, RxWindow, Filled, Window
<1>6. CASE Arrive
  <2>1. mac /\ mac' /\ wiped' = wiped
    BY <1>6 DEF Arrive, setup
  <2> QED  BY <1>6, <2>1, ArriveWindow DEF RxInv, RxWindow, Filled, Window
<1> QED  BY <1>1, <1>2, <1>3, <1>4, <1>5, <1>6, RxStep

LEMMA RxInStepHolds == TypeOK /\ RxInv => RxInStep
<1> SUFFICES ASSUME TypeOK, RxInv, ~wiped, RingSetUp, NEW i \in Index, ~rx[i].armed
             PROVE  ~rx[rx_index].armed
  BY DEF RxInStep
<1>1. rx_index \in Index /\ Filled \in SUBSET Index /\ Filled # {}
  BY DEF TypeOK, Filled
<1>2. Window(Filled, rx_index, Cardinality(Filled))
  BY DEF RxInv, RingSetUp
<1>3. rx_index \in Filled
  BY <1>1, <1>2, WindowFirst
<1> QED  BY <1>3 DEF Filled

\* Reading and storing frames, as the sequence of those not read yet sees it.
LEMMA RxOrder ==
  ASSUME TypeOK, RxWindow, RxWindow', [Next]_vars, RingSetUp
  PROVE  RxRing!Next \/ UNCHANGED <<Unread, buf>>
<1> DEFINE n == Cardinality(Filled)
           h == rx_index
           g == Next1(rx_index, Descs)
           f == RxFrames
<1>1. /\ f \in [Index -> Frame] /\ f' \in [Index -> Frame] /\ h \in Index /\ n \in 0 .. Descs
      /\ rx_dev = (h + n) % Descs
  <2>1. TypeOK'
    BY NextType
  <2> QED  BY <2>1 DEF TypeOK, Ring, RxFrames, RxWindow, Window
<1>2. Unread = IF Copied THEN From(f, g, n - 1, Descs) ELSE From(f, h, n, Descs)
  BY DEF Unread, RxFrames, Filled
<1>3. Unread' = IF Copied' THEN From(f', g', n' - 1, Descs) ELSE From(f', h', n', Descs)
  BY DEF Unread, RxFrames, Filled
<1>4. CASE Beside
  BY <1>4 DEF Beside, RxPlace, Unread
<1>5. CASE SetupDesc \/ EnableMac
  BY <1>5, Sizes DEF SetupDesc, EnableMac, RingSetUp
<1>6. CASE CopyStep
  <2>1. ~Copied /\ Copied' /\ f' = f /\ g' = g /\ n' = n /\ buf' = f[h] /\ ~rx[h].armed
    BY <1>1, <1>6 DEF CopyStep, RxPlace, RxFrames, Filled, Received
  <2>2. n \in 1 .. Descs
    <3>1. h \in Filled /\ Filled \in SUBSET Index /\ Window(Filled, h, n)
      BY <1>1, <2>1 DEF Filled, RxWindow
    <3> QED  BY <1>1, <3>1, WindowFirst
  <2> HIDE DEF n, h, f
  <2>3. /\ From(f, h, n, Descs) # <<>> /\ Head(From(f, h, n, Descs)) = f[h]
        /\ Tail(From(f, h, n, Descs)) = From(f, Next1(h, Descs), n - 1, Descs)
    BY <1>1, <2>2, Sizes, FromTail
  <2>4. Unread # <<>> /\ Head(Unread) = buf' /\ Tail(Unread) = Unread'
    BY <1>2, <1>3, <2>1, <2>3 DEF h
  <2>5. RxRing!Get("rx")
    BY <2>4 DEF RxRing!Get
  <2> QED  BY <2>5 DEF RxRing!Next
<1>7. CASE RearmStep
  <2>1. Copied /\ ~Copied' /\ h' = g /\ buf' = buf
    BY <1>7 DEF RearmStep, Rearm
  <2>2. n' = n - 1 /\ f' = f
    BY <1>7, RearmWindow
  <2>3. Unread' = Unread
    BY <1>2, <1>3, <2>1, <2>2
  <2> QED  BY <2>1, <2>3
<1>8. CASE Arrive
  <2>1. Copied' = Copied /\ h' = h /\ g' = g /\ buf' = buf /\ arrived + 1 \in Frame
    BY <1>8, Sizes DEF Arrive, Copied, TypeOK
  <2>2. /\ n \in 0 .. Descs - 1 /\ n' = n + 1 /\ f'[rx_dev] = arrived + 1
        /\ \A i \in Index \ {rx_dev} : f'[i] = f[i]
    BY <1>8, ArriveWindow
  <2>3. Unread' = Append(Unread, arrived + 1) /\ Len(Unread) < Descs
    <3>1. CASE ~Copied
      <4> HIDE DEF n, h, f, g
      <4>1. /\ From(f', h, n + 1, Descs) = Append(From(f, h, n, Descs), arrived + 1)
            /\ Len(From(f, h, n, Descs)) = n
        BY <1>1, <2>1, <2>2, FromJoined
      <4>2. n < Descs
        BY <2>2, Sizes
      <4> QED  BY <1>2, <1>3, <2>1, <2>2, <3>1, <4>1, <4>2
    <3>2. CASE Copied
      <4>1. n \in 1 .. Descs
        <5>1. h \in Filled /\ Filled \in SUBSET Index /\ Window(Filled, h, n)
          BY <1>1, <3>2 DEF Filled, RxWindow
        <5> QED  BY <1>1, <5>1, WindowFirst
      <4>2. /\ g \in Index /\ n - 1 \in 0 .. Descs - 1 /\ (n - 1) + 1 = n
            /\ (g + (n - 1)) % Descs = rx_dev
        <5> HIDE DEF n
        <5>1. n - 1 \in 0 .. Descs - 1 /\ (n - 1) + 1 = n
          BY <4>1, Sizes
        <5>2. g \in Index
          BY <1>1, Sizes, Next1Type
        <5> HIDE DEF h
        <5>3. (Next1(h, Descs) + (n - 1)) % Descs = (h + ((n - 1) + 1)) % Descs
          BY <1>1, <5>1, Sizes, AroundNext
        <5> QED  BY <1>1, <5>1, <5>2, <5>3 DEF h
      <4> HIDE DEF n, h, f, g
      <4> DEFINE m == n - 1
      <4>3. m \in 0 .. Descs - 1 /\ m + 1 = n /\ (g + m) % Descs = rx_dev
        BY <4>2
      <4> HIDE DEF m
      <4>4. /\ From(f', g, m + 1, Descs) = Append(From(f, g, m, Descs), arrived + 1)
            /\ Len(From(f, g, m, Descs)) = m
        BY <1>1, <2>1, <2>2, <4>2, <4>3, FromJoined
      <4>5. n' - 1 = m + 1 /\ m < Descs
        BY <2>2, <4>3, Sizes
      <4> QED  BY <1>2, <1>3, <2>1, <3>2, <4>4, <4>5 DEF m
    <3> QED  BY <3>1, <3>2
  <2>4. RxRing!Put("rx")
    BY <2>1, <2>3 DEF RxRing!Put
  <2> QED  BY <2>4 DEF RxRing!Next
<1> QED  BY <1>4, <1>5, <1>6, <1>7, <1>8, RxStep

LEMMA RxOrderHolds ==
  ASSUME TypeOK, RxInv, RxInv', [Next]_vars, ~wiped', RingSetUp
  PROVE  RxRing!Next \/ UNCHANGED <<Unread, buf>>
<1>1. wiped' = wiped /\ mac' = mac
  <2>1. mac /\ armed = Descs
    BY DEF RingSetUp
  <2>2. CASE SetupDesc \/ EnableMac
    BY <2>1, <2>2, Sizes DEF SetupDesc, EnableMac
  <2>3. CASE Beside \/ CopyStep
    BY <2>3 DEF Beside, CopyStep, RxPlace
  <2>4. CASE RearmStep \/ Arrive
    BY <2>4 DEF RearmStep, Rearm, Arrive, setup
  <2> QED  BY <2>2, <2>3, <2>4, RxStep
<1>2. RxWindow /\ RxWindow'
  BY <1>1, Zenon DEF RxInv, RxWindow, RingSetUp
<1> QED  BY <1>2, RxOrder

-----------------------------------------------------------------------------
(* The transmit ring.                                                      *)

Filling  == pc \in {"arm", "send"}
TxPlace  == <<tx, tx_index, tx_dev, wire, overrun>>
TxFrames == [i \in Index |-> tx[i].frame]
FillStep == ~Filling /\ Filling' /\ \E f \in Frame : Fill(f)
ArmStep  == Filling /\ ~Filling' /\ Arm
TxBeside == UNCHANGED TxPlace /\ Filling' = Filling

\* What a step is to the transmit ring.
LEMMA TxStep ==
  ASSUME TypeOK, [Next]_vars
  PROVE  TxBeside \/ FillStep \/ ArmStep \/ Transmit
<1> USE DEF rxvars, txvars, qvars, setup
<1>1. CASE SetupDesc \/ EnableMac \/ InitDone \/ RxThread \/ HandleRx \/ Dispatch
  BY <1>1 DEF SetupDesc, EnableMac, InitDone, RxThread, HandleRx, Copy, NoFrame, Dispatch,
              TxBeside, TxPlace, Filling
<1>2. CASE Enqueue \/ Dequeue \/ Arrive
  BY <1>2 DEF Enqueue, Dequeue, Arrive, TxBeside, TxPlace, Filling
<1>3. CASE TxThread
  <2>1. CASE pc = "tx" /\ Pop("tx") /\ Fill(out'["tx"]) /\ pc' = "arm"
    <3>1. out'["tx"] \in Frame
      BY <2>1, PopType DEF TypeOK, QueuesOK, Queues
    <3> QED  BY <2>1, <3>1 DEF FillStep, Filling
  <2>2. CASE pc = "arm" /\ Arm /\ pc' = "tx"
    BY <2>2 DEF ArmStep, Filling
  <2> QED  BY <1>3, <2>1, <2>2 DEF TxThread
<1>4. CASE EthernetSend
  <2>1. CASE pc = "yield" /\ made < MaxFrames /\ Fill(made + 1) /\ pc' = "send"
    <3>1. made + 1 \in Frame
      BY <2>1, Sizes DEF TypeOK
    <3> QED  BY <2>1, <3>1 DEF FillStep, Filling
  <2>2. CASE pc = "send" /\ Arm /\ pc' = "yield"
    BY <2>2 DEF ArmStep, Filling
  <2> QED  BY <1>4, <2>1, <2>2 DEF EthernetSend
<1>5. CASE UNCHANGED vars
  BY <1>5 DEF vars, TxBeside, TxPlace, Filling
<1> QED  BY <1>1, <1>2, <1>3, <1>4, <1>5 DEF Next, Driver

\* While genet_send has not overtaken the controller, the armed descriptors go from
\* the controller's place to that of the driver, or to the one before while a call of
\* genet_send is half way.
TxWindow ==
    /\ Window(Armed, tx_dev, Cardinality(Armed))
    /\ Filling => /\ Cardinality(Armed) < Descs
                  /\ tx_index = Next1((tx_dev + Cardinality(Armed)) % Descs, Descs)
    /\ ~Filling => tx_index = (tx_dev + Cardinality(Armed)) % Descs

LEMMA TxInitWindow == Init => TxWindow
<1> SUFFICES ASSUME Init PROVE TxWindow
  OBVIOUS
<1>1. Armed = {} /\ Cardinality(Armed) = 0
  <2>1. Armed = {}
    BY DEF Init, ZeroRing, Armed
  <2> QED  BY <2>1, FS_EmptySet
<1>2. Window({}, 0, 0) /\ (0 + 0) % Descs = 0
  BY Sizes DEF Window
<1> QED  BY <1>1, <1>2 DEF Init, TxWindow, Filling

LEMMA FillWindow ==
  ASSUME TypeOK, TxWindow, FillStep, ~overrun'
  PROVE  /\ TxWindow' /\ Cardinality(Armed) \in 0 .. Descs - 1 /\ Armed' = Armed
         /\ \E f \in Frame : /\ TxFrames'[tx_index] = f
                             /\ \A i \in Index \ {tx_index} : TxFrames'[i] = TxFrames[i]
<1>1. tx \in Ring /\ tx_index \in Index /\ tx_dev \in Index /\ Armed \in SUBSET Index
  BY DEF TypeOK, Armed
<1>2. PICK f \in Frame : Fill(f)
  BY DEF FillStep
<1>3. /\ tx' = [tx EXCEPT ![tx_index].frame = f]
      /\ tx_index' = Next1(tx_index, Descs) /\ tx_dev' = tx_dev
      /\ ~tx[tx_index].armed /\ ~Filling /\ Filling'
  BY <1>2 DEF Fill, FillStep
<1>4. /\ tx'[tx_index].frame = f /\ tx'[tx_index].armed = tx[tx_index].armed
      /\ \A i \in Index \ {tx_index} : tx'[i] = tx[i]
  BY <1>1, <1>3 DEF Ring
<1>5. Armed' = Armed /\ tx_index \notin Armed
  BY <1>1, <1>3, <1>4 DEF Armed
<1>6. tx_index = (tx_dev + Cardinality(Armed)) % Descs
  BY <1>3 DEF TxWindow
<1>7. Cardinality(Armed) \in 0 .. Descs - 1
  BY <1>1, <1>5, <1>6, WindowAdd DEF TxWindow
<1>8. TxWindow'
  <2>1. Cardinality(Armed') < Descs
    BY <1>5, <1>7, Sizes
  <2>2. Window(Armed', tx_dev', Cardinality(Armed'))
    BY <1>3, <1>5 DEF TxWindow
  <2>3. tx_index' = Next1((tx_dev' + Cardinality(Armed')) % Descs, Descs)
    BY <1>3, <1>5, <1>6
  <2> QED  BY <1>3, <2>1, <2>2, <2>3 DEF TxWindow, Window, Armed
<1>9. TxFrames'[tx_index] = f /\ \A i \in Index \ {tx_index} : TxFrames'[i] = TxFrames[i]
  BY <1>1, <1>4 DEF TxFrames
<1> QED  BY <1>5, <1>7, <1>8, <1>9

LEMMA ArmWindow ==
  ASSUME TypeOK, TxWindow, ArmStep
  PROVE  /\ TxWindow' /\ Cardinality(Armed') = Cardinality(Armed) + 1
         /\ TxFrames' = TxFrames
<1> DEFINE end == (tx_dev + Cardinality(Armed)) % Descs
<1>1. tx \in Ring /\ tx_dev \in Index /\ Armed \in SUBSET Index
  BY DEF TypeOK, Armed
<1>2. Filling /\ ~Filling' /\ Arm
  BY DEF ArmStep
<1>3. /\ Window(Armed, tx_dev, Cardinality(Armed)) /\ Cardinality(Armed) < Descs
      /\ tx_index = Next1(end, Descs) /\ Cardinality(Armed) \in 0 .. Descs - 1
  BY <1>2, Sizes DEF TxWindow, Window
<1>4. end \in Index
  <2>1. Cardinality(Armed) \in 0 .. Descs
    BY <1>3 DEF Window
  <2> QED  BY <1>1, <2>1, Around, Sizes
<1>5. end \notin Armed
  <2>1. ~(Cardinality(Armed) < Cardinality(Armed))
    BY <1>3
  <2> QED  BY <1>3, <2>1 DEF Window
<1>6. Sending = end
  <2> HIDE DEF end
  <2>1. (Next1(end, Descs) - 1) % Descs = end
    <3>1. Next1(end, Descs) = IF end + 1 < Descs THEN end + 1 ELSE 0
      BY <1>4, Sizes DEF Next1
    <3>2. CASE end + 1 < Descs
      BY <1>4, <3>1, <3>2, Sizes
    <3>3. CASE ~(end + 1 < Descs)
      <4>1. end = Descs - 1 /\ Next1(end, Descs) = 0
        BY <1>4, <3>1, <3>3, Sizes
      <4>2. (0 - 1) % Descs = Descs - 1
        BY Sizes
      <4> QED  BY <4>1, <4>2
    <3> QED  BY <3>2, <3>3
  <2> QED  BY <1>3, <2>1 DEF Sending
<1> HIDE DEF end
<1>7. /\ tx' = [tx EXCEPT ![end].armed = TRUE]
      /\ tx_index' = tx_index /\ tx_dev' = tx_dev
  BY <1>2, <1>6 DEF Arm
<1>8. /\ tx'[end].armed /\ tx'[end].frame = tx[end].frame
      /\ \A i \in Index \ {end} : tx'[i] = tx[i]
  BY <1>1, <1>4, <1>7 DEF Ring
<1>9. Armed' = Armed \cup {end}
  BY <1>1, <1>4, <1>8 DEF Armed
<1>10. /\ Cardinality(Armed') = Cardinality(Armed) + 1
       /\ Window(Armed', tx_dev, Cardinality(Armed'))
  BY <1>1, <1>3, <1>5, <1>9, WindowAdd DEF end
<1>11. tx_index' = (tx_dev' + Cardinality(Armed')) % Descs
  BY <1>1, <1>3, <1>7, <1>10, AroundNext, Sizes DEF end
<1>12. TxFrames' = TxFrames
  BY <1>1, <1>8 DEF TxFrames
<1> QED  BY <1>2, <1>7, <1>10, <1>11, <1>12 DEF TxWindow, Window, Armed

LEMMA TransmitWindow ==
  ASSUME TypeOK, TxWindow, Transmit
  PROVE  /\ TxWindow' /\ Cardinality(Armed) \in 1 .. Descs
         /\ Cardinality(Armed') = Cardinality(Armed) - 1
         /\ TxFrames' = TxFrames
<1>1. tx \in Ring /\ tx_dev \in Index /\ Armed \in SUBSET Index
  BY DEF TypeOK, Armed
<1>2. /\ tx[tx_dev].armed /\ tx' = [tx EXCEPT ![tx_dev].armed = FALSE]
      /\ tx_dev' = Next1(tx_dev, Descs) /\ tx_index' = tx_index /\ Filling' = Filling
  BY DEF Transmit, Filling
<1>3. /\ ~tx'[tx_dev].armed /\ tx'[tx_dev].frame = tx[tx_dev].frame
      /\ \A i \in Index \ {tx_dev} : tx'[i] = tx[i]
  BY <1>1, <1>2 DEF Ring
<1>4. Armed' = Armed \ {tx_dev} /\ tx_dev \in Armed
  BY <1>1, <1>2, <1>3 DEF Armed
<1>5. /\ Cardinality(Armed) \in 1 .. Descs
      /\ Cardinality(Armed') = Cardinality(Armed) - 1
      /\ Window(Armed', tx_dev', Cardinality(Armed'))
      /\ (tx_dev' + Cardinality(Armed')) % Descs = (tx_dev + Cardinality(Armed)) % Descs
  BY <1>1, <1>2, <1>4, WindowDrop DEF TxWindow
<1>6. Cardinality(Armed') < Descs
  BY <1>5, Sizes
<1>7. TxFrames' = TxFrames
  BY <1>1, <1>3 DEF TxFrames
<1> QED  BY <1>2, <1>5, <1>6, <1>7 DEF TxWindow, Window, Armed

TxInv == ~overrun => TxWindow

LEMMA StillInStep ==
  ASSUME TypeOK, [Next]_vars, ~overrun'
  PROVE  ~overrun
BY TxStep DEF TxBeside, TxPlace, FillStep, Fill, ArmStep, Arm, Transmit

LEMMA TxInvNext ==
  ASSUME TypeOK, TxInv, [Next]_vars
  PROVE  TxInv'
<1> SUFFICES ASSUME ~overrun' PROVE TxWindow'
  BY DEF TxInv, TxWindow, Window, Filling, Armed
<1>1. ~overrun
  BY StillInStep
<1>2. TxWindow
  BY <1>1 DEF TxInv
<1>3. CASE TxBeside
  BY <1>2, <1>3 DEF TxBeside, TxPlace, TxWindow, Window, Armed
<1> QED  BY <1>2, <1>3, TxStep, FillWindow, ArmWindow, TransmitWindow

LEMMA TxInStepHolds == TypeOK /\ TxInv => TxInStep
<1> SUFFICES ASSUME TypeOK, TxInv, ~overrun, NEW i \in Index, tx[i].armed
             PROVE  tx[tx_dev].armed
  BY DEF TxInStep
<1>1. tx_dev \in Index /\ Armed \in SUBSET Index /\ Armed # {}
  BY DEF TypeOK, Armed
<1>2. tx_dev \in Armed
  BY <1>1, WindowFirst DEF TxInv, TxWindow
<1> QED  BY <1>2 DEF Armed

\* Giving and sending frames, as the sequence of those not sent yet sees it.
LEMMA TxOrder ==
  ASSUME TypeOK, TxInv, [Next]_vars, ~overrun'
  PROVE  TxRing!Next \/ UNCHANGED <<Unsent, wire>>
<1> DEFINE n == Cardinality(Armed)
           h == tx_dev
           f == TxFrames
<1>1. ~overrun /\ TxWindow
  BY StillInStep DEF TxInv
<1>2. f \in [Index -> Frame] /\ f' \in [Index -> Frame] /\ h \in Index /\ n \in 0 .. Descs
  <2>1. TypeOK'
    BY NextType
  <2> QED  BY <1>1, <2>1 DEF TypeOK, Ring, TxFrames, TxWindow, Window
<1>3. Unsent = From(f, h, IF Filling THEN n + 1 ELSE n, Descs)
  BY DEF Unsent, TxFrames, Armed, Filling
<1>4. Unsent' = From(f', h', IF Filling' THEN n' + 1 ELSE n', Descs)
  BY DEF Unsent, TxFrames, Armed, Filling
<1>5. CASE TxBeside
  <2>1. f' = f /\ h' = h /\ n' = n /\ Filling' = Filling /\ wire' = wire
    BY <1>5 DEF TxBeside, TxPlace, TxFrames, Armed
  <2> QED  BY <1>3, <1>4, <2>1
<1>6. CASE FillStep
  <2>1. ~Filling /\ Filling' /\ h' = h /\ wire' = wire
    BY <1>6 DEF FillStep, Fill
  <2>2. PICK m \in Frame : f'[tx_index] = m /\ \A i \in Index \ {tx_index} : f'[i] = f[i]
    BY <1>1, <1>6, FillWindow
  <2>3. n \in 0 .. Descs - 1 /\ n' = n /\ tx_index = (h + n) % Descs
    BY <1>1, <1>6, <2>1, FillWindow DEF TxWindow
  <2> HIDE DEF n, h, f
  <2>4. /\ From(f', h, n + 1, Descs) = Append(From(f, h, n, Descs), m)
        /\ Len(From(f, h, n, Descs)) = n
    BY <1>2, <2>2, <2>3, FromJoined
  <2>5. n < Descs
    BY <2>3, Sizes
  <2>6. TxRing!Put("tx")
    BY <1>3, <1>4, <2>1, <2>3, <2>4, <2>5 DEF TxRing!Put
  <2> QED  BY <2>6 DEF TxRing!Next
<1>7. CASE ArmStep
  <2>1. Filling /\ ~Filling' /\ h' = h /\ wire' = wire
    BY <1>7 DEF ArmStep, Arm
  <2>2. n' = n + 1 /\ f' = f
    BY <1>1, <1>7, ArmWindow
  <2> QED  BY <1>3, <1>4, <2>1, <2>2
<1>8. CASE Transmit
  <2>1. Filling' = Filling /\ h' = Next1(h, Descs) /\ wire' = f[h]
    BY <1>2, <1>8 DEF Transmit, Filling, TxFrames
  <2>2. n \in 1 .. Descs /\ n' = n - 1 /\ f' = f
    BY <1>1, <1>8, TransmitWindow
  <2>3. Filling => n < Descs
    BY <1>1 DEF TxWindow
  <2> DEFINE m == IF Filling THEN n + 1 ELSE n
  <2> HIDE DEF n, h, f
  <2>4. m \in 1 .. Descs /\ m - 1 = IF Filling' THEN n' + 1 ELSE n'
    BY <2>1, <2>2, <2>3, Sizes
  <2> HIDE DEF m
  <2>5. /\ From(f, h, m, Descs) # <<>> /\ Head(From(f, h, m, Descs)) = f[h]
        /\ Tail(From(f, h, m, Descs)) = From(f, Next1(h, Descs), m - 1, Descs)
    BY <1>2, <2>4, Sizes, FromTail
  <2>6. Unsent # <<>> /\ Head(Unsent) = wire' /\ Tail(Unsent) = Unsent'
    BY <1>3, <1>4, <2>1, <2>2, <2>4, <2>5 DEF m
  <2>7. TxRing!Get("tx")
    BY <2>6 DEF TxRing!Get
  <2> QED  BY <2>7 DEF TxRing!Next
<1> QED  BY <1>5, <1>6, <1>7, <1>8, TxStep

-----------------------------------------------------------------------------
RingInv == TypeOK /\ RxInv /\ TxInv

LEMMA RingInvInit == Init => RingInv
BY InitType, RxInvInit, TxInitWindow DEF RingInv, TxInv

LEMMA RingInvNext == RingInv /\ [Next]_vars => RingInv'
BY NextType, RxInvNext, TxInvNext DEF RingInv

\* As long as genet_init has wiped no frame out, the descriptor genet_recv looks at holds a
\* frame if any does, for rings of any size.
THEOREM ReceiverInStep == Spec => []RxInStep
<1>1. RingInv => RxInStep
  BY RxInStepHolds DEF RingInv
<1> QED  BY <1>1, RingInvInit, RingInvNext, PTL DEF Spec

\* As long as genet_send has not overtaken the controller, the descriptor the controller waits
\* at is armed if any is, for rings of any size.
THEOREM SenderInStep == Spec => []TxInStep
<1>1. RingInv => TxInStep
  BY TxInStepHolds DEF RingInv
<1> QED  BY <1>1, RingInvInit, RingInvNext, PTL DEF Spec

\* genet_recv hands over each frame the controller stored, once and in order.
THEOREM FramesReceivedInOrder == Spec => ReceivedInOrder
<1>1. RingInv /\ RingInv' /\ [Next]_vars =>
        [~wiped' /\ RingSetUp => RxRing!Next \/ UNCHANGED <<Unread, buf>>]_vars
  BY RxOrderHolds DEF RingInv
<1> QED  BY <1>1, RingInvInit, RingInvNext, PTL DEF Spec, ReceivedInOrder

\* Each frame given to genet_send goes out once and in order.
THEOREM FramesSentInOrder == Spec => SentInOrder
<1>1. RingInv /\ [Next]_vars =>
        [~overrun' => TxRing!Next \/ UNCHANGED <<Unsent, wire>>]_vars
  BY TxOrder DEF RingInv
<1> QED  BY <1>1, RingInvInit, RingInvNext, PTL DEF Spec, SentInOrder
=============================================================================
