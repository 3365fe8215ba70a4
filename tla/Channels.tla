------------------------------ MODULE Channels ------------------------------
(***************************************************************************)
(* What messages between threads promise: each thread has a queue of       *)
(* bounded length; messages come out of it once each, in the order they    *)
(* went in.                                                                *)
(***************************************************************************)
EXTENDS Sequences, Integers

CONSTANTS Reader,    \* the threads that have a queue
          Items,     \* what a message can be
          Capacity,  \* messages a queue holds
          NoItem     \* what a thread has got before its first message

VARIABLES queue, got \* the messages to come, and the last one received

Init == /\ queue = [r \in Reader |-> <<>>]
        /\ got = [r \in Reader |-> NoItem]

Put(r) == /\ Len(queue[r]) < Capacity
          /\ \E m \in Items : queue' = [queue EXCEPT ![r] = Append(@, m)]
          /\ UNCHANGED got

Get(r) == /\ queue[r] # <<>>
          /\ got' = [got EXCEPT ![r] = Head(queue[r])]
          /\ queue' = [queue EXCEPT ![r] = Tail(@)]

Next == \E r \in Reader : Put(r) \/ Get(r)

Spec == Init /\ [][Next]_<<queue, got>>

=============================================================================
