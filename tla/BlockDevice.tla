----------------------------- MODULE BlockDevice -----------------------------
(***************************************************************************)
(* What the file system takes a block device to be (the calls of           *)
(* include/block/sd.h): reads and writes of whole sectors.  A write that   *)
(* fails may still reach the disk later on, but only before any later call *)
(* succeeds; so to the caller it is as if it had done so at once, or not   *)
(* at all.                                                                 *)
(***************************************************************************)
CONSTANTS Lba, Value, Damaged

VARIABLES
    disk,      \* what the sectors hold
    call,      \* the call under way, NoCall between calls
    pending,   \* a write the disk may still carry out, {} or one
    ret,       \* the result of the last call, until the next
    flag       \* the hardware has reported an error in the data

vars == <<disk, call, pending, ret, flag>>

NoCall == [op |-> "none", lba |-> 0, val |-> Damaged]
NoRet  == [op |-> "none", ok |-> FALSE, lba |-> 0, data |-> Damaged]

Init ==
    /\ disk \in [Lba -> Value] /\ call = NoCall /\ pending = {}
    /\ ret = NoRet /\ flag = FALSE

Call(c) ==
    /\ call = NoCall /\ call' = c
    /\ ret' = NoRet
    /\ UNCHANGED <<disk, pending, flag>>

\* The data of the write is on its way.
Send ==
    /\ call.op = "write" /\ pending = {}
    /\ pending' = {[lba |-> call.lba, val |-> call.val]}
    /\ UNCHANGED <<disk, call, ret, flag>>

Store ==
    /\ \E w \in pending : disk' = [disk EXCEPT ![w.lba] = w.val]
    /\ pending' = {}
    /\ UNCHANGED <<call, ret, flag>>

\* It is lost, or refused.
Lose ==
    /\ pending' = {} /\ flag' \in BOOLEAN
    /\ UNCHANGED <<disk, call, ret>>

\* An answer that is not an error is true, or the hardware has said otherwise.
Succeed(data) ==
    /\ pending = {}
    /\ flag \/ data = disk[call.lba]
    /\ ret' = [op |-> call.op, ok |-> TRUE, lba |-> call.lba, data |-> data]

Return ==
    /\ call # NoCall /\ call' = NoCall
    /\ \/ /\ call.op = "read"
          /\ \E data \in Value \cup {Damaged} : Succeed(data)
       \/ call.op = "write" /\ Succeed(call.val)
       \/ ret' = [op |-> call.op, ok |-> FALSE, lba |-> call.lba, data |-> Damaged]
    /\ UNCHANGED <<disk, pending>> /\ flag' \in BOOLEAN

Report == flag' \in BOOLEAN /\ UNCHANGED <<disk, call, pending, ret>>

Calls == [op : {"read"}, lba : Lba, val : {Damaged}] \cup [op : {"write"}, lba : Lba, val : Value]

Next == (\E c \in Calls : Call(c)) \/ Send \/ Store \/ Lose \/ Return \/ Report

Spec == Init /\ [][Next]_vars

==============================================================================
