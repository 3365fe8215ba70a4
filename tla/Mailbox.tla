------------------------------ MODULE Mailbox ------------------------------
(***************************************************************************)
(* The mailbox of a thread (include/ipc.h; send and receive in             *)
(* kernel/threads.c): a ring of message slots.  A message is a sender and  *)
(* Width bytes of text; sending writes over what the slot held before.     *)
(***************************************************************************)
EXTENDS Integers

CONSTANTS
    Senders,  \* who may send
    Size,     \* MAILBOX_SIZE
    Width,    \* bytes of text in a message
    Chars,    \* what a byte of a text can be, and
    NUL,      \* the zero byte that ends a C string
    Texts     \* the strings sent: functions on 0 .. n - 1

ASSUME MailboxAssumption ==
    /\ Size \in Nat \ {0} /\ Width \in Nat
    /\ NUL \notin Chars
    /\ \A x \in Texts : \A i \in DOMAIN x : x[i] \in Chars

Byte    == 0 .. Width - 1
Slot    == 0 .. Size - 1
Message == [from : Senders, data : [Byte -> Chars \cup {NUL}]]
Mailboxes == [messages : [Slot -> Message], head : Slot, tail : Slot, count : 0 .. Size]

\* The mailboxes are in zeroed memory: every slot is from thread f, thread 0.
EmptyMailbox(f) ==
    [messages |-> [i \in Slot |-> [from |-> f, data |-> [j \in Byte |-> NUL]]],
     head |-> 0, tail |-> 0, count |-> 0]

\* Mutant of Full: one message too many is let in.
FullLate(b) == b.count > Size
Full(b)   == b.count >= Size
Empty(b)  == b.count = 0
Next1(i)  == (i + 1) % Size

\* The text is copied up to its end or to the end of the slot.
Written(old, text) == [i \in Byte |-> IF i \in DOMAIN text THEN text[i] ELSE old[i]]

Put(b, f, text) ==
    [b EXCEPT !.messages[b.tail] = [from |-> f, data |-> Written(@.data, text)],
              !.tail = Next1(b.tail), !.count = b.count + 1]

\* Mutant of Taken: the head stays where it is.
TakenTail(b) == [b EXCEPT !.tail = Next1(b.tail), !.count = b.count - 1]
Taken(b) == [b EXCEPT !.head = Next1(b.head), !.count = b.count - 1]
Oldest(b) == b.messages[b.head]

=============================================================================
