---------------------------- MODULE KernelProps ----------------------------
(***************************************************************************)
(* What the threads of module Kernel may rely on.                          *)
(***************************************************************************)
EXTENDS Kernel, Sequences

\* A thread waits for a message only while there is none: neither a message
\* that came in before receive blocked nor one that came in later is slept
\* through (send's wake-up, receive's test).
NoLostWakeup == \A t \in active : state[t] = "blocked" => Empty(mailbox[t])

\* While a thread runs, no other is runnable that is above it, or of its
\* priority with an earlier deadline: whatever the last call woke, the first
\* scan of a blocked receive chose, and the time in between made due.
MostUrgentRuns ==
    mode = "user" /\ Runnable(state) # {} =>
        /\ state[current] = "runnable" /\ current \in active
        /\ \A t \in Runnable(state) :
             \/ Priority[current] < Priority[t]
             \/ Priority[current] = Priority[t] /\ deadline[current] <= deadline[t]

\* A handler that returns has a routine to go back to.
HandlerCanReturn ==
    \A t \in Thread : elr[t].in \in Handlers => saved[t] \in Routine

-----------------------------------------------------------------------------
\* The rings of slots are bounded queues of messages: none is lost, doubled,
\* overtaken or overwritten before it is read.
QueueOf(b) == [i \in 1 .. b.count |-> b.messages[(b.head + i - 1) % Size]]

Promise == INSTANCE Channels WITH
    Reader <- Thread, Items <- Message, Capacity <- Size,
    NoItem <- EmptyMailbox(0).messages[0],
    queue <- [t \in Thread |-> QueueOf(mailbox[t])], got <- out

ImplementsChannels == Promise!Spec

-----------------------------------------------------------------------------
Running(t) == mode = "user" /\ current = t

\* A thread that sleeps is woken: as long as the kernel shell is not active, and
\* programs keep making calls, its tick is seen by some run of the scheduler.
SleepersWake ==
    \A t \in Thread : KernelThread \notin active /\ t \in active /\ state[t] = "sleeping"
                        ~> state[t] # "sleeping" \/ Running(t)

\* Threads of the highest priority share the processor: none of them stays
\* runnable for ever without running.
TopThreadsTakeTurns ==
    \A t \in Thread : []<>(t \in Top(state) => Running(t))

-----------------------------------------------------------------------------
(* What the sources say of the kernel, and the code does not do.            *)

\* user/sensor_task.c:25: "Sleep for 10 ticks".  A thread that sleeps does not run.
SleepersDoNotRun == mode = "user" => state[current] # "sleeping"

\* kernel/user2.S:22, of a signal: the kernel "saves original PC to saved_pc".
SavesOriginalPC ==
    [][\A t \in Thread : elr'[t].in \in Handlers /\ pending[t] # 0 /\ pending'[t] = 0 =>
         elr[t] \in {NoPC, StartOf(saved'[t])}]_vars

=============================================================================
