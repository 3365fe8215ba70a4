------------------------------- MODULE Kernel -------------------------------
(***************************************************************************)
(* The threads of RealNetOS: the scheduler, sleeping, messages and signals *)
(* (kernel/threads.c, kernel/syscall.c, schedule_from_el0 in               *)
(* kernel/main.c, the SVC path of boot/exception_vector.S).                *)
(*                                                                         *)
(* A user thread runs until its next system call.  Interrupts are masked   *)
(* then, so the call is one step, and what the exception path does next,   *)
(* schedule_from_el0, another; the timer is read at the start of both.     *)
(* Only differences of system_ticks matter: deadline and sleep_until are   *)
(* kept as the ticks still to come, 0 once the tick has been reached.      *)
(*                                                                         *)
(* The table of init_threads activates the kernel shell alone, which never *)
(* returns; Tables lists the sets of threads a build may activate.         *)
(***************************************************************************)
EXTENDS Mailbox, FiniteSets

CONSTANTS
    Thread,        \* 0 .. MAX_THREADS - 1
    Tables,        \* sets of threads that may be the active ones
    KernelThread,  \* the thread without a user stack: the shell
    Priority,      \* threads[t].priority: 0 is the highest
    Period,        \* threads[t].period, in ticks
    Signals,       \* signal numbers in use, 0 is none
    Handlers,      \* routines a thread may register for a signal
    Calls,         \* for each table, the system calls its programs make,
    Targets,       \* and the threads they send messages and signals to
    MaxSleep,      \* bound: longest sleep asked for
    MaxElapsed     \* bound: ticks that may pass between two readings

MaxThreads == Cardinality(Thread)
Main       == "main"          \* user_entry as the table sets it
None       == "none"          \* 0 for an address
Routine    == {Main} \cup Handlers
Level      == {Priority[t] : t \in Thread}
CallNames  == {"sleep", "yield", "send", "receive", "signal", "kill", "return"}

ASSUME ThreadAssumption ==
    /\ IsFiniteSet(Thread)
    /\ Thread = 0 .. MaxThreads - 1 /\ MaxThreads \in Nat \ {0}
    /\ Senders = Thread
    /\ KernelThread \in Thread
    /\ Tables \subseteq SUBSET Thread /\ {} \notin Tables
    /\ Priority \in [Thread -> Nat]
    /\ Period \in [Thread -> Nat \ {0}]

ASSUME ProgramAssumption ==
    /\ Signals \subseteq Nat \ {0}
    /\ Handlers \cap {Main, None} = {}
    /\ Calls \in [Tables -> SUBSET CallNames] /\ Targets \in [Tables -> SUBSET Thread]
    /\ MaxSleep \in Nat /\ MaxElapsed \in Nat \ {0}

\* A program counter: the routine it is in, and whether that has begun.
PC         == [in : Routine, begun : BOOLEAN]
NoPC       == [in |-> None, begun |-> FALSE]
StartOf(r) == [in |-> r, begun |-> FALSE]
Inside(r)  == [in |-> r, begun |-> TRUE]

-----------------------------------------------------------------------------
VARIABLES
    active,      \* the threads that are active
    mode,        \* "user": current runs in EL0; "sched": schedule_from_el0 is next
    current,
    last,        \* last_scheduled
    state,
    deadline,    \* deadline - system_ticks, 0 when it has passed
    sleepLeft,   \* sleep_until - system_ticks, 0 when it has passed
    mailbox,
    out,         \* the message the last receive copied out
    pending,     \* pending_signal
    handler,     \* signal_handlers
    entry,       \* user_entry
    saved,       \* saved_pc
    elr          \* user_ctx.elr_el1

sched   == <<current, last, state, deadline, sleepLeft>>
ipc     == <<mailbox, out>>
signals == <<pending, handler, entry, saved>>
vars    == <<active, mode, sched, ipc, signals, elr>>

SchedOK ==
    /\ current \in Thread
    /\ last \in [Level -> Thread \cup {-1}]
    /\ state \in [Thread -> {"runnable", "sleeping", "blocked"}]
    /\ deadline \in [Thread -> Nat] /\ \A t \in Thread : deadline[t] <= Period[t]
    /\ sleepLeft \in [Thread -> 0 .. MaxSleep]

IpcOK ==
    /\ mailbox \in [Thread -> Mailboxes]
    /\ out \in [Thread -> Message]

SignalsOK ==
    /\ pending \in [Thread -> Signals \cup {0}]
    /\ handler \in [Thread -> [Signals -> Handlers \cup {None}]]
    /\ entry \in [Thread -> Routine]
    /\ saved \in [Thread -> Routine \cup {None}]

TypeOK ==
    /\ active \in Tables
    /\ mode \in {"user", "sched"}
    /\ SchedOK /\ IpcOK /\ SignalsOK
    /\ elr \in [Thread -> PC \cup {NoPC}]

Init ==
    /\ active \in Tables
    /\ mode = "sched" /\ current = 0
    /\ last = [p \in Level |-> -1]
    /\ state = [t \in Thread |-> "runnable"]
    /\ deadline = Period
    /\ sleepLeft = [t \in Thread |-> 0]
    /\ mailbox = [t \in Thread |-> EmptyMailbox(0)]
    /\ out = [t \in Thread |-> EmptyMailbox(0).messages[0]]
    /\ pending = [t \in Thread |-> 0]
    /\ handler = [t \in Thread |-> [s \in Signals |-> None]]
    /\ entry = [t \in Thread |-> Main]
    /\ saved = [t \in Thread |-> None]
    /\ elr = [t \in Thread |-> NoPC]

-----------------------------------------------------------------------------
(* schedule. *)

\* n ticks pass: timer_update_ticks.
Later(left, n) == [t \in Thread |-> IF left[t] > n THEN left[t] - n ELSE 0]

\* update_deadlines.
Renewed(d) == [t \in Thread |-> IF t \in active /\ d[t] = 0 THEN Period[t] ELSE d[t]]

\* Mutant of Woken: a sleeper whose time has come is left asleep.
WokenNever(st, left) == st
Woken(st, left) ==
    [t \in Thread |-> IF st[t] = "sleeping" /\ left[t] = 0 THEN "runnable" ELSE st[t]]

Runnable(st) == {t \in active : st[t] = "runnable"}
Top(st)      == {t \in Runnable(st) : \A u \in Runnable(st) : Priority[t] <= Priority[u]}

\* Mutant of Turn: the scan starts at thread 0 every time.
TurnFixed(t) == t
\* How far the scan of t's level goes before it looks at t.
Turn(t) == (t - last[Priority[t]] - 1) % MaxThreads

\* Mutant of Chosen: a lower level is looked at first.
ChosenAnywhere(st, d) == {t \in Runnable(st) : \A u \in Runnable(st) : d[t] <= d[u]}
\* The thread the scan ends with: the first one of the earliest deadline.
Chosen(st, d) ==
    {t \in Top(st) : \A u \in Top(st) : /\ d[t] <= d[u]
                                        /\ d[t] = d[u] => Turn(t) <= Turn(u)}

\* schedule, with the threads in states st, and left and d ticks to go.  When no
\* thread is runnable, current stays as it is.
Schedule(st, left, d) ==
    LET woken   == Woken(st, left)
        renewed == Renewed(d)
    IN  /\ state' = woken /\ sleepLeft' = left /\ deadline' = renewed
        /\ \/ \E t \in Chosen(woken, renewed) :
                /\ current' = t
                /\ last' = [last EXCEPT ![Priority[t]] = t]
           \/ Chosen(woken, renewed) = {} /\ UNCHANGED <<current, last>>

-----------------------------------------------------------------------------
(* System calls of the current thread.  n ticks have passed when it starts. *)

\* The exception path saves where the program goes on.  What a call returns to
\* the program is left out: a program may do anything next.
Enter(call) ==
    /\ mode = "user" /\ mode' = "sched"
    /\ call \in Calls[active]
    /\ current # KernelThread
    /\ elr' = [elr EXCEPT ![current] = Inside(@.in)]
    /\ UNCHANGED active

Time(n)    == sleepLeft' = Later(sleepLeft, n) /\ deadline' = Later(deadline, n)

Sleep(k, n) ==
    /\ Enter("sleep")
    /\ deadline' = Later(deadline, n)
    /\ sleepLeft' = [Later(sleepLeft, n) EXCEPT ![current] = k]
    /\ state' = [state EXCEPT ![current] = "sleeping"]
    /\ UNCHANGED <<current, last, ipc, signals>>

\* yield, and every call that changes nothing the kernel keeps: to read or write
\* a byte or the ticks, or one with an argument the kernel refuses.
Yield(n) ==
    /\ Enter("yield") /\ Time(n)
    /\ UNCHANGED <<current, last, state, ipc, signals>>

\* Mutant of Awake: a thread that waits for a message is not woken.
AwakeNever(to) == state
\* Only a thread that is blocked is woken by a message.
Awake(to) == IF state[to] = "blocked" THEN [state EXCEPT ![to] = "runnable"] ELSE state

Send(to, text, n) ==
    /\ Enter("send") /\ Time(n)
    /\ \/ Full(mailbox[to]) /\ UNCHANGED <<mailbox, state>>
       \/ /\ ~Full(mailbox[to])
          /\ mailbox' = [mailbox EXCEPT ![to] = Put(@, current, text)]
          /\ state' = Awake(to)
    /\ UNCHANGED <<current, last, out, signals>>

\* On an empty mailbox the thread is blocked and the scheduler runs at once, so
\* that current may be another thread when schedule_from_el0 runs it again.
Receive(n) ==
    /\ Enter("receive")
    /\ \/ /\ ~Empty(mailbox[current])
          /\ out' = [out EXCEPT ![current] = Oldest(mailbox[current])]
          /\ mailbox' = [mailbox EXCEPT ![current] = Taken(@)]
          /\ Time(n)
          /\ UNCHANGED <<current, last, state>>
       \/ /\ Empty(mailbox[current])
          /\ Schedule([state EXCEPT ![current] = "blocked"],
                      Later(sleepLeft, n), Later(deadline, n))
          /\ UNCHANGED ipc
    /\ UNCHANGED signals

Signal(s, h, n) ==
    /\ Enter("signal") /\ Time(n)
    /\ handler' = [handler EXCEPT ![current][s] = h]
    /\ UNCHANGED <<current, last, state, ipc, pending, entry, saved>>

\* A signal that is pending already is forgotten; signal 0 only does that.
Kill(t, s, n) ==
    /\ Enter("kill") /\ Time(n)
    /\ pending' = [pending EXCEPT ![t] = s]
    /\ UNCHANGED <<current, last, state, ipc, handler, entry, saved>>

\* sys_return_from_signal, which a handler ends with.
SigReturn(n) ==
    /\ mode = "user" /\ mode' = "sched" /\ "return" \in Calls[active]
    /\ elr[current].in \in Handlers
    /\ entry' = [entry EXCEPT ![current] = saved[current]]
    /\ elr' = [elr EXCEPT ![current] = StartOf(saved[current])]
    /\ Time(n)
    /\ UNCHANGED <<active, current, last, state, ipc, pending, handler, saved>>

\* The kernel shell reads the timer in its loop and never returns.
Shell(n) ==
    /\ mode = "user" /\ current = KernelThread
    /\ Time(n)
    /\ UNCHANGED <<active, mode, current, last, state, ipc, signals, elr>>

-----------------------------------------------------------------------------
(* schedule_from_el0: a thread is chosen, its signal delivered, and it runs. *)

\* Mutant of Delivered: the routine that was running is not saved.
DeliveredUnsaved(t) ==
    /\ entry' = [entry EXCEPT ![t] = handler[t][pending[t]]]
    /\ pending' = [pending EXCEPT ![t] = 0]
    /\ UNCHANGED saved
Delivered(t) ==
    /\ saved' = [saved EXCEPT ![t] = entry[t]]
    /\ entry' = [entry EXCEPT ![t] = handler[t][pending[t]]]
    /\ pending' = [pending EXCEPT ![t] = 0]

Due(t) == pending[t] # 0 /\ handler[t][pending[t]] # None

Dispatch(n) ==
    /\ mode = "sched" /\ mode' = "user"
    /\ Schedule(state, Later(sleepLeft, n), Later(deadline, n))
    /\ LET t == current'
       IN  \/ /\ Due(t)
              /\ Delivered(t)
              /\ elr' = [elr EXCEPT ![t] = StartOf(handler[t][pending[t]])]
           \/ /\ ~Due(t)
              /\ elr' = [elr EXCEPT ![t] = IF t # KernelThread /\ @ = NoPC
                                           THEN StartOf(entry[t]) ELSE @]
              /\ UNCHANGED <<pending, entry, saved>>
    /\ UNCHANGED <<active, ipc, handler>>

-----------------------------------------------------------------------------
Elapsed == 0 .. MaxElapsed

Call(n) ==
    \/ \E k \in 0 .. MaxSleep : Sleep(k, n)
    \/ Yield(n)
    \/ \E to \in Targets[active], text \in Texts : Send(to, text, n)
    \/ Receive(n)
    \/ \E s \in Signals, h \in Handlers \cup {None} : Signal(s, h, n)
    \/ \E t \in Targets[active], s \in Signals \cup {0} : Kill(t, s, n)
    \/ SigReturn(n)

Next == \E n \in Elapsed : Call(n) \/ Shell(n) \/ Dispatch(n)

Spec == Init /\ [][Next]_vars

\* Programs go on, and time does: the clock moves at some dispatch again and
\* again.
FairSpec == Spec /\ WF_vars(Next) /\ SF_vars(\E n \in Elapsed \ {0} : Dispatch(n))

=============================================================================
