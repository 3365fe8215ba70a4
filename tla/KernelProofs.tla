--------------------------- MODULE KernelProofs ---------------------------
(***************************************************************************)
(* Proofs about the threads of module Kernel, for any number of threads,   *)
(* any priorities, periods, mailbox sizes and programs.  The first part    *)
(* shows that the variables keep their types and that a handler can        *)
(* return; the two need each other, for sys_return_from_signal goes to     *)
(* whatever is in saved_pc.  The second is about the scheduler, the third  *)
(* about the rings of messages.                                            *)
(***************************************************************************)
EXTENDS KernelProps, WellFoundedInduction, TLAPS

-----------------------------------------------------------------------------
(* Mailboxes.                                                               *)

LEMMA EmptyMailboxType ==
  ASSUME NEW f \in Senders
  PROVE  EmptyMailbox(f) \in Mailboxes /\ EmptyMailbox(f).messages[0] \in Message
BY MailboxAssumption DEF EmptyMailbox, Mailboxes, Message, Slot, Byte

LEMMA WrittenType ==
  ASSUME NEW old \in [Byte -> Chars \cup {NUL}], NEW text \in Texts
  PROVE  Written(old, text) \in [Byte -> Chars \cup {NUL}]
BY MailboxAssumption DEF Written

LEMMA Next1Type ==
  ASSUME NEW i \in Slot
  PROVE  Next1(i) \in Slot
BY MailboxAssumption DEF Next1, Slot

\* A message fits in a mailbox that is not full.
LEMMA PutType ==
  ASSUME NEW b \in Mailboxes, ~Full(b), NEW f \in Senders, NEW text \in Texts
  PROVE  Put(b, f, text) \in Mailboxes
<1> DEFINE old == b.messages[b.tail]
           new == [from |-> f, data |-> Written(old.data, text)]
<1>1. old \in Message /\ b.tail \in Slot
  BY DEF Mailboxes
<1>2. new \in Message
  <2>1. Written(old.data, text) \in [Byte -> Chars \cup {NUL}]
    BY <1>1, WrittenType DEF Message
  <2> QED BY <2>1 DEF Message
<1>3. Put(b, f, text) = [messages |-> [b.messages EXCEPT ![b.tail] = new],
                         head |-> b.head, tail |-> Next1(b.tail), count |-> b.count + 1]
  <2>1. Put(b, f, text) = [b EXCEPT !.messages = [@ EXCEPT ![b.tail] = new],
                                    !.tail = Next1(b.tail), !.count = b.count + 1]
    BY <1>1 DEF Put
  <2> HIDE DEF new
  <2> QED BY <1>1, <2>1 DEF Mailboxes
<1>4. [b.messages EXCEPT ![b.tail] = new] \in [Slot -> Message]
  BY <1>1, <1>2 DEF Mailboxes
<1>5. b.count + 1 \in 0 .. Size
  BY MailboxAssumption DEF Full, Mailboxes
<1>6. Next1(b.tail) \in Slot
  BY <1>1, Next1Type
<1> HIDE DEF new
<1> QED BY <1>3, <1>4, <1>5, <1>6 DEF Mailboxes

LEMMA TakenType ==
  ASSUME NEW b \in Mailboxes, ~Empty(b)
  PROVE  Taken(b) \in Mailboxes /\ Oldest(b) \in Message
<1>1. b.head \in Slot /\ Next1(b.head) \in Slot
  BY Next1Type DEF Mailboxes
<1>2. b.count - 1 \in 0 .. Size
  BY MailboxAssumption DEF Empty, Mailboxes
<1> QED BY <1>1, <1>2 DEF Taken, Oldest, Mailboxes

-----------------------------------------------------------------------------
(* The scheduler.                                                           *)

\* Time passes: what is left gets no longer.
LEMMA LaterShrinks ==
  ASSUME NEW left \in [Thread -> Nat], NEW n \in Nat
  PROVE  /\ Later(left, n) \in [Thread -> Nat]
         /\ \A t \in Thread : Later(left, n)[t] <= left[t]
BY DEF Later

LEMMA LaterType ==
  ASSUME TypeOK, NEW n \in Elapsed
  PROVE  /\ Later(sleepLeft, n) \in [Thread -> 0 .. MaxSleep]
         /\ Later(deadline, n) \in [Thread -> Nat]
         /\ \A t \in Thread : Later(deadline, n)[t] <= Period[t]
<1>1. n \in Nat
  BY DEF Elapsed
<1>2. /\ sleepLeft \in [Thread -> 0 .. MaxSleep] /\ sleepLeft \in [Thread -> Nat]
      /\ deadline \in [Thread -> Nat] /\ \A t \in Thread : deadline[t] <= Period[t]
  BY DEF TypeOK, SchedOK
<1>3. \A t \in Thread : Later(sleepLeft, n)[t] \in 0 .. MaxSleep
  BY <1>1, <1>2, LaterShrinks, ProgramAssumption
<1>4. \A t \in Thread : Later(deadline, n)[t] <= Period[t]
  <2>1. /\ Later(deadline, n) \in [Thread -> Nat]
        /\ \A t \in Thread : Later(deadline, n)[t] <= deadline[t]
    BY <1>1, <1>2, LaterShrinks
  <2>2. \A t \in Thread : Period[t] \in Nat
    BY ThreadAssumption
  <2> QED BY <1>2, <2>1, <2>2
<1>5. Later(sleepLeft, n) \in [Thread -> 0 .. MaxSleep]
  BY <1>3 DEF Later
<1> QED BY <1>1, <1>2, <1>4, <1>5, LaterShrinks

LEMMA ActiveType ==
  ASSUME TypeOK
  PROVE  active \subseteq Thread
BY ThreadAssumption DEF TypeOK

\* The scheduler keeps the types of what it changes.
LEMMA ScheduleType ==
  ASSUME TypeOK,
         NEW st \in [Thread -> {"runnable", "sleeping", "blocked"}],
         NEW left \in [Thread -> 0 .. MaxSleep],
         NEW d \in [Thread -> Nat], \A t \in Thread : d[t] <= Period[t],
         Schedule(st, left, d)
  PROVE  SchedOK'
<1>1. /\ Woken(st, left) \in [Thread -> {"runnable", "sleeping", "blocked"}]
      /\ state' = Woken(st, left)
  BY DEF Woken, Schedule
<1>2. sleepLeft' \in [Thread -> 0 .. MaxSleep]
  BY DEF Schedule
<1>3. Renewed(d) \in [Thread -> Nat] /\ \A t \in Thread : Renewed(d)[t] <= Period[t]
  BY ThreadAssumption DEF Renewed
<1>4. deadline' = Renewed(d)
  BY DEF Schedule
<1>5. current' \in Thread /\ last' \in [Level -> Thread \cup {-1}]
  <2>1. CASE UNCHANGED <<current, last>>
    BY <2>1 DEF TypeOK, SchedOK
  <2>2. CASE ~UNCHANGED <<current, last>>
    <3>1. PICK t \in Chosen(Woken(st, left), Renewed(d)) :
            current' = t /\ last' = [last EXCEPT ![Priority[t]] = t]
      BY <2>2 DEF Schedule
    <3>2. t \in Thread
      BY <3>1, ActiveType DEF Chosen, Top, Runnable
    <3> QED BY <3>1, <3>2 DEF TypeOK, SchedOK
  <2> QED BY <2>1, <2>2
<1> QED BY <1>1, <1>2, <1>3, <1>4, <1>5 DEF SchedOK

-----------------------------------------------------------------------------
(* Types and signals.                                                       *)

\* Whoever is, or is to be, in a handler has a routine to go back to; whoever
\* runs in user mode has a program counter.
SignalInv ==
    /\ \A t \in Thread : entry[t] \in Handlers => saved[t] \in Routine
    /\ HandlerCanReturn
    /\ mode = "user" /\ current # KernelThread => elr[current] # NoPC

TypeInv == TypeOK /\ SignalInv

LEMMA NamesDiffer == None \notin Routine /\ Main \notin Handlers /\ None \notin Handlers
BY ProgramAssumption DEF None, Main, Routine

LEMMA InitTypeInv == Init => TypeInv
<1> SUFFICES ASSUME Init PROVE TypeInv
  OBVIOUS
<1>1. 0 \in Thread /\ 0 \in Senders
  BY ThreadAssumption
<1>2. SchedOK
  BY <1>1, ThreadAssumption, ProgramAssumption DEF Init, SchedOK, Level
<1>3. IpcOK
  BY <1>1, EmptyMailboxType DEF Init, IpcOK
<1>4. SignalsOK
  BY DEF Init, SignalsOK, Routine
<1>5. elr \in [Thread -> PC \cup {NoPC}] /\ active \in Tables /\ mode = "sched"
  BY DEF Init
<1>6. \A t \in Thread : entry[t] \notin Handlers /\ elr[t].in \notin Handlers
  BY NamesDiffer DEF Init, NoPC
<1> QED BY <1>2, <1>3, <1>4, <1>5, <1>6 DEF TypeInv, TypeOK, SignalInv, HandlerCanReturn

\* A call leaves the caller inside its routine.
LEMMA EnterType ==
  ASSUME TypeInv, NEW c, Enter(c)
  PROVE  /\ active' \in Tables /\ mode' = "sched"
         /\ elr' \in [Thread -> PC \cup {NoPC}]
         /\ \A t \in Thread : elr'[t].in = elr[t].in
<1>1. /\ current \in Thread /\ elr \in [Thread -> PC \cup {NoPC}]
      /\ elr[current] \in PC
  BY DEF TypeInv, TypeOK, SchedOK, SignalInv, Enter
<1>2. elr[current].in \in Routine
  BY <1>1 DEF PC
<1>3. Inside(elr[current].in) \in PC /\ Inside(elr[current].in).in = elr[current].in
  BY <1>2 DEF PC, Inside
<1>4. elr' = [elr EXCEPT ![current] = Inside(elr[current].in)]
  BY DEF Enter
<1>5. elr' \in [Thread -> PC \cup {NoPC}] /\ \A t \in Thread : elr'[t].in = elr[t].in
  BY <1>1, <1>3, <1>4
<1> QED BY <1>5 DEF Enter, TypeInv, TypeOK

\* What a call other than signal, kill and the return from a handler keeps.
LEMMA CallKeeps ==
  ASSUME TypeInv, NEW c, Enter(c), SchedOK', IpcOK', UNCHANGED signals
  PROVE  TypeInv'
<1>1. SignalsOK'
  BY DEF TypeInv, TypeOK, SignalsOK, signals
<1>2. \A t \in Thread : entry'[t] \in Handlers \/ elr'[t].in \in Handlers => saved'[t] \in Routine
  BY EnterType DEF TypeInv, SignalInv, HandlerCanReturn, signals
<1>3. SignalInv'
  BY <1>2, EnterType DEF SignalInv, HandlerCanReturn
<1> QED BY <1>1, <1>3, EnterType DEF TypeInv, TypeOK

LEMMA TimeType ==
  ASSUME TypeOK, NEW n \in Elapsed, Time(n), UNCHANGED <<current, last>>,
         state' \in [Thread -> {"runnable", "sleeping", "blocked"}]
  PROVE  SchedOK'
BY LaterType DEF TypeOK, SchedOK, Time

LEMMA SleepStep ==
  ASSUME TypeInv, NEW k \in 0 .. MaxSleep, NEW n \in Elapsed, Sleep(k, n)
  PROVE  TypeInv'
<1>1. TypeOK /\ Enter("sleep") /\ UNCHANGED signals
  BY DEF TypeInv, Sleep
<1>2. SchedOK'
  <2>1. sleepLeft' \in [Thread -> 0 .. MaxSleep]
    BY <1>1, LaterType DEF Sleep
  <2>2. state' \in [Thread -> {"runnable", "sleeping", "blocked"}]
    BY <1>1 DEF Sleep, TypeOK, SchedOK
  <2> QED BY <1>1, <2>1, <2>2, LaterType DEF Sleep, TypeOK, SchedOK
<1>3. IpcOK'
  BY <1>1 DEF Sleep, ipc, TypeOK, IpcOK
<1> QED BY <1>1, <1>2, <1>3, CallKeeps

LEMMA YieldStep ==
  ASSUME TypeInv, NEW n \in Elapsed, Yield(n)
  PROVE  TypeInv'
<1>1. TypeOK /\ Enter("yield") /\ UNCHANGED signals
  BY DEF TypeInv, Yield
<1>2. SchedOK'
  BY <1>1, TimeType DEF Yield, TypeOK, SchedOK
<1>3. IpcOK'
  BY <1>1 DEF Yield, ipc, TypeOK, IpcOK
<1> QED BY <1>1, <1>2, <1>3, CallKeeps

LEMMA TargetsAreThreads == TypeInv => Targets[active] \subseteq Thread
BY ProgramAssumption DEF TypeInv, TypeOK

LEMMA SendStep ==
  ASSUME TypeInv, NEW to \in Thread, NEW text \in Texts, NEW n \in Elapsed,
         Send(to, text, n)
  PROVE  TypeInv'
<1>1. TypeOK /\ Enter("send") /\ UNCHANGED signals /\ to \in Thread /\ current \in Senders
  BY ProgramAssumption, ThreadAssumption DEF TypeInv, TypeOK, SchedOK, Send
<1>2. state' \in [Thread -> {"runnable", "sleeping", "blocked"}]
  BY <1>1 DEF Send, Awake, TypeOK, SchedOK
<1>3. SchedOK'
  BY <1>1, <1>2, TimeType DEF Send
<1>4. IpcOK'
  <2>1. mailbox[to] \in Mailboxes
    BY <1>1 DEF TypeOK, IpcOK
  <2>2. ~Full(mailbox[to]) => Put(mailbox[to], current, text) \in Mailboxes
    BY <1>1, <2>1, PutType
  <2> QED BY <1>1, <2>2 DEF Send, TypeOK, IpcOK
<1> QED BY <1>1, <1>3, <1>4, CallKeeps

LEMMA ReceiveStep ==
  ASSUME TypeInv, NEW n \in Elapsed, Receive(n)
  PROVE  TypeInv'
<1>1. TypeOK /\ Enter("receive") /\ UNCHANGED signals /\ current \in Thread
  BY DEF TypeInv, TypeOK, SchedOK, Receive
<1>2. CASE ~Empty(mailbox[current])
  <2>1. mailbox[current] \in Mailboxes
    BY <1>1 DEF TypeOK, IpcOK
  <2>2. Taken(mailbox[current]) \in Mailboxes /\ Oldest(mailbox[current]) \in Message
    BY <1>2, <2>1, TakenType
  <2>3. IpcOK'
    BY <1>1, <1>2, <2>2 DEF Receive, TypeOK, IpcOK
  <2>4. SchedOK'
    BY <1>1, <1>2, TimeType DEF Receive, TypeOK, SchedOK
  <2> QED BY <1>1, <2>3, <2>4, CallKeeps
<1>3. CASE Empty(mailbox[current])
  <2>1. Schedule([state EXCEPT ![current] = "blocked"],
                 Later(sleepLeft, n), Later(deadline, n)) /\ UNCHANGED ipc
    BY <1>3 DEF Receive
  <2>2. [state EXCEPT ![current] = "blocked"] \in [Thread -> {"runnable", "sleeping", "blocked"}]
    BY <1>1 DEF TypeOK, SchedOK
  <2>3. SchedOK'
    BY <1>1, <2>1, <2>2, LaterType, ScheduleType
  <2>4. IpcOK'
    BY <1>1, <2>1 DEF ipc, TypeOK, IpcOK
  <2> QED BY <1>1, <2>3, <2>4, CallKeeps
<1> QED BY <1>2, <1>3

LEMMA SignalStep ==
  ASSUME TypeInv, NEW s \in Signals, NEW h \in Handlers \cup {None}, NEW n \in Elapsed,
         Signal(s, h, n)
  PROVE  TypeInv'
<1>1. TypeOK /\ Enter("signal") /\ UNCHANGED <<ipc, pending, entry, saved>>
  BY DEF TypeInv, Signal
<1>2. SchedOK'
  BY <1>1, TimeType DEF Signal, TypeOK, SchedOK
<1>3. IpcOK'
  BY <1>1 DEF ipc, TypeOK, IpcOK
<1>4. SignalsOK'
  BY <1>1 DEF Signal, TypeOK, SchedOK, SignalsOK
<1>5. SignalInv'
  BY <1>1, EnterType DEF TypeInv, SignalInv, HandlerCanReturn
<1> QED BY <1>1, <1>2, <1>3, <1>4, <1>5, EnterType DEF TypeInv, TypeOK

LEMMA KillStep ==
  ASSUME TypeInv, NEW t \in Thread, NEW s \in Signals \cup {0}, NEW n \in Elapsed,
         Kill(t, s, n)
  PROVE  TypeInv'
<1>1. TypeOK /\ Enter("kill") /\ UNCHANGED <<ipc, handler, entry, saved>>
  BY DEF TypeInv, Kill
<1>2. SchedOK'
  BY <1>1, TimeType DEF Kill, TypeOK, SchedOK
<1>3. IpcOK'
  BY <1>1 DEF ipc, TypeOK, IpcOK
<1>4. SignalsOK'
  BY <1>1 DEF Kill, TypeOK, SignalsOK
<1>5. SignalInv'
  BY <1>1, EnterType DEF TypeInv, SignalInv, HandlerCanReturn
<1> QED BY <1>1, <1>2, <1>3, <1>4, <1>5, EnterType DEF TypeInv, TypeOK

\* The routine a handler goes back to may be the handler itself.
LEMMA SigReturnStep ==
  ASSUME TypeInv, NEW n \in Elapsed, SigReturn(n)
  PROVE  TypeInv'
<1>1. TypeOK /\ current \in Thread /\ mode' = "sched"
      /\ UNCHANGED <<active, current, last, state, ipc, pending, handler, saved>>
  BY DEF TypeInv, TypeOK, SchedOK, SigReturn
<1>2. saved[current] \in Routine
  BY <1>1 DEF TypeInv, SignalInv, HandlerCanReturn, SigReturn
<1>3. SchedOK'
  BY <1>1, TimeType DEF SigReturn, TypeOK, SchedOK
<1>4. IpcOK'
  BY <1>1 DEF ipc, TypeOK, IpcOK
<1>5. SignalsOK'
  BY <1>1, <1>2 DEF SigReturn, TypeOK, SignalsOK
<1>6. StartOf(saved[current]) \in PC
  BY <1>2 DEF StartOf, PC
<1>7. elr' \in [Thread -> PC \cup {NoPC}]
  BY <1>1, <1>6 DEF SigReturn, TypeOK
<1>8. \A t \in Thread : \/ t = current /\ saved'[t] \in Routine
                        \/ elr'[t] = elr[t] /\ entry'[t] = entry[t]
  BY <1>1, <1>2 DEF SigReturn, TypeOK, SignalsOK
<1>9. SignalInv'
  BY <1>1, <1>8 DEF TypeInv, SignalInv, HandlerCanReturn
<1> QED BY <1>1, <1>3, <1>4, <1>5, <1>7, <1>9 DEF TypeInv, TypeOK

LEMMA ShellStep ==
  ASSUME TypeInv, NEW n \in Elapsed, Shell(n)
  PROVE  TypeInv'
<1>1. TypeOK /\ UNCHANGED <<active, mode, current, last, state, ipc, signals, elr>>
  BY DEF TypeInv, Shell
<1>2. SchedOK'
  BY <1>1, TimeType DEF Shell, TypeOK, SchedOK
<1>3. IpcOK' /\ SignalsOK'
  BY <1>1 DEF ipc, signals, TypeOK, IpcOK, SignalsOK
<1>4. SignalInv'
  BY <1>1 DEF signals, TypeInv, SignalInv, HandlerCanReturn
<1> QED BY <1>1, <1>2, <1>3, <1>4 DEF TypeInv, TypeOK

LEMMA DispatchSchedules ==
  ASSUME TypeOK, NEW n \in Elapsed, Dispatch(n)
  PROVE  SchedOK'
<1>1. state \in [Thread -> {"runnable", "sleeping", "blocked"}]
  BY DEF TypeOK, SchedOK
<1> QED BY <1>1, LaterType, ScheduleType DEF Dispatch

LEMMA DueType ==
  ASSUME TypeOK, NEW t \in Thread, Due(t)
  PROVE  handler[t][pending[t]] \in Handlers /\ pending[t] # 0
BY DEF Due, TypeOK, SignalsOK

LEMMA DispatchStep ==
  ASSUME TypeInv, NEW n \in Elapsed, Dispatch(n)
  PROVE  TypeInv'
<1> DEFINE t == current'
<1>1. TypeOK /\ SchedOK' /\ t \in Thread /\ mode' = "user"
      /\ UNCHANGED <<active, ipc, handler>>
  BY DispatchSchedules DEF TypeInv, SchedOK, Dispatch
<1>2. IpcOK'
  BY <1>1 DEF ipc, TypeOK, IpcOK
<1>3. CASE Due(t)
  <2> DEFINE h == handler[t][pending[t]]
  <2>1. h \in Handlers /\ h \in Routine /\ entry[t] \in Routine
    BY <1>1, <1>3, DueType DEF Routine, TypeOK, SignalsOK
  <2>2. /\ saved' = [saved EXCEPT ![t] = entry[t]]
        /\ entry' = [entry EXCEPT ![t] = h]
        /\ pending' = [pending EXCEPT ![t] = 0]
        /\ elr' = [elr EXCEPT ![t] = StartOf(h)]
    BY <1>3 DEF Dispatch, Delivered
  <2> HIDE DEF h, t
  <2>3. SignalsOK'
    BY <1>1, <2>1, <2>2 DEF TypeOK, SignalsOK
  <2>4. StartOf(h) \in PC /\ StartOf(h) # NoPC
    BY <2>1, NamesDiffer DEF StartOf, PC, NoPC
  <2>5. elr' \in [Thread -> PC \cup {NoPC}] /\ elr'[t] # NoPC
    BY <1>1, <2>2, <2>4 DEF TypeOK
  <2>6. \A u \in Thread : \/ saved'[u] \in Routine
                          \/ elr'[u] = elr[u] /\ entry'[u] = entry[u] /\ saved'[u] = saved[u]
    BY <1>1, <2>1, <2>2 DEF TypeOK, SignalsOK
  <2>7. SignalInv'
    <3>1. current' = t
      BY DEF t
    <3> QED BY <2>5, <2>6, <3>1 DEF TypeInv, SignalInv, HandlerCanReturn
  <2> QED BY <1>1, <1>2, <2>3, <2>5, <2>7 DEF TypeInv, TypeOK
<1>4. CASE ~Due(t)
  <2>1. /\ UNCHANGED <<pending, entry, saved>>
        /\ elr' = [elr EXCEPT ![t] = IF t # KernelThread /\ @ = NoPC
                                     THEN StartOf(entry[t]) ELSE @]
    BY <1>4 DEF Dispatch
  <2> HIDE DEF t
  <2>2. SignalsOK' /\ entry[t] \in Routine
    BY <1>1, <2>1 DEF TypeOK, SignalsOK
  <2>3. StartOf(entry[t]) \in PC /\ StartOf(entry[t]) # NoPC
        /\ StartOf(entry[t]).in = entry[t]
    BY <2>2, NamesDiffer DEF StartOf, PC, NoPC
  <2>4. elr' \in [Thread -> PC \cup {NoPC}] /\ (t # KernelThread => elr'[t] # NoPC)
    BY <1>1, <2>1, <2>3 DEF TypeOK
  <2>5. \A u \in Thread : elr'[u].in = elr[u].in \/ elr'[u].in = entry[u]
    BY <1>1, <2>1, <2>3 DEF TypeOK
  <2>6. SignalInv'
    <3>1. current' = t
      BY DEF t
    <3> QED BY <2>1, <2>4, <2>5, <3>1 DEF TypeInv, SignalInv, HandlerCanReturn
  <2> QED BY <1>1, <1>2, <2>2, <2>4, <2>6 DEF TypeInv, TypeOK
<1> QED BY <1>3, <1>4

LEMMA NextTypeInv == TypeInv /\ [Next]_vars => TypeInv'
<1> SUFFICES ASSUME TypeInv, [Next]_vars PROVE TypeInv'
  OBVIOUS
<1>1. CASE UNCHANGED vars
  BY <1>1 DEF vars, sched, ipc, signals, TypeInv, TypeOK, SchedOK, IpcOK, SignalsOK,
              SignalInv, HandlerCanReturn
<1>2. CASE Next
  <2>1. PICK n \in Elapsed : Call(n) \/ Shell(n) \/ Dispatch(n)
    BY <1>2 DEF Next
  <2>2. CASE Call(n)
    BY <2>2, TargetsAreThreads, SleepStep, YieldStep, SendStep, ReceiveStep, SignalStep, KillStep, SigReturnStep
       DEF Call
  <2> QED BY <2>1, <2>2, ShellStep, DispatchStep
<1> QED BY <1>1, <1>2

\* Every variable of the kernel keeps its type, the rings of messages among
\* them: head and tail stay in the ring and count within MAILBOX_SIZE.
THEOREM TypeCorrect == Spec => []TypeOK
<1>1. TypeInv => TypeOK
  BY DEF TypeInv
<1> QED BY <1>1, InitTypeInv, NextTypeInv, PTL DEF Spec

\* sys_return_from_signal never jumps to address 0: a thread that is in a
\* handler has a saved_pc, however its handlers interrupt each other.
THEOREM HandlersCanReturn == Spec => []HandlerCanReturn
<1>1. TypeInv => HandlerCanReturn
  BY DEF TypeInv, SignalInv
<1> QED BY <1>1, InitTypeInv, NextTypeInv, PTL DEF Spec

-----------------------------------------------------------------------------
(* Waking and choosing.                                                     *)

WakeInv == \A t \in Thread : state[t] = "blocked" => Empty(mailbox[t])

\* The scheduler blocks nobody.
LEMMA ScheduleBlocksNone ==
  ASSUME NEW st, NEW left, NEW d, Schedule(st, left, d), NEW t \in Thread,
         state'[t] = "blocked"
  PROVE  st[t] = "blocked"
BY DEF Schedule, Woken

LEMMA NextWakeInv == TypeInv /\ WakeInv /\ [Next]_vars => WakeInv'
<1> SUFFICES ASSUME TypeInv, WakeInv, [Next]_vars,
                    NEW t \in Thread, state'[t] = "blocked"
             PROVE  Empty(mailbox'[t])
  BY DEF WakeInv
<1>0. /\ state \in [Thread -> {"runnable", "sleeping", "blocked"}]
      /\ mailbox \in [Thread -> Mailboxes] /\ current \in Thread
  BY DEF TypeInv, TypeOK, SchedOK, IpcOK
<1>1. CASE state' = state /\ mailbox' = mailbox
  BY <1>1 DEF WakeInv
<1>2. ASSUME NEW k \in 0 .. MaxSleep, NEW n \in Elapsed, Sleep(k, n) PROVE Empty(mailbox'[t])
  BY <1>0, <1>2 DEF Sleep, ipc, WakeInv
<1>3. ASSUME NEW to \in Thread, NEW text \in Texts, NEW n \in Elapsed, Send(to, text, n)
      PROVE  Empty(mailbox'[t])
  <2>1. CASE UNCHANGED <<mailbox, state>>
    BY <1>1, <2>1
  <2>2. CASE mailbox' = [mailbox EXCEPT ![to] = Put(@, current, text)] /\ state' = Awake(to)
    <3>1. t # to /\ state[t] = "blocked"
      BY <1>0, <2>2 DEF Awake
    <3> QED BY <1>0, <2>2, <3>1 DEF WakeInv
  <2> QED BY <1>3, <2>1, <2>2 DEF Send
<1>4. ASSUME NEW n \in Elapsed, Receive(n) PROVE Empty(mailbox'[t])
  <2>1. CASE Empty(mailbox[current])
    <3>1. mailbox' = mailbox /\ Schedule([state EXCEPT ![current] = "blocked"],
                                         Later(sleepLeft, n), Later(deadline, n))
      BY <1>4, <2>1 DEF Receive, ipc
    <3>2. [state EXCEPT ![current] = "blocked"][t] = "blocked"
      BY <3>1, ScheduleBlocksNone
    <3> QED BY <1>0, <2>1, <3>1, <3>2 DEF WakeInv
  <2>2. CASE ~Empty(mailbox[current])
    <3>1. state' = state /\ mailbox' = [mailbox EXCEPT ![current] = Taken(@)]
      BY <1>4, <2>2 DEF Receive
    <3>2. t # current
      BY <2>2, <3>1 DEF WakeInv
    <3> QED BY <1>0, <3>1, <3>2 DEF WakeInv
  <2> QED BY <2>1, <2>2
<1>5. ASSUME NEW n \in Elapsed, Dispatch(n) PROVE Empty(mailbox'[t])
  <2>1. state[t] = "blocked" /\ mailbox' = mailbox
    BY <1>5, ScheduleBlocksNone DEF Dispatch, ipc
  <2> QED BY <2>1 DEF WakeInv
<1>6. CASE UNCHANGED vars
  BY <1>1, <1>6 DEF vars, sched, ipc
<1>7. CASE Next
  <2>1. PICK n \in Elapsed : Call(n) \/ Shell(n) \/ Dispatch(n)
    BY <1>7 DEF Next
  <2>2. CASE Call(n)
    <3>1. ASSUME Yield(n) \/ SigReturn(n) \/ (\E s \in Signals, h \in Handlers \cup {None} : Signal(s, h, n))
                   \/ (\E u \in Targets[active], s \in Signals \cup {0} : Kill(u, s, n))
          PROVE  state' = state /\ mailbox' = mailbox
      BY <3>1 DEF Yield, SigReturn, Signal, Kill, ipc
    <3> QED BY <1>1, <1>2, <1>3, <1>4, <2>2, <3>1, TargetsAreThreads DEF Call
  <2>3. CASE Shell(n)
    BY <1>1, <2>3 DEF Shell, ipc
  <2> QED BY <1>5, <2>1, <2>2, <2>3
<1> QED BY <1>6, <1>7

\* send's wake-up and the test in receive fit together: no thread waits with a
\* message in its mailbox.
THEOREM NoMessageSleptThrough == Spec => []NoLostWakeup
<1>1. Init => WakeInv
  BY DEF Init, WakeInv
<1>2. TypeInv /\ WakeInv => NoLostWakeup
  BY ActiveType DEF TypeInv, WakeInv, NoLostWakeup
<1> QED BY <1>1, <1>2, InitTypeInv, NextTypeInv, NextWakeInv, PTL DEF Spec

LEMMA LeastNatural ==
  ASSUME NEW S \in SUBSET Nat, S # {}
  PROVE  \E x \in S : \A y \in S : x <= y
<1> DEFINE R == {ss \in Nat \X Nat : ss[1] < ss[2]}
<1>1. IsWellFoundedOn(R, Nat)
  BY NatLessThanWellFounded DEF OpToRel
<1>2. ASSUME NEW x \in Nat, NEW y \in Nat, y < x PROVE <<y, x>> \in R
  BY <1>2, ZenonT(20)
<1> HIDE DEF R
<1>3. PICK x \in S : \A y \in S : <<y, x>> \notin R
  BY <1>1, WFMin
<1>4. \A y \in S : ~(y < x)
  BY <1>2, <1>3
<1> QED BY <1>4

\* The scan of the levels ends with a thread, if one is runnable.
LEMMA SomeThreadIsChosen ==
  ASSUME TypeOK, NEW st, NEW d \in [Thread -> Nat], Runnable(st) # {}
  PROVE  Chosen(st, d) # {}
<1>1. Runnable(st) \subseteq Thread
  BY ActiveType DEF Runnable
<1>2. Top(st) # {} /\ Top(st) \subseteq Thread
  <2> DEFINE S == {Priority[t] : t \in Runnable(st)}
  <2>1. S \in SUBSET Nat /\ S # {}
    BY <1>1, ThreadAssumption
  <2>2. PICK p \in S : \A q \in S : p <= q
    BY <2>1, LeastNatural
  <2>3. PICK t \in Runnable(st) : p = Priority[t]
    BY <2>2
  <2>4. t \in Top(st)
    BY <2>2, <2>3 DEF Top
  <2> QED BY <1>1, <2>4 DEF Top
<1>3. PICK a \in Top(st) : \A u \in Top(st) : d[a] <= d[u]
  <2> DEFINE S == {d[t] : t \in Top(st)}
  <2>1. S \in SUBSET Nat /\ S # {}
    BY <1>2
  <2>2. PICK p \in S : \A q \in S : p <= q
    BY <2>1, LeastNatural
  <2> QED BY <2>2
<1> DEFINE E == {t \in Top(st) : d[t] = d[a]}
           S == {Turn(t) : t \in E}
<1>4. S \in SUBSET Nat /\ S # {}
  <2>1. ASSUME NEW t \in Thread PROVE Turn(t) \in Nat
    <3>1. Priority[t] \in Level /\ t \in Int /\ MaxThreads \in Nat \ {0} /\ Thread \subseteq Int
      BY ThreadAssumption DEF Level
    <3>2. last[Priority[t]] \in Int
      <4>1. last \in [Level -> Thread \cup {-1}]
        BY DEF TypeOK, SchedOK
      <4>2. last[Priority[t]] \in Thread \cup {-1}
        BY <3>1, <4>1
      <4>3. Thread \subseteq Int
        BY <3>1
      <4>4. CASE last[Priority[t]] \in Thread
        BY <4>3, <4>4
      <4>5. CASE last[Priority[t]] = -1
        BY <4>5
      <4> QED BY <4>2, <4>4, <4>5
    <3>3. t - last[Priority[t]] - 1 \in Int
      BY <3>1, <3>2
    <3> QED BY <3>1, <3>3 DEF Turn
  <2> QED BY <1>2, <1>3, <2>1
<1>5. PICK p \in S : \A q \in S : p <= q
  <2> HIDE DEF S
  <2> QED BY <1>4, LeastNatural
<1>6. PICK t \in E : p = Turn(t)
  BY <1>5
<1>7. t \in Chosen(st, d)
  <2>1. \A u \in E : Turn(t) <= Turn(u)
    BY <1>5, <1>6
  <2>2. t \in Top(st) /\ d[t] = d[a]
    BY <1>6
  <2>3. \A u \in Top(st) : d[t] <= d[u] /\ (d[t] = d[u] => u \in E)
    BY <1>3, <2>2
  <2> QED BY <2>1, <2>2, <2>3 DEF Chosen
<1> QED BY <1>7

\* What the scheduler leaves in current.
LEMMA ScheduleIsUrgent ==
  ASSUME TypeOK, NEW st, NEW left, NEW d \in [Thread -> Nat],
         Schedule(st, left, d), active' = active, Runnable(state') # {}
  PROVE  /\ state'[current'] = "runnable" /\ current' \in active'
         /\ \A t \in Runnable(state') :
              \/ Priority[current'] < Priority[t]
              \/ Priority[current'] = Priority[t] /\ deadline'[current'] <= deadline'[t]
<1> DEFINE woken == Woken(st, left)
           renewed == Renewed(d)
<1>1. state' = woken /\ deadline' = renewed
  BY DEF Schedule
<1>2. renewed \in [Thread -> Nat]
  BY ThreadAssumption DEF Renewed
<1> HIDE DEF woken, renewed
<1>3. Runnable(woken) # {}
  BY <1>1 DEF Runnable
<1>4. Chosen(woken, renewed) # {}
  BY <1>2, <1>3, SomeThreadIsChosen
<1>5. current' \in Chosen(woken, renewed)
  BY <1>4 DEF Schedule, woken, renewed
<1>6. current' \in Top(woken) /\ \A u \in Top(woken) : renewed[current'] <= renewed[u]
  BY <1>5 DEF Chosen
<1>7. state'[current'] = "runnable" /\ current' \in active'
  BY <1>1, <1>6 DEF Top, Runnable
<1>8. ASSUME NEW t \in Runnable(state')
      PROVE  \/ Priority[current'] < Priority[t]
             \/ Priority[current'] = Priority[t] /\ deadline'[current'] <= deadline'[t]
  <2>1. t \in Runnable(woken) /\ t \in Thread /\ current' \in Thread
    BY <1>1, <1>7, ActiveType DEF Runnable
  <2>2. Priority[current'] <= Priority[t] /\ Priority[current'] \in Nat /\ Priority[t] \in Nat
    BY <1>6, <2>1, ThreadAssumption DEF Top
  <2>3. Priority[current'] = Priority[t] => t \in Top(woken)
    BY <1>6, <2>1 DEF Top
  <2> QED BY <1>1, <1>6, <2>2, <2>3
<1> QED BY <1>7, <1>8

LEMMA NextUrgent == TypeInv /\ MostUrgentRuns /\ [Next]_vars => MostUrgentRuns'
<1> SUFFICES ASSUME TypeInv, MostUrgentRuns, [Next]_vars PROVE MostUrgentRuns'
  OBVIOUS
<1>1. CASE UNCHANGED vars
  BY <1>1 DEF vars, sched, MostUrgentRuns, Runnable
<1>2. CASE Next
  <2>1. PICK n \in Elapsed : Call(n) \/ Shell(n) \/ Dispatch(n)
    BY <1>2 DEF Next
  <2>2. CASE Call(n)
    <3>1. mode' = "sched"
      BY <2>2 DEF Call, Sleep, Yield, Send, Receive, Signal, Kill, SigReturn, Enter
    <3> QED BY <3>1 DEF MostUrgentRuns
  <2>3. CASE Shell(n)
    <3>1. /\ UNCHANGED <<active, mode, current, state>>
          /\ deadline' = Later(deadline, n)
      BY <2>3 DEF Shell, Time
    <3>2. deadline \in [Thread -> Nat] /\ n \in Nat /\ active \subseteq Thread
      BY ActiveType DEF TypeInv, TypeOK, SchedOK, Elapsed
    <3>3. \A t, u \in Thread : deadline[t] <= deadline[u] => deadline'[t] <= deadline'[u]
      BY <3>1, <3>2 DEF Later
    <3> QED BY <3>1, <3>2, <3>3 DEF MostUrgentRuns, Runnable
  <2>4. CASE Dispatch(n)
    <3>1. TypeOK /\ active' = active
          /\ Schedule(state, Later(sleepLeft, n), Later(deadline, n))
      BY <2>4 DEF TypeInv, Dispatch
    <3>2. Later(deadline, n) \in [Thread -> Nat]
      BY <3>1, LaterType
    <3>3. Runnable(state') # {} =>
            /\ state'[current'] = "runnable" /\ current' \in active'
            /\ \A t \in Runnable(state') :
                 \/ Priority[current'] < Priority[t]
                 \/ Priority[current'] = Priority[t] /\ deadline'[current'] <= deadline'[t]
      BY <3>1, <3>2, ScheduleIsUrgent
    <3>4. Runnable(state)' = Runnable(state')
      BY <3>1 DEF Runnable
    <3> QED BY <3>3, <3>4 DEF MostUrgentRuns
  <2> QED BY <2>1, <2>2, <2>3, <2>4
<1> QED BY <1>1, <1>2

\* The scan of schedule, run once or twice after a call, leaves the most urgent
\* runnable thread in current; and it stays so while the kernel shell goes on.
THEOREM MostUrgentAlwaysRuns == Spec => []MostUrgentRuns
<1>1. Init => MostUrgentRuns
  BY DEF Init, MostUrgentRuns
<1> QED BY <1>1, InitTypeInv, NextTypeInv, NextUrgent, PTL DEF Spec


-----------------------------------------------------------------------------
(* The rings of messages implement the bounded queues of module Channels.  *)
(* What makes a ring a queue is that tail is where head arrives after      *)
(* count steps (RingInv); a message is then put behind the ones that wait, *)
(* in a slot none of them is in.                                           *)

Ring(b) == b.tail = (b.head + b.count) % Size
RingInv == \A t \in Thread : Ring(mailbox[t])

\* Round the ring at most once.
LEMMA Around ==
  ASSUME NEW h \in Slot, NEW k \in 0 .. Size
  PROVE  /\ (h + k) % Size \in Slot
         /\ (h + k) % Size = IF h + k < Size THEN h + k ELSE h + k - Size
BY MailboxAssumption DEF Slot

LEMMA AroundNext ==
  ASSUME NEW h \in Slot, NEW k \in 0 .. Size - 1
  PROVE  /\ Next1((h + k) % Size) = (h + (k + 1)) % Size
         /\ (Next1(h) + k) % Size = (h + (k + 1)) % Size
<1>1. /\ h + k \in Nat /\ Size \in Nat \ {0} /\ h \in 0 .. Size - 1
      /\ k \in 0 .. Size /\ k + 1 \in 0 .. Size
  BY MailboxAssumption DEF Slot
<1>2. /\ (h + k) % Size = IF h + k < Size THEN h + k ELSE h + k - Size
      /\ (h + (k + 1)) % Size = IF h + (k + 1) < Size THEN h + (k + 1) ELSE h + (k + 1) - Size
  BY <1>1, Around
<1>3. Next1(h) = (IF h + 1 < Size THEN h + 1 ELSE h + 1 - Size) /\ Next1(h) \in Slot
  BY <1>1, Around, Next1Type DEF Next1
<1>4. Next1((h + k) % Size) = (h + (k + 1)) % Size
  <2> DEFINE x == (h + k) % Size
  <2>1. x \in Slot
    BY <1>1, Around
  <2>2. Next1(x) = IF x + 1 < Size THEN x + 1 ELSE x + 1 - Size
    <3> HIDE DEF x
    <3> QED BY <1>1, <2>1, Around DEF Next1
  <2> QED BY <1>1, <1>2, <2>2
<1>5. (Next1(h) + k) % Size = IF Next1(h) + k < Size THEN Next1(h) + k ELSE Next1(h) + k - Size
  BY <1>1, <1>3, Around
<1>6. (Next1(h) + k) % Size = (h + (k + 1)) % Size
  BY <1>1, <1>2, <1>3, <1>5
<1> QED BY <1>4, <1>6

\* Different steps lead to different slots.
LEMMA AroundDiffers ==
  ASSUME NEW h \in Slot, NEW j \in 0 .. Size - 1, NEW k \in 0 .. Size - 1, j # k
  PROVE  (h + j) % Size # (h + k) % Size
<1>1. Size \in Nat \ {0} /\ h \in 0 .. Size - 1 /\ j \in 0 .. Size /\ k \in 0 .. Size
  BY MailboxAssumption DEF Slot
<1>2. /\ (h + j) % Size = IF h + j < Size THEN h + j ELSE h + j - Size
      /\ (h + k) % Size = IF h + k < Size THEN h + k ELSE h + k - Size
  BY <1>1, Around
<1> QED BY <1>1, <1>2

LEMMA QueueType ==
  ASSUME NEW b \in Mailboxes
  PROVE  /\ QueueOf(b) \in Seq(Message) /\ Len(QueueOf(b)) = b.count
         /\ \A i \in 1 .. b.count : /\ QueueOf(b)[i] = b.messages[(b.head + (i - 1)) % Size]
                                    /\ (b.head + (i - 1)) % Size \in Slot
<1>1. b.head \in Slot /\ b.count \in Nat /\ b.count <= Size /\ Size \in Nat
  BY MailboxAssumption DEF Mailboxes
<1>2. ASSUME NEW i \in 1 .. b.count
      PROVE  /\ b.head + i - 1 = b.head + (i - 1)
             /\ (b.head + (i - 1)) % Size \in Slot
  <2>1. i - 1 \in 0 .. Size /\ b.head \in Int
    BY <1>1 DEF Slot
  <2>2. (b.head + (i - 1)) % Size \in Slot
    BY <1>1, <2>1, Around
  <2> QED BY <2>1, <2>2
<1>3. \A i \in 1 .. b.count : b.messages[(b.head + i - 1) % Size] \in Message
  BY <1>2 DEF Mailboxes
<1>4. QueueOf(b) \in [1 .. b.count -> Message]
  BY <1>3 DEF QueueOf
<1>5. QueueOf(b) \in Seq(Message) /\ Len(QueueOf(b)) = b.count
  BY <1>1, <1>4
<1> QED BY <1>2, <1>5 DEF QueueOf

LEMMA PutQueue ==
  ASSUME NEW b \in Mailboxes, Ring(b), ~Full(b), NEW f \in Senders, NEW text \in Texts
  PROVE  /\ Ring(Put(b, f, text))
         /\ \E m \in Message : QueueOf(Put(b, f, text)) = Append(QueueOf(b), m)
<1> DEFINE p == Put(b, f, text)
           m == p.messages[b.tail]
<1>1. /\ b.head \in Slot /\ b.tail \in Slot /\ b.count \in 0 .. Size - 1
      /\ b.messages \in [Slot -> Message]
  BY MailboxAssumption DEF Mailboxes, Full
<1>2. p \in Mailboxes
  BY PutType
<1>3. /\ p.head = b.head /\ p.tail = Next1(b.tail) /\ p.count = b.count + 1
      /\ \A i \in Slot \ {b.tail} : p.messages[i] = b.messages[i]
  BY <1>1 DEF Put, Mailboxes
<1>4. m \in Message
  BY <1>1, <1>2 DEF Mailboxes
<1> HIDE DEF p, m
<1>5. Ring(p)
  BY <1>1, <1>3, AroundNext DEF Ring
<1>6. QueueOf(p) = Append(QueueOf(b), m)
  <2>1. /\ QueueOf(b) \in Seq(Message) /\ Len(QueueOf(b)) = b.count
        /\ QueueOf(p) \in Seq(Message) /\ Len(QueueOf(p)) = b.count + 1
    BY <1>2, <1>3, QueueType
  <2>2. ASSUME NEW i \in 1 .. b.count PROVE QueueOf(p)[i] = QueueOf(b)[i]
    <3>1. i - 1 \in 0 .. Size - 1 /\ i - 1 # b.count /\ i \in 1 .. p.count
      BY <1>1, <1>3, MailboxAssumption
    <3>2. (b.head + (i - 1)) % Size # b.tail
      BY <1>1, <3>1, AroundDiffers DEF Ring
    <3>3. /\ QueueOf(b)[i] = b.messages[(b.head + (i - 1)) % Size]
          /\ QueueOf(p)[i] = p.messages[(b.head + (i - 1)) % Size]
          /\ (b.head + (i - 1)) % Size \in Slot
      BY <1>2, <1>3, <3>1, QueueType
    <3> QED BY <1>3, <3>2, <3>3
  <2>3. QueueOf(p)[b.count + 1] = m
    <3>1. b.count + 1 \in 1 .. p.count /\ (b.count + 1) - 1 = b.count
      BY <1>1, <1>3
    <3>2. QueueOf(p)[b.count + 1] = p.messages[(p.head + ((b.count + 1) - 1)) % Size]
      BY <1>2, <3>1, QueueType
    <3> QED BY <1>3, <3>1, <3>2 DEF Ring, m
  <2>4. Append(QueueOf(b), m) \in Seq(Message) /\ Len(Append(QueueOf(b), m)) = b.count + 1
    BY <1>4, <2>1
  <2>5. \A i \in 1 .. b.count + 1 : QueueOf(p)[i] = Append(QueueOf(b), m)[i]
    BY <1>1, <1>4, <2>1, <2>2, <2>3
  <2> QED BY <2>1, <2>4, <2>5
<1> QED BY <1>4, <1>5, <1>6 DEF p

LEMMA TakenQueue ==
  ASSUME NEW b \in Mailboxes, Ring(b), ~Empty(b)
  PROVE  /\ Ring(Taken(b)) /\ QueueOf(b) # <<>>
         /\ Head(QueueOf(b)) = Oldest(b)
         /\ QueueOf(Taken(b)) = Tail(QueueOf(b))
<1> DEFINE p == Taken(b)
<1>1. /\ b.head \in Slot /\ b.tail \in Slot /\ b.count - 1 \in 0 .. Size - 1
      /\ b.count \in Nat \ {0}
  BY MailboxAssumption DEF Mailboxes, Empty
<1>2. p \in Mailboxes
  BY TakenType
<1>3. p.head = Next1(b.head) /\ p.tail = b.tail /\ p.count = b.count - 1 /\ p.messages = b.messages
  BY DEF Taken, Mailboxes
<1> HIDE DEF p
<1>4. Ring(p)
  <2>1. (Next1(b.head) + (b.count - 1)) % Size = (b.head + ((b.count - 1) + 1)) % Size
    BY <1>1, AroundNext
  <2>2. (b.count - 1) + 1 = b.count
    BY <1>1
  <2> QED BY <1>3, <2>1, <2>2 DEF Ring
<1>5. /\ QueueOf(b) \in Seq(Message) /\ Len(QueueOf(b)) = b.count
      /\ QueueOf(p) \in Seq(Message) /\ Len(QueueOf(p)) = b.count - 1
  BY <1>2, <1>3, QueueType
<1>6. Head(QueueOf(b)) = Oldest(b)
  <2>1. b.head + (1 - 1) = b.head /\ b.head + 0 = b.head /\ 0 \in 0 .. Size /\ 1 \in 1 .. b.count
    BY <1>1, MailboxAssumption DEF Slot
  <2>2. (b.head + 0) % Size = b.head
    BY <1>1, <2>1, Around, MailboxAssumption DEF Slot
  <2>3. QueueOf(b)[1] = b.messages[(b.head + (1 - 1)) % Size]
    BY <2>1, QueueType
  <2>4. QueueOf(b)[1] = b.messages[b.head]
    BY <2>1, <2>2, <2>3
  <2> QED BY <1>5, <2>4 DEF Oldest
<1>7. QueueOf(p) = Tail(QueueOf(b))
  <2>1. Tail(QueueOf(b)) \in Seq(Message) /\ Len(Tail(QueueOf(b))) = b.count - 1
    BY <1>1, <1>5
  <2>2. ASSUME NEW i \in 1 .. b.count - 1 PROVE QueueOf(p)[i] = Tail(QueueOf(b))[i]
    <3>1. /\ i - 1 \in 0 .. Size - 1 /\ (i - 1) + 1 = i /\ (i + 1) - 1 = i
          /\ i + 1 \in 1 .. b.count /\ i \in 1 .. p.count
      BY <1>1, <1>3, MailboxAssumption
    <3>2. (Next1(b.head) + (i - 1)) % Size = (b.head + i) % Size
      BY <1>1, <3>1, AroundNext
    <3>3. QueueOf(p)[i] = p.messages[(p.head + (i - 1)) % Size]
      BY <1>2, <3>1, QueueType
    <3>4. QueueOf(b)[i + 1] = b.messages[(b.head + ((i + 1) - 1)) % Size]
      BY <3>1, QueueType
    <3>5. Tail(QueueOf(b))[i] = QueueOf(b)[i + 1]
      BY <1>1, <1>5
    <3> QED BY <1>3, <3>1, <3>2, <3>3, <3>4, <3>5
  <2> QED BY <1>5, <2>1, <2>2
<1> QED BY <1>1, <1>4, <1>5, <1>6, <1>7 DEF p

-----------------------------------------------------------------------------
\* A call that is not about messages, or finds no room or no message, leaves
\* the mailboxes as they are.
LEMMA IpcStep ==
  ASSUME TypeInv, [Next]_vars
  PROVE  \/ UNCHANGED ipc
         \/ \E to \in Thread, text \in Texts :
              /\ ~Full(mailbox[to]) /\ out' = out
              /\ mailbox' = [mailbox EXCEPT ![to] = Put(@, current, text)]
         \/ /\ ~Empty(mailbox[current])
            /\ out' = [out EXCEPT ![current] = Oldest(mailbox[current])]
            /\ mailbox' = [mailbox EXCEPT ![current] = Taken(@)]
<1>1. CASE UNCHANGED vars
  BY <1>1 DEF vars
<1>2. CASE Next
  <2>1. PICK n \in Elapsed : Call(n) \/ Shell(n) \/ Dispatch(n)
    BY <1>2 DEF Next
  <2>2. CASE Shell(n) \/ Dispatch(n) \/ Yield(n) \/ SigReturn(n)
    BY <2>2 DEF Shell, Dispatch, Yield, SigReturn
  <2>3. CASE (\E k \in 0 .. MaxSleep : Sleep(k, n))
               \/ (\E s \in Signals, h \in Handlers \cup {None} : Signal(s, h, n))
               \/ (\E t \in Targets[active], s \in Signals \cup {0} : Kill(t, s, n))
    BY <2>3 DEF Sleep, Signal, Kill
  <2>4. ASSUME NEW to \in Targets[active], NEW text \in Texts, Send(to, text, n)
        PROVE  \/ UNCHANGED ipc
               \/ /\ to \in Thread /\ ~Full(mailbox[to]) /\ out' = out
                  /\ mailbox' = [mailbox EXCEPT ![to] = Put(@, current, text)]
    BY <2>4, TargetsAreThreads DEF Send, ipc
  <2>5. CASE Receive(n)
    BY <2>5 DEF Receive
  <2> QED BY <2>1, <2>2, <2>3, <2>4, <2>5 DEF Call
<1> QED BY <1>1, <1>2

LEMMA InitRing == Init => RingInv /\ Promise!Init
<1> SUFFICES ASSUME Init PROVE RingInv /\ Promise!Init
  OBVIOUS
<1>1. RingInv
  BY MailboxAssumption DEF Init, RingInv, Ring, EmptyMailbox
<1>2. QueueOf(EmptyMailbox(0)) = <<>>
  BY DEF QueueOf, EmptyMailbox
<1>3. [t \in Thread |-> QueueOf(mailbox[t])] = [t \in Thread |-> <<>>]
  BY <1>2 DEF Init
<1> QED BY <1>1, <1>3 DEF Init, Promise!Init

LEMMA StepRing ==
  ASSUME TypeInv, RingInv, [Next]_vars
  PROVE  /\ RingInv'
         /\ [Promise!Next]_<<[t \in Thread |-> QueueOf(mailbox[t])], out>>
<1> DEFINE queues == [t \in Thread |-> QueueOf(mailbox[t])]
<1>1. /\ mailbox \in [Thread -> Mailboxes] /\ out \in [Thread -> Message]
      /\ current \in Thread /\ current \in Senders
      /\ mailbox' \in [Thread -> Mailboxes]
  BY NextTypeInv, ThreadAssumption DEF TypeInv, TypeOK, SchedOK, IpcOK
<1>2. CASE UNCHANGED ipc
  BY <1>2 DEF ipc, RingInv
<1>3. ASSUME NEW to \in Thread, NEW text \in Texts, ~Full(mailbox[to]), out' = out,
             mailbox' = [mailbox EXCEPT ![to] = Put(@, current, text)]
      PROVE  RingInv' /\ Promise!Next
  <2>1. mailbox[to] \in Mailboxes /\ Ring(mailbox[to])
    BY <1>1 DEF RingInv
  <2>2. /\ mailbox'[to] = Put(mailbox[to], current, text)
        /\ \A t \in Thread \ {to} : mailbox'[t] = mailbox[t]
    BY <1>1, <1>3
  <2>3. Ring(mailbox'[to])
    BY <1>1, <1>3, <2>1, <2>2, PutQueue
  <2>4. PICK m \in Message : QueueOf(mailbox'[to]) = Append(QueueOf(mailbox[to]), m)
    BY <1>1, <1>3, <2>1, <2>2, PutQueue
  <2>5. RingInv'
    BY <2>2, <2>3 DEF RingInv
  <2>6. queues' = [queues EXCEPT ![to] = Append(@, m)]
    BY <2>2, <2>4
  <2>7. Len(queues[to]) < Size
    BY <1>3, <2>1, QueueType, MailboxAssumption DEF Full, Mailboxes
  <2>8. Promise!Put(to)
    BY <1>3, <2>6, <2>7 DEF Promise!Put
  <2> QED BY <2>5, <2>8 DEF Promise!Next
<1>4. CASE /\ ~Empty(mailbox[current])
           /\ out' = [out EXCEPT ![current] = Oldest(mailbox[current])]
           /\ mailbox' = [mailbox EXCEPT ![current] = Taken(@)]
  <2>1. mailbox[current] \in Mailboxes /\ Ring(mailbox[current])
    BY <1>1 DEF RingInv
  <2>2. /\ mailbox'[current] = Taken(mailbox[current])
        /\ \A t \in Thread \ {current} : mailbox'[t] = mailbox[t]
    BY <1>1, <1>4
  <2>3. /\ Ring(mailbox'[current]) /\ QueueOf(mailbox[current]) # <<>>
        /\ Head(QueueOf(mailbox[current])) = Oldest(mailbox[current])
        /\ QueueOf(mailbox'[current]) = Tail(QueueOf(mailbox[current]))
    BY <1>4, <2>1, <2>2, TakenQueue
  <2>4. RingInv'
    BY <2>2, <2>3 DEF RingInv
  <2>5. queues' = [queues EXCEPT ![current] = Tail(@)]
    BY <1>1, <2>2, <2>3
  <2>6. queues[current] # <<>> /\ out' = [out EXCEPT ![current] = Head(queues[current])]
    BY <1>1, <1>4, <2>3
  <2>7. Promise!Get(current)
    BY <2>5, <2>6 DEF Promise!Get
  <2> QED BY <1>1, <2>4, <2>7 DEF Promise!Next
<1> QED BY <1>2, <1>3, <1>4, IpcStep

\* send and receive carry out the promise of Channels, for rings of any size
\* and any number of senders: no message is lost, doubled, overtaken or written
\* over before it is read.
THEOREM RingsImplementChannels == Spec => ImplementsChannels
<1>1. TypeInv /\ RingInv /\ [Next]_vars
        => RingInv' /\ [Promise!Next]_<<[t \in Thread |-> QueueOf(mailbox[t])], out>>
  BY StepRing
<1> QED BY <1>1, InitTypeInv, NextTypeInv, InitRing, PTL DEF Spec, ImplementsChannels, Promise!Spec

=============================================================================
