------------------------------ MODULE SdProofs ------------------------------
(***************************************************************************)
(* Proofs about module SdHost, for every base clock, number of polls,      *)
(* sectors, values and words, kind of card and set of faults: how fast the *)
(* card is clocked, what sd_init leaves behind when it succeeds, what a    *)
(* call that fails has met, and that the calls are those of BlockDevice.   *)
(***************************************************************************)
EXTENDS SdProps, SequenceTheorems, TLAPS

-----------------------------------------------------------------------------
(* The clock. *)

LEMMA BaseClock == BaseHz \in Nat /\ 1000000 <= BaseHz /\ BaseHz <= 255000000
<1>1. BaseMHz \in Nat /\ BaseMHz <= 255
  BY HostAssumption
<1> QED  BY <1>1 DEF BaseHz

\* The quotient is rounded up, and fits its ten bits.
LEMMA SlowDivisor == Divisor(Slow) \in Nat \ {0} /\ BaseHz <= 2 * Divisor(Slow) * Slow
<1> DEFINE d == (BaseHz + 799999) \div 800000
<1>1. d \in Nat /\ 1 <= d /\ d <= 1023 /\ BaseHz <= 800000 * d
  BY BaseClock
<1>2. Divisor(Slow) = d
  BY <1>1 DEF Divisor, Slow
<1> HIDE DEF d
<1> QED  BY <1>1, <1>2 DEF Slow

LEMMA NormalDivisor == Divisor(Normal) \in Nat \ {0} /\ BaseHz <= 2 * Divisor(Normal) * Normal
<1> DEFINE d == (BaseHz + 1999999) \div 2000000
<1>1. d \in Nat /\ 1 <= d /\ d <= 1023 /\ BaseHz <= 2000000 * d
  BY BaseClock
<1>2. Divisor(Normal) = d
  BY <1>1 DEF Divisor, Normal
<1> HIDE DEF d
<1> QED  BY <1>1, <1>2 DEF Normal

-----------------------------------------------------------------------------
(* The invariant. *)

SetUp   == {"idle", "ready", "ident", "stby", "tran"}
InUse   == {"tran", "data", "rcv", "prg"}
Working == {"idle", "lines", "ready", "send", "words", "done"}

IsCard(c) == c = [phase |-> c.phase, lba |-> c.lba, count |-> c.count, held |-> c.held]

\* The driver and the card name sectors in the same unit.
Unit == sdhc = (kind = "hc")

\* Where the card can be while the driver is at pc, and how fast it is clocked.
Reset   == clock = 0 /\ card.phase = "idle" /\ xfer = NoXfer /\ cmd = 0
SetsUp  == /\ clock = Divisor(Slow) /\ card.phase \in SetUp /\ xfer = NoXfer
           /\ cmd \in {0, 8, 55, 41, 2, 3, 7, 16}
           /\ cmd \in {2, 3, 7, 16} => Unit
GaveUp  == clock = Divisor(Slow) \/ (clock = 0 /\ card.phase = "idle")
Works   == clock \in {Divisor(Slow), Divisor(Normal)} /\ card.phase \in InUse

Inv ==
    /\ IsCard(card)
    /\ pc \in Working \cup {"reset", "init", "off"}
    /\ pc = "reset" => Reset
    /\ pc = "init" => SetsUp
    /\ pc = "off" => GaveUp
    /\ pc \in Working => Works

\* What a command does to the card and to the transfer, answered or not.
LEMMA Exchange ==
  ASSUME NEW c, NEW arg, NEW ok \in BOOLEAN, IsCard(card), SendCmd(c, arg, ok)
  PROVE  /\ kind' = kind /\ IsCard(card')
         /\ ~Data(c) => xfer' = xfer
         /\ c # 0 => card'.phase \in {card.phase} \cup After(c, arg)
         /\ c = 0 => card'.phase \in {card.phase, "idle"}
         /\ ok /\ c # 0 => card'.phase \in After(c, arg) /\ ~inhibit' /\ Answers(c, arg)
<1>1. ASSUME Take(c, arg)
      PROVE  IsCard(card') /\ card'.phase \in After(c, arg)
  BY <1>1 DEF Take, IsCard
<1>2. CASE UNCHANGED <<cardVars, hostVars, spoilt>> /\ ~ok
  BY <1>2 DEF cardVars, hostVars
<1>3. CASE Unanswered(c, arg) /\ ~ok
  BY <1>3, <1>1 DEF Unanswered, Begun
<1>4. CASE Answered(c, arg)
  <2>1. kind' = kind /\ ~inhibit' /\ (~Data(c) => xfer' = xfer)
    BY <1>4 DEF Answered, Begun, Blocked
  <2>2. CASE c = 0 /\ card' = Resting
    BY <2>1, <2>2 DEF Resting, IsCard
  <2>3. CASE Answers(c, arg) /\ Take(c, arg)
    <3>1. c # 0
      BY <2>3 DEF Answers, Data
    <3> QED  BY <1>1, <2>1, <2>3, <3>1
  <2> QED  BY <1>4, <2>2, <2>3 DEF Answered
<1> QED  BY <1>2, <1>3, <1>4 DEF SendCmd

\* Commands of a call leave the card in use; those of sd_init do not start data.
LEMMA InUseStays ==
  ASSUME NEW c \in {13, 17, 24}, NEW arg, card.phase \in InUse
  PROVE  {card.phase} \cup After(c, arg) \subseteq InUse
BY DEF After, InUse

LEMMA SetUpStays ==
  ASSUME NEW c \in {0, 8, 55, 41, 2, 3, 7, 16}, NEW arg, card.phase \in SetUp
  PROVE  /\ c # 0 => {card.phase} \cup After(c, arg) \subseteq SetUp
         /\ {card.phase, "idle"} \subseteq SetUp
         /\ ~Data(c)
BY DEF After, SetUp, Data

-----------------------------------------------------------------------------
LEMMA InvInit == Init => Inv
BY DEF Init, CardInit, Inv, Resting, IsCard, Reset, Working

LEMMA InvSetUp == Inv /\ (HostReset \/ Identify \/ CheckVoltage \/ PowerUp) => Inv'
<1> SUFFICES ASSUME Inv, HostReset \/ Identify \/ CheckVoltage \/ PowerUp PROVE Inv'
  OBVIOUS
<1>1. CASE HostReset
  <2>1. UNCHANGED <<card, kind, cmd, sdhc>> /\ pc = "reset" /\ Reset
    BY <1>1 DEF HostReset, cardVars, Inv
  <2>2. CASE pc' = "off" /\ UNCHANGED clock
    BY <2>1, <2>2 DEF Inv, GaveUp, Reset, Working, IsCard
  <2>3. CASE pc' = "init" /\ clock' = Divisor(Slow) /\ xfer' = NoXfer
    BY <2>1, <2>3 DEF Inv, SetsUp, Reset, Working, IsCard, SetUp
  <2> QED  BY <1>1, <2>2, <2>3 DEF HostReset
<1>2. CASE Identify
  <2>1. PICK ok \in BOOLEAN :
          /\ SendCmd(cmd, 0, ok)
          /\ \/ ~ok /\ pc' = "off" /\ UNCHANGED <<cmd, clock>>
             \/ ok /\ NextCmd(cmd) # -1 /\ cmd' = NextCmd(cmd) /\ UNCHANGED <<pc, clock>>
             \/ /\ ok /\ NextCmd(cmd) = -1
                /\ pc' = "idle" /\ clock' = Divisor(Normal) /\ UNCHANGED cmd
    BY <1>2 DEF Identify
  <2>2. /\ pc = "init" /\ cmd \in {0, 55, 2, 3, 7, 16} /\ sdhc' = sdhc
        /\ IsCard(card) /\ SetsUp
    BY <1>2 DEF Identify, Inv
  <2>3. /\ kind' = kind /\ IsCard(card')
        /\ ~Data(cmd) => xfer' = xfer
        /\ cmd # 0 => card'.phase \in {card.phase} \cup After(cmd, 0)
        /\ cmd = 0 => card'.phase \in {card.phase, "idle"}
        /\ ok /\ cmd # 0 => card'.phase \in After(cmd, 0) /\ Answers(cmd, 0)
    BY <2>1, <2>2, Exchange
  <2>4. card'.phase \in SetUp /\ xfer' = NoXfer
    BY <2>2, <2>3, SetUpStays DEF SetsUp
  <2>5. CASE ~ok /\ pc' = "off" /\ UNCHANGED <<cmd, clock>>
    BY <2>2, <2>3, <2>5 DEF Inv, Working, GaveUp, SetsUp
  <2>6. CASE ok /\ NextCmd(cmd) # -1 /\ cmd' = NextCmd(cmd) /\ UNCHANGED <<pc, clock>>
    <3>1. cmd' \in {8, 41, 3, 7, 16} /\ (cmd' \in {3, 7, 16} => cmd \in {2, 3, 7, 16})
      BY <2>2, <2>6 DEF NextCmd
    <3>2. cmd' \in {2, 3, 7, 16} => Unit'
      BY <2>2, <2>3, <3>1 DEF SetsUp, Unit
    <3>3. SetsUp'
      BY <2>2, <2>4, <2>6, <3>1, <3>2 DEF SetsUp
    <3> QED  BY <2>2, <2>3, <2>6, <3>3 DEF Inv, Working
  <2>7. CASE ok /\ NextCmd(cmd) = -1 /\ pc' = "idle" /\ clock' = Divisor(Normal)
    <3>1. cmd \in {7, 16}
      BY <2>2, <2>7 DEF NextCmd
    <3>2. card'.phase = "tran"
      BY <2>3, <2>7, <3>1 DEF After, Answers, Data
    <3> QED  BY <2>3, <2>7, <3>2 DEF Inv, Working, Works, InUse
  <2> QED  BY <2>1, <2>5, <2>6, <2>7
<1>3. CASE CheckVoltage
  <2>1. PICK ok \in BOOLEAN : SendCmd(8, 0, ok)
    BY <1>3 DEF CheckVoltage
  <2>2. /\ pc = "init" /\ cmd' = 55 /\ UNCHANGED <<pc, sdhc, clock>>
        /\ IsCard(card) /\ SetsUp
    BY <1>3 DEF CheckVoltage, Inv
  <2>3. /\ IsCard(card') /\ (~Data(8) => xfer' = xfer)
        /\ card'.phase \in {card.phase} \cup After(8, 0)
    BY <2>1, <2>2, Exchange
  <2>4. card'.phase \in SetUp /\ xfer' = NoXfer
    BY <2>2, <2>3, SetUpStays DEF SetsUp
  <2> QED  BY <2>2, <2>3, <2>4 DEF Inv, Working, SetsUp
<1>4. CASE PowerUp
  <2> DEFINE arg == IF v2 THEN HCS ELSE 0
  <2>1. PICK ok \in BOOLEAN :
         /\ SendCmd(41, arg, ok)
         /\ \/ ~ok /\ pc' = "off" /\ UNCHANGED <<cmd, polls, sdhc>>
            \/ /\ ok /\ card'.phase = "ready"
               /\ cmd' = 2 /\ sdhc' = (kind = "hc") /\ UNCHANGED <<pc, polls>>
            \/ /\ ok /\ card'.phase # "ready"
               /\ cmd' = 55 /\ polls' = polls + 1
               /\ pc' = IF LastPoll THEN "off" ELSE pc
               /\ UNCHANGED sdhc
    BY <1>4 DEF PowerUp
  <2> HIDE DEF arg
  <2>2. pc = "init" /\ clock' = clock /\ IsCard(card) /\ SetsUp
    BY <1>4 DEF PowerUp, Inv
  <2>3. /\ kind' = kind /\ IsCard(card') /\ (~Data(41) => xfer' = xfer)
        /\ card'.phase \in {card.phase} \cup After(41, arg)
    BY <2>1, <2>2, Exchange
  <2>4. card'.phase \in SetUp /\ xfer' = NoXfer
    BY <2>2, <2>3, SetUpStays DEF SetsUp
  <2>5. CASE pc' = "off"
    BY <2>2, <2>3, <2>5 DEF Inv, Working, GaveUp, SetsUp
  <2>6. CASE cmd' = 2 /\ sdhc' = (kind = "hc") /\ UNCHANGED pc
    <3>1. Unit'
      BY <2>3, <2>6 DEF Unit
    <3>2. SetsUp'
      BY <2>2, <2>4, <2>6, <3>1 DEF SetsUp
    <3> QED  BY <2>2, <2>3, <2>6, <3>2 DEF Inv, Working
  <2>7. CASE cmd' = 55 /\ pc' \in {"off", pc}
    <3>1. SetsUp'
      BY <2>2, <2>4, <2>7 DEF SetsUp
    <3> QED  BY <2>2, <2>3, <2>5, <2>7, <3>1 DEF Inv, Working
  <2> QED  BY <2>1, <2>5, <2>6, <2>7
<1> QED  BY <1>1, <1>2, <1>3, <1>4

\* During a call the card stays in use, and the clock is one of the two.
LEMMA FailStays ==
  ASSUME Fail
  PROVE  pc' \in Working /\ clock' \in {clock, Divisor(Normal)}
BY DEF Fail, Return, Working

LEMMA Working_Inv ==
  ASSUME Inv, pc \in Working, pc' \in Working, IsCard(card'), card'.phase \in InUse,
         clock' \in {clock, Divisor(Slow), Divisor(Normal)}
  PROVE  Inv'
BY DEF Inv, Works, Working

LEMMA InvBegin ==
  ASSUME Inv, NEW lba, NEW v, ReadBlock(lba) \/ WriteBlock(lba, v)
  PROVE  Inv'
<1>1. /\ pc \in Working /\ pc' \in Working /\ UNCHANGED card
      /\ clock' \in {clock, Divisor(Slow), Divisor(Normal)}
  BY DEF ReadBlock, WriteBlock, Begin, cardVars, Working
<1>2. IsCard(card') /\ card'.phase \in InUse
  BY <1>1 DEF Inv, Works
<1> QED  BY <1>1, <1>2, Working_Inv

LEMMA InvCommand ==
  ASSUME Inv, WaitReady \/ SendData
  PROVE  Inv'
<1>1. PICK c \in {13, 17, 24}, arg \in {0, Argument(req.lba)}, ok \in BOOLEAN :
        SendCmd(c, arg, ok)
  BY DEF WaitReady, SendData
<1>2. pc \in Working /\ pc' \in Working /\ clock' \in {clock, Divisor(Normal)}
  BY FailStays DEF WaitReady, SendData, Working
<1>3. IsCard(card) /\ card.phase \in InUse
  BY <1>2 DEF Inv, Works
<1>4. IsCard(card') /\ card'.phase \in {card.phase} \cup After(c, arg)
  BY <1>1, <1>3, Exchange
<1>5. card'.phase \in InUse
  BY <1>3, <1>4, InUseStays
<1> QED  BY <1>2, <1>4, <1>5, Working_Inv

LEMMA InvWait ==
  ASSUME Inv, LinesPolled \/ ReadWord \/ WriteWord \/ TimeOut \/ Finish
  PROVE  Inv'
<1>1. /\ pc \in Working /\ pc' \in Working /\ UNCHANGED card
      /\ clock' \in {clock, Divisor(Normal)}
  <2>1. CASE LinesPolled
    BY <2>1 DEF LinesPolled, cardVars, Working
  <2>2. CASE ReadWord \/ WriteWord
    BY <2>2 DEF ReadWord, WriteWord, Move, cardVars, Working
  <2>3. CASE TimeOut
    BY <2>3, FailStays DEF TimeOut, cardVars, Working
  <2>4. CASE Finish
    BY <2>4 DEF Finish, Return, cardVars, Working
  <2> QED  BY <2>1, <2>2, <2>3, <2>4
<1>2. IsCard(card') /\ card'.phase \in InUse
  BY <1>1 DEF Inv, Works
<1> QED  BY <1>1, <1>2, Working_Inv

\* While the card is led into its transfer state it moves no data.
LEMMA InvDevice ==
  ASSUME Inv, Device, UNCHANGED driver
  PROVE  Inv'
<1>1. UNCHANGED <<pc, cmd, sdhc, clock, kind>>
  BY DEF driver, Device, CardSends, ReadDone, CardTakes, CardStores, LinesReset, cardVars
<1>2. CASE CardSends \/ CardTakes \/ CardStores
  <2>1. card.phase \in {"data", "rcv", "prg"} /\ card'.phase \in InUse /\ IsCard(card')
    BY <1>2 DEF CardSends, CardTakes, CardStores, InUse, IsCard, Inv
  <2>2. pc \notin {"reset", "init"}
    BY <2>1 DEF Inv, Reset, SetsUp, SetUp
  <2> QED  BY <1>1, <2>1, <2>2 DEF Inv, GaveUp, Works, Working
<1>3. CASE ReadDone \/ LinesReset
  <2>1. UNCHANGED card /\ (xfer' = xfer \/ xfer' = NoXfer)
    BY <1>3 DEF ReadDone, LinesReset, cardVars
  <2> QED  BY <1>1, <2>1 DEF Inv, Reset, SetsUp, Unit, GaveUp, Works
<1> QED  BY <1>2, <1>3 DEF Device

LEMMA InvNext == Inv /\ [Next]_vars => Inv'
<1> SUFFICES ASSUME Inv, [Next]_vars PROVE Inv'
  OBVIOUS
<1>1. CASE UNCHANGED vars
  BY <1>1 DEF vars, driver, cardVars, hostVars, Inv, Reset, SetsUp, Unit, GaveUp, Works
<1>2. CASE \E lba \in Lba : ReadBlock(lba) \/ \E v \in Value : WriteBlock(lba, v)
  BY <1>2, InvBegin
<1>3. CASE Driver
  BY <1>3, InvSetUp, InvCommand, InvWait DEF Driver
<1>4. CASE Device /\ UNCHANGED driver
  BY <1>4, InvDevice
<1> QED  BY <1>1, <1>2, <1>3, <1>4 DEF Next

-----------------------------------------------------------------------------
(* What follows. *)

LEMMA InvClock == Inv => ClockWithinLimit
<1> SUFFICES ASSUME Inv PROVE ClockWithinLimit
  OBVIOUS
<1>1. /\ Divisor(Slow) # 0 /\ BaseHz <= 2 * Divisor(Slow) * Slow
      /\ BaseHz <= 2 * Divisor(Slow) * Normal
  <2> DEFINE d == Divisor(Slow)
  <2>1. d \in Nat \ {0} /\ BaseHz <= 2 * d * 400000
    BY SlowDivisor DEF Slow
  <2>2. BaseHz \in Nat
    BY BaseClock
  <2> HIDE DEF d
  <2>3. BaseHz <= 2 * d * 1000000
    BY <2>1, <2>2
  <2> USE DEF d
  <2> QED  BY <2>1, <2>3, SlowDivisor DEF Normal
<1>2. Divisor(Normal) # 0 /\ BaseHz <= 2 * Divisor(Normal) * Normal
  BY NormalDivisor
<1>3. clock # 0 => clock \in {Divisor(Slow), Divisor(Normal)}
  BY DEF Inv, Reset, SetsUp, GaveUp, Works
<1>4. card.phase \in {"ready", "ident", "stby"} => clock = Divisor(Slow)
  BY DEF Inv, Reset, SetsUp, GaveUp, Works, InUse, Working
<1> QED  BY <1>1, <1>2, <1>3, <1>4 DEF ClockWithinLimit

\* The clock is never faster than what was asked for, for every base clock the
\* controller may report (sdhci_set_clock_hz and its calls).
THEOREM ClockNeverTooFast == Spec => []ClockWithinLimit
<1>1. Init => Inv
  BY InvInit
<1>2. Inv /\ [Next]_vars => Inv'
  BY InvNext
<1>3. Inv => ClockWithinLimit
  BY InvClock
<1> QED  BY <1>1, <1>2, <1>3, PTL DEF Spec

\* Only the last command of sd_init leads from its steps to a card in service.
LEMMA LastCommand ==
  ASSUME [Next]_vars, pc = "init", pc' = "idle"
  PROVE  /\ cmd \in {0, 55, 2, 3, 7, 16} /\ NextCmd(cmd) = -1
         /\ \E ok \in BOOLEAN : ok /\ SendCmd(cmd, 0, ok)
<1>1. CASE UNCHANGED vars \/ (Device /\ UNCHANGED driver)
  BY <1>1 DEF vars, driver
<1>2. CASE \E lba \in Lba : ReadBlock(lba) \/ \E v \in Value : WriteBlock(lba, v)
  BY <1>2 DEF ReadBlock, WriteBlock, Begin
<1>3. CASE Identify
  BY <1>3 DEF Identify
<1>4. CASE HostReset \/ CheckVoltage \/ PowerUp
  BY <1>4 DEF HostReset, CheckVoltage, PowerUp
<1>5. CASE LinesPolled \/ WaitReady \/ SendData \/ ReadWord \/ WriteWord \/ TimeOut \/ Finish
  BY <1>5 DEF LinesPolled, WaitReady, SendData, ReadWord, WriteWord, TimeOut, Finish
<1> QED  BY <1>1, <1>2, <1>3, <1>4, <1>5 DEF Next, Driver

LEMMA InitEnds ==
  ASSUME Inv, [Next]_vars, pc = "init", pc' = "idle"
  PROVE  card'.phase = "tran" /\ ~inhibit' /\ xfer' = NoXfer /\ Unit
<1>1. /\ cmd \in {0, 55, 2, 3, 7, 16} /\ NextCmd(cmd) = -1
      /\ \E ok \in BOOLEAN : ok /\ SendCmd(cmd, 0, ok)
  BY LastCommand
<1>2. PICK ok \in BOOLEAN : ok /\ SendCmd(cmd, 0, ok)
  BY <1>1
<1>3. cmd \in {7, 16}
  BY <1>1 DEF NextCmd
<1>4. IsCard(card) /\ SetsUp
  BY DEF Inv
<1>5. Unit /\ xfer = NoXfer
  BY <1>3, <1>4 DEF SetsUp
<1>6. /\ ~Data(cmd) => xfer' = xfer
      /\ ok /\ cmd # 0 => card'.phase \in After(cmd, 0) /\ ~inhibit' /\ Answers(cmd, 0)
  BY <1>2, <1>4, Exchange
<1>7. /\ ~Data(cmd) => xfer' = xfer
      /\ card'.phase \in After(cmd, 0) /\ ~inhibit' /\ Answers(cmd, 0)
  BY <1>2, <1>6, <1>3
<1>8. card'.phase = "tran"
  BY <1>3, <1>7 DEF After, Answers, Data
<1>9. xfer' = NoXfer
  BY <1>3, <1>5, <1>7 DEF Data
<1> QED  BY <1>5, <1>7, <1>8, <1>9

\* When sd_init reports success, the card is in its transfer state, sectors are
\* named in its unit and no command is stuck, whatever card it is and whichever
\* commands went unanswered.
THEOREM InitSucceedsReady == Spec => InitLeavesReady
<1>1. Init => Inv
  BY InvInit
<1>2. Inv /\ [Next]_vars => Inv'
  BY InvNext
<1>3. Inv /\ [Next]_vars =>
        [pc = "init" /\ pc' = "idle" =>
          /\ card'.phase = "tran" /\ ~inhibit' /\ xfer' = NoXfer
          /\ sdhc = (kind = "hc")]_vars
  BY InitEnds DEF Unit
<1> QED  BY <1>1, <1>2, <1>3, PTL DEF Spec, InitLeavesReady

-----------------------------------------------------------------------------
(* Bursts and commands. *)

\* A burst is a sequence of at most Words words.
LEMMA BurstIsSeq ==
  ASSUME NEW b \in Burst
  PROVE  b \in Seq(Word) /\ Len(b) \in 0 .. Words
<1>1. PICK n \in 0 .. Words : b \in [1 .. n -> Word]
  BY DEF Burst
<1>2. n \in Nat
  BY <1>1, CardAssumption
<1>3. b \in Seq(Word)
  BY <1>1, <1>2
<1>4. Len(b) = n
  BY <1>1, <1>2, <1>3
<1> QED BY <1>1, <1>3, <1>4

LEMMA SeqIsBurst ==
  ASSUME NEW b \in Seq(Word), Len(b) <= Words
  PROVE  b \in Burst
<1>1. b \in [1 .. Len(b) -> Word] /\ Len(b) \in Nat
  OBVIOUS
<1>2. Len(b) \in 0 .. Words
  BY <1>1, CardAssumption
<1> QED BY <1>1, <1>2 DEF Burst

LEMMA BurstMore ==
  ASSUME NEW b \in Burst, NEW w \in Word, Len(b) < Words
  PROVE  /\ Append(b, w) \in Burst /\ Len(Append(b, w)) = Len(b) + 1
         /\ Append(b, w)[Len(b) + 1] = w
         /\ \A i \in 1 .. Len(b) : Append(b, w)[i] = b[i]
<1>1. b \in Seq(Word) /\ Len(b) \in 0 .. Words
  BY BurstIsSeq
<1>2. Append(b, w) \in Seq(Word) /\ Len(Append(b, w)) = Len(b) + 1
  BY <1>1
<1>3. Len(Append(b, w)) <= Words
  BY <1>1, <1>2, CardAssumption
<1>4. Append(b, w) \in Burst
  BY ONLY <1>2, <1>3, SeqIsBurst
<1> QED BY <1>1, <1>2, <1>4

LEMMA BurstLess ==
  ASSUME NEW b \in Burst, b # <<>>
  PROVE  /\ Tail(b) \in Burst /\ Len(Tail(b)) = Len(b) - 1 /\ Head(b) \in Word
         /\ Head(b) = b[1] /\ 1 <= Len(b)
         /\ \A i \in 1 .. Len(b) - 1 : Tail(b)[i] = b[i + 1]
<1>1. b \in Seq(Word) /\ Len(b) \in 0 .. Words
  BY BurstIsSeq
<1>2. /\ Tail(b) \in Seq(Word) /\ Len(Tail(b)) = Len(b) - 1
      /\ Head(b) \in Word /\ Head(b) = b[1] /\ 1 <= Len(b)
      /\ \A i \in 1 .. Len(b) - 1 : Tail(b)[i] = b[i + 1]
  BY <1>1
<1>3. Len(Tail(b)) <= Words
  BY <1>1, <1>2, CardAssumption
<1>4. Tail(b) \in Burst
  BY ONLY <1>2, <1>3, SeqIsBurst
<1> QED BY <1>2, <1>4

LEMMA EmptyBurst == <<>> \in Burst /\ Len(<<>>) = 0
<1>1. <<>> \in Seq(Word) /\ Len(<<>>) = 0
  OBVIOUS
<1>2. Len(<<>>) <= Words
  BY <1>1, CardAssumption
<1> QED BY ONLY <1>1, <1>2, SeqIsBurst

\* The sector a command names is the one the driver means.
LEMMA SectorNamed ==
  ASSUME Unit, NEW lba \in Lba
  PROVE  Sector(Argument(lba)) = lba
<1>1. lba \in Nat
  BY CardAssumption
<1>2. (lba * 512) \div 512 = lba
  BY <1>1
<1> QED BY <1>2 DEF Sector, Argument, Unit, SectorSize

\* The card and the transfer after a command: what was there, or what it starts.
Started(c, arg) == [phase |-> IF c = 17 THEN "data" ELSE "rcv", lba |-> Sector(arg),
                    count |-> 0, held |-> <<>>]

LEMMA CardShape ==
  ASSUME CardTypeOK
  PROVE  /\ card = [phase |-> card.phase, lba |-> card.lba, count |-> card.count, held |-> card.held]
         /\ card.phase \in Phase /\ card.lba \in Lba \cup {0} /\ card.count \in 0 .. Words
         /\ card.held \in Burst
         /\ xfer = [dir |-> xfer.dir, fifo |-> xfer.fifo, host |-> xfer.host]
         /\ xfer.dir \in {"none", "read", "write"} /\ xfer.fifo \in Burst /\ xfer.host \in 0 .. Words
BY DEF CardTypeOK

LEMMA TakeData ==
  ASSUME NEW c \in {17, 24}, NEW arg, Take(c, arg)
  PROVE  card' = Started(c, arg)
BY DEF Take, After, Data, Started

LEMMA TakeStatus ==
  ASSUME CardTypeOK, NEW arg, Take(13, arg)
  PROVE  card' = card
<1>1. card' = [card EXCEPT !.phase = card.phase]
  BY DEF Take, After, Data
<1> QED BY <1>1, CardShape

LEMMA StartedType ==
  ASSUME NEW c, NEW arg, Sector(arg) \in Lba
  PROVE  Started(c, arg) \in [phase : Phase, lba : Lba \cup {0}, count : 0 .. Words, held : Burst]
<1>1. 0 \in 0 .. Words
  BY CardAssumption
<1> QED BY <1>1, EmptyBurst DEF Started, Phase

LEMMA XferType ==
  /\ NoXfer \in [dir : {"none", "read", "write"}, fifo : Burst, host : 0 .. Words]
  /\ \A dir \in {"read", "write"} :
        Xfer(dir) \in [dir : {"none", "read", "write"}, fifo : Burst, host : 0 .. Words]
<1>1. 0 \in 0 .. Words
  BY CardAssumption
<1> QED BY <1>1, EmptyBurst DEF NoXfer, Xfer

\* What a command of a call does, answered or not.
LEMMA Command ==
  ASSUME CardTypeOK, NEW c \in {13, 17, 24}, NEW arg, NEW ok \in BOOLEAN, SendCmd(c, arg, ok)
  PROVE  /\ CardTypeOK'
         /\ kind' = kind /\ sectors' = sectors /\ resetting' = resetting
         /\ int' = int \/ int' = {}
         /\ \/ card' = card
            \/ /\ c # 13 /\ card.phase = "tran" /\ Sector(arg) \in Lba /\ xfer = NoXfer
               /\ card' = Started(c, arg)
         /\ xfer' = xfer \/ (c # 13 /\ xfer = NoXfer /\ xfer' = Begun(c))
         /\ spoilt => spoilt'
         /\ ok => /\ int' = {} /\ inhibit' = inhibit
                  /\ Answers(c, arg)
                  /\ c = 13 => card' = card /\ xfer' = xfer
                  /\ c # 13 => xfer = NoXfer /\ xfer' = Begun(c) /\ card' = Started(c, arg)
         /\ ~ok /\ ~Blocked(c) /\ Answers(c, arg) => spoilt'
<1>1. ASSUME Take(c, arg), Answers(c, arg)
      PROVE  /\ c = 13 => card' = card
             /\ c # 13 => /\ card.phase = "tran" /\ Sector(arg) \in Lba
                          /\ card' = Started(c, arg)
             /\ card' \in [phase : Phase, lba : Lba \cup {0}, count : 0 .. Words, held : Burst]
  <2>1. CASE c = 13
    BY <1>1, <2>1, TakeStatus DEF CardTypeOK
  <2>2. CASE c \in {17, 24}
    <3>1. card.phase = "tran" /\ Sector(arg) \in Lba
      BY <1>1, <2>2 DEF Answers, Data
    <3> QED BY <1>1, <2>2, <3>1, TakeData, StartedType
  <2> QED BY <2>1, <2>2
<1>2. /\ Begun(c) \in [dir : {"none", "read", "write"}, fifo : Burst, host : 0 .. Words]
      /\ c = 13 => Begun(c) = xfer
  BY XferType DEF Begun, Data, CardTypeOK
<1>3. ASSUME ~Blocked(c)
      PROVE  c # 13 => xfer = NoXfer
  BY <1>3 DEF Blocked, Data
<1>4. CASE UNCHANGED <<cardVars, hostVars, spoilt>> /\ ~ok /\ Blocked(c)
  BY <1>4 DEF cardVars, hostVars, CardTypeOK
<1>5. CASE Unanswered(c, arg) /\ ~ok
  <2>1. /\ ~Blocked(c) /\ int' = {} /\ inhibit' \in BOOLEAN /\ xfer' \in {xfer, Begun(c)}
        /\ UNCHANGED <<kind, sectors, resetting>>
        /\ \/ ~Answers(c, arg) /\ UNCHANGED <<card, spoilt>>
           \/ /\ Answers(c, arg) /\ spoilt' = TRUE
              /\ UNCHANGED card \/ Take(c, arg)
    BY <1>5 DEF Unanswered
  <2>2. card' \in [phase : Phase, lba : Lba \cup {0}, count : 0 .. Words, held : Burst]
    BY <1>1, <2>1 DEF CardTypeOK
  <2>3. xfer' \in [dir : {"none", "read", "write"}, fifo : Burst, host : 0 .. Words]
    BY <1>2, <2>1 DEF CardTypeOK
  <2>4. CardTypeOK'
    BY <2>1, <2>2, <2>3 DEF CardTypeOK
  <2>5. xfer' = xfer \/ (c # 13 /\ xfer = NoXfer /\ xfer' = Begun(c))
    BY <1>2, <1>3, <2>1
  <2>6. \/ card' = card
        \/ /\ c # 13 /\ card.phase = "tran" /\ Sector(arg) \in Lba /\ xfer = NoXfer
           /\ card' = Started(c, arg)
    BY <1>1, <1>3, <2>1
  <2> QED BY <1>5, <2>1, <2>4, <2>5, <2>6
<1>6. CASE Answered(c, arg) /\ ok
  <2>1. /\ ~Blocked(c) /\ int' = {} /\ xfer' = Begun(c) /\ Answers(c, arg) /\ Take(c, arg)
        /\ UNCHANGED <<kind, sectors, inhibit, resetting, spoilt>>
    BY <1>6 DEF Answered
  <2>2. card' \in [phase : Phase, lba : Lba \cup {0}, count : 0 .. Words, held : Burst]
    BY <1>1, <2>1
  <2>3. CardTypeOK'
    BY <1>2, <2>1, <2>2 DEF CardTypeOK
  <2> QED BY <1>1, <1>2, <1>3, <1>6, <2>1, <2>3
<1> QED BY <1>4, <1>5, <1>6 DEF SendCmd

-----------------------------------------------------------------------------
(* The invariant of the calls. *)

Moving == pc \in {"words", "done"}
All(s, v) == \A i \in 1 .. Len(s) : s[i] = v
Quiet == ~inhibit /\ xfer = NoXfer

\* A card that works is there, and sectors are named in its unit.
Served == pc \in Working => Unit /\ kind # "none"

\* What the card and the controller have of a sector between them.
Shared ==
    /\ card.phase \in {"data", "rcv", "prg"} => card.lba \in Lba
    /\ card.phase = "data" => card.count < Words
    /\ card.phase = "rcv" => Len(card.held) < Words
    /\ card.phase = "prg" => Len(card.held) = Words
    /\ xfer.dir = "read" => Len(xfer.fifo) + xfer.host <= Words
    /\ xfer.dir = "write" =>
         /\ card.phase \in {"tran", "rcv", "prg"}
         /\ card.phase = "rcv" => Len(card.held) + Len(xfer.fifo) = xfer.host
         /\ card.phase # "rcv" => xfer.fifo = <<>>

\* How far the loops of the driver are.
Counts ==
    /\ pc \in {"lines", "ready", "send"} => buf = <<>>
    /\ pc = "words" => Len(buf) < Words
    /\ pc = "done" => Len(buf) = Words
    /\ pc \in {"reset", "init", "lines", "ready"} => polls < MaxPolls
    /\ pc \in {"lines", "ready"} => req.op = "write"

\* What a read has fetched, and can still fetch, are words of its sector.
Reading == req.op = "read" /\ Moving =>
    /\ card.phase \in {"data", "tran"} /\ xfer.dir # "write"
    /\ card.phase = "data" => card.lba = req.lba
    /\ xfer.dir = "read" => xfer.host = Len(buf)
    /\ \/ "error" \in int
       \/ All(buf, sectors[req.lba]) /\ (xfer.dir = "read" => All(xfer.fifo, sectors[req.lba]))

\* What the card has of a write, and can still get, is what the caller gave.
Writing == req.op = "write" =>
    /\ pc = "send" => card.phase = "tran"
    /\ Moving =>
         /\ card.phase \in {"rcv", "prg", "tran"} /\ xfer.dir # "read"
         /\ card.phase # "tran" => card.lba = req.lba /\ All(card.held, req.val)
         /\ xfer.dir = "write" =>
              card.phase # "tran" /\ xfer.host = Len(buf) /\ All(xfer.fifo, req.val)
         /\ "done" \in int => /\ card.phase = "tran"
                              /\ "error" \in int \/ sectors[req.lba] = req.val
    /\ pc = "words" => card.phase = "rcv"

\* Nothing of an earlier call stands in the way of one that meets no fault.
Clean == ~spoilt =>
    /\ req.op = "read" /\ pc = "send" /\ ~open => Quiet /\ card.phase = "tran"
    /\ req.op = "write" /\ (pc \in {"ready", "send"} \/ (pc = "lines" /\ ~resetting)) => Quiet

CallInv ==
    /\ Inv /\ TypeOK
    /\ Served /\ Shared /\ Counts /\ Reading /\ Writing /\ Clean

LEMMA DivisorType == Divisor(Slow) \in 0 .. 1023 /\ Divisor(Normal) \in 0 .. 1023
<1>1. \A hz \in {400000, 1000000} : (BaseHz + (hz * 2 - 1)) \div (hz * 2) \in Nat
  BY BaseClock
<1> QED BY <1>1 DEF Divisor, Slow, Normal

LEMMA NoRetType ==
  NoRet \in [op : {"none", "read", "write"}, ok : BOOLEAN, lba : Lba \cup {0}, val : Word, buf : Burst]
BY EmptyBurst DEF NoRet, Word

LEMMA CallInvInit == Init => CallInv
<1> SUFFICES ASSUME Init PROVE CallInv
  OBVIOUS
<1>1. Inv
  BY InvInit
<1>2. CardTypeOK
  <2>1. 0 \in 0 .. Words
    BY CardAssumption
  <2>2. card \in [phase : Phase, lba : Lba \cup {0}, count : 0 .. Words, held : Burst]
    BY <2>1, EmptyBurst DEF Init, CardInit, Resting, Phase
  <2>3. sectors \in [Lba -> Word]
    BY DEF Init, CardInit, Word
  <2> QED BY <2>2, <2>3, XferType DEF Init, CardInit, CardTypeOK
<1>3. req \in Call
  <2>1. PICK lba \in Lba : TRUE
    BY CardAssumption
  <2>2. [op |-> "read", lba |-> lba, val |-> Garbage] \in Call
    BY DEF Call, Word
  <2> QED BY <2>2 DEF Init
<1>4. 0 \in 0 .. MaxPolls /\ 0 < MaxPolls
  BY HostAssumption
<1>5. TypeOK
  <2>1. v2 \in BOOLEAN /\ sdhc \in BOOLEAN /\ open \in BOOLEAN
    BY DEF Init
  <2>2. /\ pc = "reset" /\ cmd = 0 /\ clock \in 0 .. 1023
        /\ polls \in 0 .. MaxPolls /\ tries \in 0 .. 1
    BY <1>4 DEF Init
  <2>3. /\ buf \in Burst
        /\ ret \in [op : {"none", "read", "write"}, ok : BOOLEAN, lba : Lba \cup {0},
                    val : Word, buf : Burst]
    BY NoRetType, EmptyBurst DEF Init
  <2> QED BY <1>2, <1>3, <2>1, <2>2, <2>3 DEF TypeOK
<1>6. Shared
  BY DEF Init, CardInit, Resting, NoXfer, Shared
<1> QED BY <1>1, <1>4, <1>5, <1>6
        DEF Init, CallInv, Served, Counts, Reading, Writing, Clean, Working, Moving

-----------------------------------------------------------------------------
(* sd_init. *)

\* A command of sd_init moves no data.
LEMMA SetUpCommand ==
  ASSUME CardTypeOK, card.phase \in SetUp, xfer = NoXfer,
         NEW c \in {0, 8, 55, 41, 2, 3, 7, 16}, NEW arg, NEW ok \in BOOLEAN, SendCmd(c, arg, ok)
  PROVE  /\ CardTypeOK' /\ card'.phase \in SetUp /\ xfer' = NoXfer
         /\ kind' = kind /\ sectors' = sectors
         /\ ok /\ c # 0 => kind # "none"
<1>1. IsCard(card)
  BY CardShape DEF IsCard
<1>2. /\ kind' = kind /\ (~Data(c) => xfer' = xfer)
      /\ c # 0 => card'.phase \in {card.phase} \cup After(c, arg)
      /\ c = 0 => card'.phase \in {card.phase, "idle"}
      /\ ok /\ c # 0 => Answers(c, arg)
  BY <1>1, Exchange
<1>3. card'.phase \in SetUp /\ xfer' = NoXfer
  BY <1>2, SetUpStays
<1>4. ~Data(c)
  BY DEF Data
<1>5. ASSUME Take(c, arg)
      PROVE  card' \in [phase : Phase, lba : Lba \cup {0}, count : 0 .. Words, held : Burst]
  <2>1. PICK p : card' = [card EXCEPT !.phase = p]
    BY <1>4, <1>5 DEF Take
  <2>2. p = card'.phase
    BY <2>1, CardShape
  <2>3. p \in Phase
    BY <1>3, <2>2 DEF SetUp, Phase
  <2> QED BY <2>1, <2>3 DEF CardTypeOK
<1>6. card' \in [phase : Phase, lba : Lba \cup {0}, count : 0 .. Words, held : Burst]
  <2>1. card' = card \/ card' = Resting \/ Take(c, arg)
    BY DEF SendCmd, Answered, Unanswered, cardVars
  <2>2. Resting \in [phase : Phase, lba : Lba \cup {0}, count : 0 .. Words, held : Burst]
    <3>1. 0 \in 0 .. Words
      BY CardAssumption
    <3> QED BY <3>1, EmptyBurst DEF Resting, Phase
  <2> QED BY <1>5, <2>1, <2>2 DEF CardTypeOK
<1>7. /\ int' \in {int, {}} /\ inhibit' \in {inhibit, TRUE, FALSE}
      /\ spoilt' \in {spoilt, TRUE} /\ resetting' = resetting /\ sectors' = sectors
  BY DEF SendCmd, Answered, Unanswered, cardVars, hostVars
<1>8. CardTypeOK'
  BY <1>2, <1>3, <1>6, <1>7, XferType DEF CardTypeOK
<1>9. ok /\ c # 0 => kind # "none"
  BY <1>2 DEF Answers
<1> QED BY <1>2, <1>3, <1>7, <1>8, <1>9

LEMMA SetUpShared ==
  ASSUME card.phase \in SetUp, xfer = NoXfer
  PROVE  Shared
BY DEF SetUp, NoXfer, Shared

LEMMA CallInvSetUp ==
  ASSUME CallInv, [Next]_vars, HostReset \/ Identify \/ CheckVoltage \/ PowerUp
  PROVE  /\ CallInv' /\ sectors' = sectors /\ pc \notin Working
         /\ card.phase \in SetUp /\ card'.phase \in SetUp
         /\ pc' \in {"init", "off", "idle"} /\ UNCHANGED callVars
<1>1. Inv'
  BY InvNext DEF CallInv
<1>2. Inv /\ TypeOK /\ CardTypeOK
  BY DEF CallInv, TypeOK
<1>3. ASSUME CardTypeOK', card'.phase \in SetUp, xfer' = NoXfer, UNCHANGED callVars,
             pc' \in {"init", "off", "idle"}, pc' = "idle" => Unit' /\ kind' # "none",
             cmd' \in {0, 8, 55, 41, 2, 3, 7, 16}, v2' \in BOOLEAN, sdhc' \in BOOLEAN,
             clock' \in 0 .. 1023, polls' \in 0 .. MaxPolls,
             pc' = "init" => polls' < MaxPolls
      PROVE  CallInv'
  <2>1. TypeOK'
    BY <1>2, <1>3 DEF TypeOK, callVars
  <2>2. Shared'
    BY <1>3 DEF SetUp, NoXfer, Shared
  <2>3. Served' /\ Counts' /\ Reading' /\ Writing' /\ Clean'
    BY <1>3 DEF Served, Counts, Reading, Writing, Clean, Moving, Working
  <2> QED BY <1>1, <2>1, <2>2, <2>3 DEF CallInv
<1>4. CASE HostReset
  <2>1. /\ pc = "reset" /\ Reset /\ polls < MaxPolls
    BY <1>2, <1>4 DEF HostReset, Inv, CallInv, Counts
  <2>2. CardTypeOK' /\ xfer' = NoXfer
    BY <1>2, <1>4, <2>1, XferType DEF HostReset, cardVars, CardTypeOK, Reset
  <2>3. card.phase \in SetUp /\ UNCHANGED <<card, sectors>>
    BY <1>4, <2>1 DEF HostReset, Reset, SetUp, cardVars
  <2>4. /\ cmd' = cmd /\ v2' = v2 /\ sdhc' = sdhc /\ polls' = polls /\ clock' \in {clock, Divisor(Slow)}
        /\ pc' \in {"init", "off"} /\ UNCHANGED callVars
    BY <1>4 DEF HostReset
  <2>5. CallInv'
    BY <1>2, <1>3, <2>1, <2>2, <2>3, <2>4, DivisorType DEF TypeOK
  <2> QED BY <2>1, <2>3, <2>4, <2>5 DEF Working
<1>5. CASE Identify
  <2>1. /\ pc = "init" /\ cmd \in {0, 55, 2, 3, 7, 16} /\ SetsUp /\ polls < MaxPolls
        /\ UNCHANGED <<v2, sdhc, polls, callVars>>
    BY <1>2, <1>5 DEF Identify, Inv, CallInv, Counts
  <2>2. PICK ok \in BOOLEAN :
          /\ SendCmd(cmd, 0, ok)
          /\ \/ ~ok /\ pc' = "off" /\ UNCHANGED <<cmd, clock>>
             \/ ok /\ NextCmd(cmd) # -1 /\ cmd' = NextCmd(cmd) /\ UNCHANGED <<pc, clock>>
             \/ /\ ok /\ NextCmd(cmd) = -1
                /\ pc' = "idle" /\ clock' = Divisor(Normal) /\ UNCHANGED cmd
    BY <1>5 DEF Identify
  <2>3. /\ CardTypeOK' /\ card'.phase \in SetUp /\ xfer' = NoXfer
        /\ kind' = kind /\ sectors' = sectors
        /\ ok /\ cmd # 0 => kind # "none"
    BY <1>2, <2>1, <2>2, SetUpCommand DEF SetsUp
  <2>4. cmd' \in {0, 8, 55, 41, 2, 3, 7, 16}
    BY <2>1, <2>2 DEF NextCmd
  <2>5. pc' = "idle" => Unit' /\ kind' # "none"
    <3>1. pc' = "idle" => cmd \in {7, 16} /\ ok
      BY <2>1, <2>2 DEF NextCmd
    <3> QED BY <2>1, <2>3, <3>1 DEF SetsUp, Unit
  <2>6. pc' \in {"init", "off", "idle"} /\ clock' \in {clock, Divisor(Normal)}
    BY <2>1, <2>2
  <2>7. CallInv'
    BY <1>2, <1>3, <2>1, <2>3, <2>4, <2>5, <2>6, DivisorType DEF TypeOK
  <2> QED BY <2>1, <2>3, <2>6, <2>7 DEF Working, SetsUp
<1>6. CASE CheckVoltage
  <2>1. /\ pc = "init" /\ SetsUp /\ polls < MaxPolls
        /\ cmd' = 55 /\ UNCHANGED <<pc, sdhc, clock, polls, callVars>>
    BY <1>2, <1>6 DEF CheckVoltage, Inv, CallInv, Counts
  <2>2. PICK ok \in BOOLEAN : SendCmd(8, 0, ok) /\ v2' = ok
    BY <1>6 DEF CheckVoltage
  <2>3. /\ CardTypeOK' /\ card'.phase \in SetUp /\ xfer' = NoXfer /\ sectors' = sectors
    BY <1>2, <2>1, <2>2, SetUpCommand DEF SetsUp
  <2>4. CallInv'
    BY <1>2, <1>3, <2>1, <2>2, <2>3 DEF TypeOK
  <2> QED BY <2>1, <2>3, <2>4 DEF Working, SetsUp
<1>7. CASE PowerUp
  <2> DEFINE arg == IF v2 THEN HCS ELSE 0
  <2>1. /\ pc = "init" /\ SetsUp /\ polls < MaxPolls
        /\ UNCHANGED <<v2, clock, callVars>>
    BY <1>2, <1>7 DEF PowerUp, Inv, CallInv, Counts
  <2>2. PICK ok \in BOOLEAN :
         /\ SendCmd(41, arg, ok)
         /\ \/ ~ok /\ pc' = "off" /\ UNCHANGED <<cmd, polls, sdhc>>
            \/ /\ ok /\ card'.phase = "ready"
               /\ cmd' = 2 /\ sdhc' = (kind = "hc") /\ UNCHANGED <<pc, polls>>
            \/ /\ ok /\ card'.phase # "ready"
               /\ cmd' = 55 /\ polls' = polls + 1
               /\ pc' = IF LastPoll THEN "off" ELSE pc
               /\ UNCHANGED sdhc
    BY <1>7 DEF PowerUp
  <2> HIDE DEF arg
  <2>3. /\ CardTypeOK' /\ card'.phase \in SetUp /\ xfer' = NoXfer /\ sectors' = sectors
    BY <1>2, <2>1, <2>2, SetUpCommand DEF SetsUp
  <2>4. /\ pc' \in {"init", "off"} /\ cmd' \in {cmd, 2, 55} /\ sdhc' \in {sdhc, TRUE, FALSE}
        /\ polls' \in {polls, polls + 1}
        /\ pc' = "init" => polls' # MaxPolls
    <3>1. polls # MaxPolls
      BY <1>2, <2>1, HostAssumption DEF TypeOK
    <3>2. LastPoll <=> polls + 1 = MaxPolls
      BY DEF LastPoll
    <3>3. sdhc' \in {sdhc, TRUE, FALSE}
      BY <2>2
    <3> QED BY <2>1, <2>2, <3>1, <3>2, <3>3
  <2>5. polls' \in 0 .. MaxPolls /\ (pc' = "init" => polls' < MaxPolls)
    BY <1>2, <2>1, <2>4, HostAssumption DEF TypeOK
  <2>6. cmd' \in {0, 8, 55, 41, 2, 3, 7, 16} /\ clock' \in 0 .. 1023
    BY <1>2, <2>1, <2>4 DEF TypeOK
  <2>7. v2' \in BOOLEAN /\ sdhc' \in BOOLEAN
    BY <1>2, <2>1, <2>4 DEF TypeOK
  <2>8. pc' \in {"init", "off", "idle"} /\ pc' # "idle"
    BY <2>4
  <2>9. CallInv'
    BY <1>3, <2>1, <2>3, <2>5, <2>6, <2>7, <2>8
  <2> QED BY <2>1, <2>3, <2>4, <2>9 DEF Working, SetsUp
<1> QED BY <1>4, <1>5, <1>6, <1>7

-----------------------------------------------------------------------------
(* A call. *)

\* A step of a call that moves no words leaves this to show.
LEMMA CallInvAt ==
  ASSUME CallInv, [Next]_vars, CardTypeOK', Shared', Counts', Clean',
         pc' \in {"idle", "lines", "ready", "send"}, pc \in Working,
         req'.op = "write" /\ pc' = "send" => card'.phase = "tran",
         UNCHANGED <<kind, cmd, v2, sdhc>>,
         clock' \in {clock, Divisor(Slow), Divisor(Normal)},
         polls' \in 0 .. MaxPolls, tries' \in 0 .. 1, req' \in Call, buf' \in Burst,
         ret' \in [op : {"none", "read", "write"}, ok : BOOLEAN, lba : Lba \cup {0},
                   val : Word, buf : Burst],
         open' \in BOOLEAN
  PROVE  CallInv'
<1>1. Inv'
  BY InvNext DEF CallInv
<1>2. clock' \in 0 .. 1023
  <2>1. clock \in 0 .. 1023
    BY DEF CallInv, TypeOK
  <2>2. Divisor(Slow) \in 0 .. 1023
    BY DivisorType
  <2>3. Divisor(Normal) \in 0 .. 1023
    BY DivisorType
  <2>4. clock' = clock \/ clock' = Divisor(Slow) \/ clock' = Divisor(Normal)
    OBVIOUS
  <2> QED BY ONLY <2>1, <2>2, <2>3, <2>4
<1>3. TypeOK'
  BY <1>2 DEF CallInv, TypeOK
<1>4. Served'
  BY DEF CallInv, Served, Unit
<1>5. Reading' /\ Writing'
  BY DEF Reading, Writing, Moving
<1> QED BY <1>1, <1>3, <1>4, <1>5 DEF CallInv

LEMMA CallInvBegin ==
  ASSUME CallInv, [Next]_vars, NEW lba \in Lba,
         ReadBlock(lba) \/ \E v \in Value : WriteBlock(lba, v)
  PROVE  CallInv'
<1>1. /\ pc = "idle" /\ buf' = <<>> /\ tries' = 0 /\ polls' = 0 /\ spoilt' = FALSE
      /\ ret' = NoRet /\ open' = Open
      /\ UNCHANGED <<kind, card, sectors, inhibit, xfer, int, cmd, v2, sdhc>>
  BY DEF ReadBlock, WriteBlock, Begin, cardVars
<1>2. 0 \in 0 .. MaxPolls /\ 0 < MaxPolls
  BY HostAssumption
<1>3. Shared' /\ CardTypeOK /\ Shared
  BY <1>1 DEF Shared, CallInv, TypeOK
<1>4. open' \in BOOLEAN /\ (~open' => Quiet' /\ card'.phase = "tran")
  <2>1. inhibit \in BOOLEAN
    BY <1>3 DEF CardTypeOK
  <2>2. Open \in BOOLEAN
    BY <2>1 DEF Open
  <2>3. ~Open => ~inhibit /\ xfer = NoXfer /\ card.phase = "tran"
    BY DEF Open
  <2> QED BY <1>1, <2>2, <2>3 DEF Quiet
<1>5. CASE ReadBlock(lba)
  <2>1. /\ req' = [op |-> "read", lba |-> lba, val |-> Garbage]
        /\ pc' = "send" /\ UNCHANGED <<resetting, clock>>
    BY <1>5 DEF ReadBlock, Begin
  <2>2. CardTypeOK'
    BY <1>1, <1>3, <2>1 DEF CardTypeOK
  <2>3. req' \in Call /\ req'.op = "read"
    BY <2>1 DEF Call, Word
  <2>4. Clean' /\ Counts'
    BY <1>1, <1>2, <1>4, <2>1, <2>3 DEF Clean, Counts
  <2> QED BY <1>1, <1>2, <1>3, <1>4, <2>1, <2>2, <2>3, <2>4, CallInvAt, NoRetType, EmptyBurst
          DEF Working
<1>6. ASSUME NEW v \in Value, WriteBlock(lba, v) PROVE CallInv'
  <2>1. /\ req' = [op |-> "write", lba |-> lba, val |-> v]
        /\ pc' = "lines" /\ resetting' = TRUE /\ clock' = Divisor(Slow)
    BY <1>6 DEF WriteBlock, Begin
  <2>2. CardTypeOK'
    BY <1>1, <1>3, <2>1 DEF CardTypeOK
  <2>3. req' \in Call /\ req'.op = "write"
    BY <2>1 DEF Call, Word
  <2>4. Clean' /\ Counts'
    BY <1>1, <1>2, <2>1, <2>3 DEF Clean, Counts
  <2> QED BY <1>1, <1>2, <1>3, <1>4, <2>1, <2>2, <2>3, <2>4, CallInvAt, NoRetType, EmptyBurst
          DEF Working
<1> QED BY <1>5, <1>6

LEMMA CallInvLines ==
  ASSUME CallInv, [Next]_vars, LinesPolled
  PROVE  CallInv'
<1>1. /\ pc = "lines" /\ pc' = "ready" /\ spoilt' = (spoilt \/ resetting)
      /\ UNCHANGED <<kind, card, sectors, inhibit, xfer, int, resetting, cmd, v2, sdhc, clock,
                     polls, tries, req, buf, ret, open>>
  BY DEF LinesPolled, cardVars, hostVars
<1>2. TypeOK /\ Shared /\ Counts /\ Clean
  BY DEF CallInv
<1>3. spoilt \in BOOLEAN /\ resetting \in BOOLEAN
  BY <1>2 DEF TypeOK, CardTypeOK
<1>4. spoilt' \in BOOLEAN /\ (~spoilt' => ~spoilt /\ ~resetting)
  BY <1>1, <1>3
<1>5. CardTypeOK' /\ Shared'
  BY <1>1, <1>2, <1>4 DEF TypeOK, CardTypeOK, Shared
<1>6. Counts' /\ Clean'
  BY <1>1, <1>2, <1>4 DEF Counts, Clean, Quiet
<1> QED BY <1>1, <1>2, <1>5, <1>6, CallInvAt DEF Working, TypeOK

\* An attempt has failed.
LEMMA CallInvFail ==
  ASSUME CallInv, [Next]_vars, Fail, pc \in {"ready", "send", "words", "done"},
         CardTypeOK', Shared', UNCHANGED <<kind, cmd, v2, sdhc, req, open>>,
         ~spoilt' => \/ req.op = "read" /\ open
                     \/ req.op = "write" /\ Quiet'
  PROVE  CallInv'
<1>1. TypeOK /\ Counts
  BY DEF CallInv
<1>2. 0 \in 0 .. MaxPolls /\ 0 < MaxPolls
  BY HostAssumption
<1>3. req.op \in {"read", "write"} /\ req.lba \in Lba /\ req.val \in Word
  BY <1>1 DEF TypeOK, Call
<1>4. CASE /\ tries = 0 /\ tries' = 1 /\ buf' = <<>> /\ polls' = 0 /\ UNCHANGED ret
           /\ \/ req.op = "read" /\ pc' = "send" /\ clock' = Divisor(Normal)
              \/ req.op = "write" /\ pc' = "ready" /\ UNCHANGED clock
  <2>1. Counts' /\ Clean'
    BY <1>2, <1>4 DEF Counts, Clean
  <2>2. pc \in Working /\ pc' \in {"send", "ready"} /\ (req'.op = "write" => pc' # "send")
    BY <1>4 DEF Working
  <2>3. clock' \in {clock, Divisor(Slow), Divisor(Normal)} /\ tries' \in 0 .. 1 /\ buf' \in Burst
    BY <1>4, EmptyBurst
  <2>4. /\ ret' \in [op : {"none", "read", "write"}, ok : BOOLEAN, lba : Lba \cup {0},
                     val : Word, buf : Burst]
        /\ req' \in Call /\ open' \in BOOLEAN /\ polls' \in 0 .. MaxPolls
    BY <1>1, <1>2, <1>4 DEF TypeOK
  <2> QED BY <2>1, <2>2, <2>3, <2>4, CallInvAt
<1>5. CASE tries = 1 /\ Return(FALSE) /\ UNCHANGED <<tries, buf, polls, clock>>
  <2>1. /\ pc' = "idle"
        /\ ret' = [op |-> req.op, ok |-> FALSE, lba |-> req.lba, val |-> req.val, buf |-> <<>>]
    BY <1>5 DEF Return
  <2>2. Counts' /\ Clean'
    BY <2>1 DEF Counts, Clean
  <2>3. ret' \in [op : {"none", "read", "write"}, ok : BOOLEAN, lba : Lba \cup {0},
                  val : Word, buf : Burst]
    BY <1>3, <2>1, EmptyBurst
  <2>4. pc \in Working
    BY DEF Working
  <2>5. /\ tries' \in 0 .. 1 /\ buf' \in Burst /\ req' \in Call /\ open' \in BOOLEAN
        /\ polls' \in 0 .. MaxPolls /\ clock' = clock
    BY <1>1, <1>5 DEF TypeOK
  <2> QED BY <2>1, <2>2, <2>3, <2>4, <2>5, CallInvAt
<1> QED BY <1>4, <1>5 DEF Fail

\* A command of a call leaves what the card and the controller share in order.
LEMMA CommandShared ==
  ASSUME CardTypeOK, Shared, NEW c \in {13, 17, 24}, NEW arg, NEW ok \in BOOLEAN,
         SendCmd(c, arg, ok), c = 24 => card.phase = "tran"
  PROVE  Shared'
<1>1. /\ \/ card' = card
         \/ /\ c # 13 /\ card.phase = "tran" /\ Sector(arg) \in Lba /\ xfer = NoXfer
            /\ card' = Started(c, arg)
      /\ xfer' = xfer \/ (c # 13 /\ xfer = NoXfer /\ xfer' = Begun(c))
  BY Command
<1>2. c # 13 => Begun(c) = [dir |-> IF c = 17 THEN "read" ELSE "write", fifo |-> <<>>, host |-> 0]
  BY DEF Begun, Data, Xfer
<1>3. Len(<<>>) = 0 /\ 0 <= Words /\ 0 < Words /\ 0 + 0 = 0
  BY EmptyBurst, CardAssumption
<1>4. CASE xfer' = xfer
  <2>1. CASE card' = card
    BY <1>4, <2>1 DEF Shared
  <2>2. CASE xfer = NoXfer /\ Sector(arg) \in Lba /\ card' = Started(c, arg)
    BY <1>3, <1>4, <2>2 DEF Shared, NoXfer, Started
  <2> QED BY <1>1, <2>1, <2>2
<1>5. CASE c # 13 /\ xfer = NoXfer /\ xfer' = Begun(c)
  <2>1. CASE card' = card
    BY <1>2, <1>3, <1>5, <2>1 DEF Shared
  <2>2. CASE Sector(arg) \in Lba /\ card' = Started(c, arg)
    BY <1>2, <1>3, <1>5, <2>2 DEF Shared, Started
  <2> QED BY <1>1, <2>1, <2>2
<1> QED BY <1>1, <1>4, <1>5

LEMMA CallInvReady ==
  ASSUME CallInv, [Next]_vars, WaitReady
  PROVE  /\ CallInv' /\ pc = "ready" /\ req.op = "write" /\ card' = card
         /\ pc' = "idle" /\ ~spoilt' => card.phase # "tran"
<1>1. PICK ok \in BOOLEAN :
         /\ SendCmd(13, 0, ok)
         /\ \/ ~ok /\ Fail
            \/ /\ ok /\ card.phase = "tran"
               /\ pc' = "send" /\ UNCHANGED <<clock, polls, tries, buf, ret>>
            \/ /\ ok /\ card.phase # "tran" /\ ~LastPoll
               /\ polls' = polls + 1 /\ UNCHANGED <<pc, clock, tries, buf, ret>>
            \/ ok /\ card.phase # "tran" /\ LastPoll /\ Fail
  BY DEF WaitReady
<1>2. pc = "ready" /\ UNCHANGED <<cmd, v2, sdhc, req, open>>
  BY DEF WaitReady
<1>3. TypeOK /\ CardTypeOK /\ Shared /\ Counts /\ Clean /\ Served /\ Inv
  BY DEF CallInv, TypeOK
<1>4. req.op = "write" /\ buf = <<>> /\ polls < MaxPolls
  BY <1>2, <1>3 DEF Counts
<1>5. /\ CardTypeOK' /\ kind' = kind /\ resetting' = resetting
      /\ card' = card /\ xfer' = xfer
      /\ spoilt => spoilt'
      /\ ok => inhibit' = inhibit
      /\ ~ok /\ ~Blocked(13) /\ Answers(13, 0) => spoilt'
  BY <1>1, <1>3, Command
<1>6. Shared'
  BY <1>1, <1>3, CommandShared
<1>7. Answers(13, 0)
  BY <1>2, <1>3 DEF Answers, Served, Inv, Works, InUse, Working
<1>8. ~spoilt' => ok /\ Quiet'
  <2>1. ~spoilt' => Quiet
    BY <1>2, <1>3, <1>4, <1>5 DEF Clean
  <2>2. Quiet => ~Blocked(13)
    BY DEF Quiet, Blocked
  <2>3. ~spoilt' => ok
    BY <1>5, <1>7, <2>1, <2>2
  <2> QED BY <1>5, <2>1, <2>3 DEF Quiet
<1>9. CASE Fail
  <2>1. CallInv'
    BY <1>2, <1>4, <1>5, <1>6, <1>8, <1>9, CallInvFail
  <2>2. ok => card.phase # "tran"
    BY <1>1, <1>2, <1>9 DEF Fail, Return
  <2> QED BY <1>2, <1>4, <1>5, <1>8, <2>1, <2>2
<1>10. CASE /\ card.phase = "tran"
            /\ pc' = "send" /\ UNCHANGED <<clock, polls, tries, buf, ret>>
  <2>1. Counts' /\ Clean'
    BY <1>2, <1>4, <1>8, <1>10 DEF Counts, Clean
  <2>2. CallInv'
    BY <1>2, <1>3, <1>5, <1>6, <1>10, <2>1, CallInvAt DEF Working, TypeOK
  <2> QED BY <1>2, <1>4, <1>5, <1>10, <2>2
<1>11. CASE ~LastPoll /\ polls' = polls + 1 /\ UNCHANGED <<pc, clock, tries, buf, ret>>
  <2>1. polls' \in 0 .. MaxPolls /\ polls' < MaxPolls
    BY <1>3, <1>4, <1>11, HostAssumption DEF LastPoll, TypeOK
  <2>2. Counts' /\ Clean'
    BY <1>2, <1>4, <1>8, <1>11, <2>1 DEF Counts, Clean
  <2>3. CallInv'
    BY <1>2, <1>3, <1>5, <1>6, <1>11, <2>1, <2>2, CallInvAt DEF Working, TypeOK
  <2> QED BY <1>2, <1>4, <1>5, <1>11, <2>3
<1> QED BY <1>1, <1>9, <1>10, <1>11

LEMMA CallInvSend ==
  ASSUME CallInv, [Next]_vars, SendData
  PROVE  /\ CallInv' /\ pc = "send"
         /\ pc' = "idle" /\ ~spoilt' => req.op = "read" /\ open
<1> DEFINE c == IF req.op = "read" THEN 17 ELSE 24
           arg == Argument(req.lba)
<1>1. PICK ok \in BOOLEAN :
         /\ SendCmd(c, arg, ok)
         /\ \/ ~ok /\ Fail
            \/ ok /\ pc' = "words" /\ UNCHANGED <<clock, polls, tries, buf, ret>>
  BY DEF SendData
<1>2. pc = "send" /\ UNCHANGED <<cmd, v2, sdhc, req, open>>
  BY DEF SendData
<1>3. TypeOK /\ CardTypeOK /\ Shared /\ Counts /\ Clean /\ Served /\ Writing /\ Inv
  BY DEF CallInv, TypeOK
<1>4. req.op \in {"read", "write"} /\ req.lba \in Lba /\ buf = <<>>
  BY <1>2, <1>3 DEF TypeOK, Call, Counts
<1>5. Sector(arg) = req.lba /\ kind # "none" /\ pc \in Working
  BY <1>2, <1>3, <1>4, SectorNamed DEF Served, Working
<1>6. req.op = "write" => card.phase = "tran"
  BY <1>2, <1>3 DEF Writing
<1>7. c \in {17, 24} /\ (req.op = "read" => c = 17) /\ (req.op = "write" => c = 24)
      /\ (c = 17 => req.op = "read")
  BY <1>4
<1> HIDE DEF c, arg
<1>8. /\ CardTypeOK' /\ kind' = kind /\ resetting' = resetting /\ sectors' = sectors
      /\ spoilt => spoilt'
      /\ ok => /\ int' = {} /\ xfer' = Begun(c) /\ card' = Started(c, arg)
      /\ ~ok /\ ~Blocked(c) /\ Answers(c, arg) => spoilt'
  BY <1>1, <1>3, <1>7, Command
<1>9. Shared'
  <2>1. c = 24 => card.phase = "tran"
    BY <1>4, <1>6, <1>7
  <2>2. c \in {13, 17, 24} /\ SendCmd(c, arg, ok)
    BY <1>1, <1>7
  <2> QED BY ONLY <1>3, <2>1, <2>2, ok \in BOOLEAN, CommandShared
<1>10. CASE ~ok /\ Fail
  <2>1. Quiet => ~Blocked(c)
    BY DEF Quiet, Blocked
  <2>2. card.phase = "tran" => Answers(c, arg)
    BY <1>4, <1>5, <1>7 DEF Answers, Data
  <2>3. ~spoilt' => ~(Quiet /\ card.phase = "tran")
    BY <1>8, <1>10, <2>1, <2>2
  <2>4. ~spoilt => \/ req.op = "read" /\ (~open => Quiet /\ card.phase = "tran")
                   \/ req.op = "write" /\ Quiet
    BY <1>2, <1>3, <1>4 DEF Clean
  <2>5. ~spoilt' => req.op = "read" /\ open
    <3>1. ~spoilt' => ~spoilt
      BY <1>8
    <3> QED BY <1>6, <2>3, <2>4, <3>1
  <2>6. CallInv'
    BY <1>2, <1>8, <1>9, <1>10, <2>5, CallInvFail
  <2> QED BY <1>2, <2>5, <2>6
<1>11. CASE ok /\ pc' = "words" /\ UNCHANGED <<clock, polls, tries, buf, ret>>
  <2>1. /\ card'.phase = IF c = 17 THEN "data" ELSE "rcv"
        /\ card'.lba = req.lba /\ card'.held = <<>> /\ int' = {}
        /\ xfer'.dir = (IF c = 17 THEN "read" ELSE "write") /\ xfer'.fifo = <<>> /\ xfer'.host = 0
    BY <1>5, <1>7, <1>8, <1>11 DEF Started, Begun, Xfer, Data
  <2>2. Len(<<>>) = 0 /\ 0 < Words
    BY EmptyBurst, CardAssumption
  <2>3. \A v : All(<<>>, v)
    BY <2>2 DEF All
  <2>4. buf' = <<>> /\ req' = req
    BY <1>2, <1>4, <1>11
  <2>5. Reading'
    BY <1>7, <2>1, <2>2, <2>3, <2>4 DEF Reading
  <2>6. Writing'
    BY <1>4, <1>7, <1>11, <2>1, <2>2, <2>3, <2>4 DEF Writing
  <2>7. Counts' /\ Clean'
    BY <1>11, <2>2, <2>4 DEF Counts, Clean
  <2>8. Served'
    BY <1>2, <1>3, <1>5, <1>8 DEF Served, Unit
  <2>9. TypeOK'
    BY <1>2, <1>3, <1>8, <1>11 DEF TypeOK
  <2>10. Inv'
    BY <1>3, InvNext
  <2>11. CallInv'
    BY <1>9, <2>5, <2>6, <2>7, <2>8, <2>9, <2>10 DEF CallInv
  <2> QED BY <1>2, <1>11, <2>11
<1> QED BY <1>1, <1>10, <1>11

\* A word is fetched.
LEMMA CallInvReadWord ==
  ASSUME CallInv, [Next]_vars, ReadWord
  PROVE  CallInv'
<1> DEFINE w == Head(xfer.fifo)
<1>1. /\ pc = "words" /\ req.op = "read" /\ xfer.dir = "read" /\ xfer.fifo # <<>>
      /\ buf' = Append(buf, w)
      /\ pc' = IF Len(buf') = Words THEN "done" ELSE pc
      /\ UNCHANGED <<kind, card, sectors, inhibit, int, resetting, spoilt>>
      /\ UNCHANGED <<cmd, v2, sdhc, clock, polls, tries, req, ret, open>>
      /\ xfer' = [xfer EXCEPT !.fifo = Tail(@), !.host = @ + 1]
  BY DEF ReadWord, ReadReady, Move, cardVars
<1>2. TypeOK /\ CardTypeOK /\ Shared /\ Counts /\ Clean /\ Served /\ Reading /\ Inv
  BY DEF CallInv, TypeOK
<1>3. /\ xfer.fifo \in Burst /\ xfer.host \in 0 .. Words /\ buf \in Burst /\ Len(buf) < Words
      /\ Len(xfer.fifo) + xfer.host <= Words
      /\ xfer' = [dir |-> "read", fifo |-> Tail(xfer.fifo), host |-> xfer.host + 1]
  BY <1>1, <1>2, CardShape DEF TypeOK, Shared, Counts
<1>4. /\ Tail(xfer.fifo) \in Burst /\ Len(Tail(xfer.fifo)) = Len(xfer.fifo) - 1 /\ w \in Word
      /\ w = xfer.fifo[1] /\ 1 <= Len(xfer.fifo)
      /\ \A i \in 1 .. Len(xfer.fifo) - 1 : Tail(xfer.fifo)[i] = xfer.fifo[i + 1]
  BY <1>1, <1>3, BurstLess
<1> HIDE DEF w
<1>5. /\ buf' \in Burst /\ Len(buf') = Len(buf) + 1 /\ buf'[Len(buf) + 1] = w
      /\ \A i \in 1 .. Len(buf) : buf'[i] = buf[i]
  BY <1>1, <1>3, <1>4, BurstMore
<1>6. Len(buf) \in Nat /\ Len(xfer.fifo) \in Nat /\ Words \in Nat /\ xfer.host \in Nat
  BY <1>3, BurstIsSeq, CardAssumption
<1>7. /\ xfer.host + 1 \in 0 .. Words
      /\ Len(Tail(xfer.fifo)) + (xfer.host + 1) <= Words
  BY <1>3, <1>4, <1>6
<1>8. TypeOK'
  <2>1. CardTypeOK'
    BY <1>1, <1>2, <1>3, <1>4, <1>7 DEF CardTypeOK
  <2> QED BY <1>1, <1>2, <1>5, <2>1 DEF TypeOK
<1>9. Shared'
  BY <1>1, <1>2, <1>3, <1>7 DEF Shared
<1>10. Counts'
  <2>1. Len(buf') <= Words
    BY <1>3, <1>5, <1>6
  <2> QED BY <1>1, <1>5, <1>6, <2>1 DEF Counts
<1>11. ASSUME NEW v, All(buf, v), All(xfer.fifo, v)
       PROVE  All(buf', v) /\ All(Tail(xfer.fifo), v)
  <2>1. w = v
    BY <1>4, <1>6, <1>11 DEF All
  <2>2. All(buf', v)
    BY <1>5, <1>6, <1>11, <2>1 DEF All
  <2>3. All(Tail(xfer.fifo), v)
    BY <1>4, <1>6, <1>11 DEF All
  <2> QED BY <2>2, <2>3
<1>12. Reading'
  <2>1. /\ card.phase \in {"data", "tran"} /\ xfer.host = Len(buf)
        /\ card.phase = "data" => card.lba = req.lba
        /\ "error" \in int \/ (All(buf, sectors[req.lba]) /\ All(xfer.fifo, sectors[req.lba]))
    BY <1>1, <1>2 DEF Reading, Moving
  <2>2. "error" \in int \/ (All(buf', sectors[req.lba]) /\ All(Tail(xfer.fifo), sectors[req.lba]))
    BY <1>11, <2>1
  <2> QED BY <1>1, <1>3, <1>5, <2>1, <2>2 DEF Reading
<1>13. Writing' /\ Clean' /\ Served'
  BY <1>1, <1>2 DEF Writing, Clean, Served, Unit, Working
<1>14. Inv'
  BY <1>2, InvNext
<1> QED BY <1>8, <1>9, <1>10, <1>12, <1>13, <1>14 DEF CallInv

\* A word is sent.
LEMMA CallInvWriteWord ==
  ASSUME CallInv, [Next]_vars, WriteWord
  PROVE  /\ CallInv' /\ card.phase = "rcv" /\ card.lba = req.lba
         /\ All(card.held, req.val) /\ All(xfer'.fifo, req.val)
         /\ Len(card.held) + Len(xfer.fifo) = Len(buf)
         /\ Len(card.held) + Len(xfer'.fifo) = Len(buf')
         /\ Len(buf) < Words /\ Len(buf') = Len(buf) + 1 /\ xfer.dir = "write" /\ xfer'.dir = "write"
<1>1. /\ pc = "words" /\ req.op = "write" /\ xfer.dir = "write" /\ xfer.host < Words
      /\ buf' = Append(buf, req.val)
      /\ pc' = IF Len(buf') = Words THEN "done" ELSE pc
      /\ UNCHANGED <<kind, card, sectors, inhibit, int, resetting, spoilt>>
      /\ UNCHANGED <<cmd, v2, sdhc, clock, polls, tries, req, ret, open>>
      /\ xfer' = [xfer EXCEPT !.fifo = Append(@, req.val), !.host = @ + 1]
  BY DEF WriteWord, WriteReady, Move, cardVars
<1>2. TypeOK /\ CardTypeOK /\ Shared /\ Counts /\ Clean /\ Served /\ Writing /\ Inv
  BY DEF CallInv, TypeOK
<1>3. /\ xfer.fifo \in Burst /\ xfer.host \in 0 .. Words /\ buf \in Burst /\ Len(buf) < Words
      /\ card.held \in Burst /\ req.val \in Word
      /\ xfer' = [dir |-> "write", fifo |-> Append(xfer.fifo, req.val), host |-> xfer.host + 1]
  BY <1>1, <1>2, CardShape DEF TypeOK, Counts, Call
<1>4. /\ card.phase = "rcv" /\ card.lba = req.lba /\ All(card.held, req.val)
      /\ xfer.host = Len(buf) /\ All(xfer.fifo, req.val) /\ "done" \notin int
      /\ Len(card.held) + Len(xfer.fifo) = xfer.host
  BY <1>1, <1>2 DEF Writing, Moving, Shared
<1>5. /\ Len(buf) \in Nat /\ Len(xfer.fifo) \in Nat /\ Len(card.held) \in Nat
      /\ Words \in Nat /\ xfer.host \in Nat
  BY <1>3, BurstIsSeq, CardAssumption
<1> DEFINE had  == Len(card.held)
           left == Len(xfer.fifo)
<1>0. had \in Nat /\ left \in Nat /\ had + left = xfer.host /\ xfer.host < Words
  BY <1>1, <1>4, <1>5
<1> HIDE DEF had, left
<1>6. Len(xfer.fifo) < Words
  <2>1. left < Words
    BY <1>5, <1>0
  <2> QED BY <2>1 DEF left
<1>7. /\ buf' \in Burst /\ Len(buf') = Len(buf) + 1
  BY <1>1, <1>3, BurstMore
<1>8. /\ Append(xfer.fifo, req.val) \in Burst
      /\ Len(Append(xfer.fifo, req.val)) = Len(xfer.fifo) + 1
      /\ Append(xfer.fifo, req.val)[Len(xfer.fifo) + 1] = req.val
      /\ \A i \in 1 .. Len(xfer.fifo) : Append(xfer.fifo, req.val)[i] = xfer.fifo[i]
  BY <1>3, <1>6, BurstMore
<1>9. All(Append(xfer.fifo, req.val), req.val)
  BY <1>4, <1>5, <1>8 DEF All
<1>10. xfer.host + 1 \in 0 .. Words
  BY <1>1, <1>5
<1>11. TypeOK'
  <2>1. CardTypeOK'
    BY <1>1, <1>2, <1>3, <1>8, <1>10 DEF CardTypeOK
  <2> QED BY <1>1, <1>2, <1>7, <2>1 DEF TypeOK
<1>12. Shared'
  <2>1. Len(card.held) + Len(Append(xfer.fifo, req.val)) = xfer.host + 1
    <3>1. had + (left + 1) = xfer.host + 1
      BY <1>5, <1>0
    <3> QED BY <1>8, <3>1 DEF had, left
  <2> QED BY <1>1, <1>2, <1>3, <1>4, <2>1 DEF Shared
<1>13. Counts'
  <2>1. Len(buf') <= Words
    BY <1>3, <1>5, <1>7
  <2> QED BY <1>1, <1>5, <1>7, <2>1 DEF Counts
<1>14. Writing'
  BY <1>1, <1>3, <1>4, <1>7, <1>9 DEF Writing
<1>15. Reading' /\ Clean' /\ Served'
  BY <1>1, <1>2 DEF Reading, Clean, Served, Unit, Working
<1>16. Inv'
  BY <1>2, InvNext
<1>17. CallInv'
  BY <1>11, <1>12, <1>13, <1>14, <1>15, <1>16 DEF CallInv
<1>18. Len(card.held) + Len(xfer'.fifo) = Len(buf')
  <2>1. had + (left + 1) = xfer.host + 1
    BY <1>5, <1>0
  <2>2. Len(xfer'.fifo) = left + 1
    BY <1>3, <1>8 DEF left
  <2> QED BY <1>4, <1>7, <2>1, <2>2 DEF had
<1> QED BY <1>1, <1>3, <1>4, <1>7, <1>9, <1>17, <1>18

\* The driver gives up, or finishes.
LEMMA CallInvTimeOut ==
  ASSUME CallInv, [Next]_vars, TimeOut
  PROVE  CallInv'
<1>1. /\ pc \in {"words", "done"} /\ Fail /\ spoilt' = TRUE
      /\ UNCHANGED <<kind, card, sectors, inhibit, xfer, int, resetting, cmd, v2, sdhc, req, open>>
  BY DEF TimeOut, cardVars, hostVars
<1>2. CardTypeOK' /\ Shared'
  BY <1>1 DEF CallInv, TypeOK, CardTypeOK, Shared
<1> QED BY <1>1, <1>2, CallInvFail

LEMMA CallInvFinish ==
  ASSUME CallInv, [Next]_vars, Finish
  PROVE  CallInv'
<1>1. /\ pc = "done" /\ pc' = "idle" /\ int' = int \ {"done"}
      /\ ret' = [op |-> req.op, ok |-> TRUE, lba |-> req.lba, val |-> req.val, buf |-> buf]
      /\ UNCHANGED <<kind, card, sectors, inhibit, xfer, resetting, spoilt>>
      /\ UNCHANGED <<cmd, v2, sdhc, clock, polls, tries, req, buf, open>>
  BY DEF Finish, Return, cardVars
<1>2. TypeOK /\ CardTypeOK /\ Shared
  BY DEF CallInv, TypeOK
<1>3. CardTypeOK' /\ Shared'
  BY <1>1, <1>2 DEF CardTypeOK, Shared
<1>4. Counts' /\ Clean'
  BY <1>1 DEF Counts, Clean
<1>5. ret' \in [op : {"none", "read", "write"}, ok : BOOLEAN, lba : Lba \cup {0},
                val : Word, buf : Burst]
  <2>1. req.op \in {"read", "write"} /\ req.lba \in Lba /\ req.val \in Word /\ buf \in Burst
    BY <1>2 DEF TypeOK, Call
  <2> QED BY <1>1, <2>1
<1>6. /\ polls' \in 0 .. MaxPolls /\ tries' \in 0 .. 1 /\ req' \in Call /\ buf' \in Burst
      /\ open' \in BOOLEAN /\ clock' = clock
  BY <1>1, <1>2 DEF TypeOK
<1> QED BY <1>1, <1>3, <1>4, <1>5, <1>6, CallInvAt DEF Working

-----------------------------------------------------------------------------
(* The device. *)

\* A step of the device leaves this to show.
LEMMA CallInvBeside ==
  ASSUME CallInv, [Next]_vars, UNCHANGED driver, CardTypeOK', Shared', kind' = kind,
         pc = "send" /\ req.op = "write" => card'.phase = card.phase,
         Moving /\ req.op = "read" => Reading', Moving /\ req.op = "write" => Writing', Clean'
  PROVE  CallInv'
<1>1. UNCHANGED <<pc, cmd, v2, sdhc, clock, polls, tries, req, buf, ret, open>>
  BY DEF driver
<1>2. TypeOK'
  BY <1>1 DEF CallInv, TypeOK
<1>3. Served' /\ Counts'
  BY <1>1 DEF CallInv, Served, Counts, Unit
<1>4. Reading'
  BY <1>1 DEF Reading, Moving
<1>5. Writing'
  BY <1>1 DEF CallInv, Writing, Moving
<1>6. Inv'
  BY InvNext DEF CallInv
<1> QED BY <1>2, <1>3, <1>4, <1>5, <1>6 DEF CallInv

LEMMA CallInvCardSends ==
  ASSUME CallInv, [Next]_vars, CardSends, UNCHANGED driver
  PROVE  CallInv'
<1>1. /\ card.phase = "data"
      /\ card' = [card EXCEPT !.count = @ + 1,
                              !.phase = IF card.count + 1 = Words THEN "tran" ELSE @]
      /\ UNCHANGED <<kind, sectors, inhibit, resetting>>
      /\ \/ /\ xfer.dir = "read" /\ Len(xfer.fifo) + xfer.host = card.count
            /\ \/ Intact /\ xfer' = [xfer EXCEPT !.fifo = Append(@, sectors[card.lba])]
               \/ Spoils /\ xfer' = [xfer EXCEPT !.fifo = Append(@, Garbage)]
         \/ Intact /\ UNCHANGED xfer
  BY DEF CardSends
<1>2. TypeOK /\ CardTypeOK /\ Shared /\ Reading /\ Writing /\ Clean
  BY DEF CallInv, TypeOK
<1>3. UNCHANGED <<pc, req, buf, open>>
  BY DEF driver
<1>4. /\ card.lba \in Lba /\ card.count \in 0 .. Words /\ card.count < Words /\ Words \in Nat
      /\ xfer.fifo \in Burst /\ xfer.host \in 0 .. Words /\ xfer.dir # "write"
      /\ sectors[card.lba] \in Word /\ card.held \in Burst
  BY <1>1, <1>2, CardShape, CardAssumption DEF Shared, CardTypeOK
<1>5. card' = [phase |-> IF card.count + 1 = Words THEN "tran" ELSE "data", lba |-> card.lba,
               count |-> card.count + 1, held |-> card.held]
  BY <1>1, <1>2, CardShape
<1>6. card.count + 1 \in 0 .. Words /\ (card.count + 1 # Words => card.count + 1 < Words)
  BY <1>4
<1>7. Len(xfer.fifo) \in Nat /\ xfer.host \in Nat
  BY <1>4, BurstIsSeq
<1>8. \/ xfer' = xfer /\ UNCHANGED <<spoilt, int>>
      \/ \E w \in Word :
            /\ xfer.dir = "read" /\ Len(xfer.fifo) + xfer.host = card.count
            /\ xfer' = [xfer EXCEPT !.fifo = Append(@, w)]
            /\ \/ UNCHANGED <<spoilt, int>> /\ w = sectors[card.lba]
               \/ spoilt' = TRUE /\ int' = int \cup {"error"}
  <2>1. Garbage \in Word
    BY DEF Word
  <2> QED BY <1>1, <1>4, <2>1 DEF Intact, Spoils
<1>9. /\ pc = "send" => req.op # "write"
      /\ Moving /\ req.op = "write" => FALSE
  BY <1>1, <1>2 DEF Writing
<1>10. CASE xfer' = xfer /\ UNCHANGED <<spoilt, int>>
  <2>1. CardTypeOK'
    BY <1>1, <1>2, <1>4, <1>5, <1>6, <1>10 DEF CardTypeOK, Phase
  <2>2. Shared'
    BY <1>2, <1>4, <1>5, <1>6, <1>10 DEF Shared
  <2>3. Moving /\ req.op = "read" => Reading'
    BY <1>1, <1>2, <1>3, <1>5, <1>10 DEF Reading, Moving
  <2>4. Clean'
    BY <1>1, <1>2, <1>3, <1>5, <1>9, <1>10 DEF Clean, Quiet
  <2> QED BY <1>1, <1>9, <2>1, <2>2, <2>3, <2>4, CallInvBeside
<1>11. ASSUME NEW w \in Word, xfer.dir = "read", Len(xfer.fifo) + xfer.host = card.count,
              xfer' = [xfer EXCEPT !.fifo = Append(@, w)],
              \/ UNCHANGED <<spoilt, int>> /\ w = sectors[card.lba]
              \/ spoilt' = TRUE /\ int' = int \cup {"error"}
       PROVE  CallInv'
  <2> DEFINE left == Len(xfer.fifo)
  <2>1. left < Words /\ left + 1 + xfer.host = card.count + 1 /\ left + 1 + xfer.host <= Words
    <3>1. left \in Nat /\ left + xfer.host = card.count
      BY <1>7, <1>11
    <3>2. card.count < Words /\ Words \in Nat /\ card.count \in Nat /\ xfer.host \in Nat
      BY <1>4, <1>7
    <3> HIDE DEF left
    <3> QED BY <3>1, <3>2
  <2>2. xfer' = [dir |-> "read", fifo |-> Append(xfer.fifo, w), host |-> xfer.host]
    BY <1>2, <1>11, CardShape
  <2>3. /\ Append(xfer.fifo, w) \in Burst /\ Len(Append(xfer.fifo, w)) = left + 1
        /\ Append(xfer.fifo, w)[left + 1] = w
        /\ \A i \in 1 .. left : Append(xfer.fifo, w)[i] = xfer.fifo[i]
    BY <1>4, <2>1, BurstMore
  <2> HIDE DEF left
  <2>4. spoilt' \in BOOLEAN /\ int' \subseteq {"done", "error"}
    BY <1>2, <1>11 DEF CardTypeOK
  <2>5. CardTypeOK'
    BY <1>1, <1>2, <1>4, <1>5, <1>6, <2>2, <2>3, <2>4 DEF CardTypeOK, Phase
  <2>6. Shared'
    <3>1. Len(Append(xfer.fifo, w)) + xfer.host <= Words
      BY <2>1, <2>3
    <3> QED BY <1>2, <1>4, <1>5, <1>6, <2>2, <3>1 DEF Shared
  <2>7. ASSUME NEW v, All(xfer.fifo, v), w = v PROVE All(Append(xfer.fifo, w), v)
    <3>1. left \in Nat /\ \A i \in 1 .. left : xfer.fifo[i] = v
      BY <1>7, <2>7 DEF left, All
    <3>2. \A i \in 1 .. left + 1 : i = left + 1 \/ i \in 1 .. left
      BY <3>1
    <3> QED BY <2>3, <2>7, <3>1, <3>2 DEF All
  <2>8. Moving /\ req.op = "read" => Reading'
    <3> SUFFICES ASSUME Moving, req.op = "read" PROVE Reading'
      OBVIOUS
    <3>1. /\ card.lba = req.lba /\ xfer.host = Len(buf)
          /\ "error" \in int \/ (All(buf, sectors[req.lba]) /\ All(xfer.fifo, sectors[req.lba]))
      BY <1>1, <1>2, <1>11 DEF Reading
    <3>2. \/ "error" \in int'
          \/ All(buf, sectors[req.lba]) /\ All(Append(xfer.fifo, w), sectors[req.lba])
      <4>1. CASE "error" \in int
        BY <1>11, <4>1
      <4>2. CASE w = sectors[card.lba] /\ All(buf, sectors[req.lba]) /\ All(xfer.fifo, sectors[req.lba])
        BY <2>7, <3>1, <4>2
      <4>3. CASE int' = int \cup {"error"}
        BY <4>3
      <4> QED BY <1>11, <3>1, <4>1, <4>2, <4>3
    <3> QED BY <1>1, <1>3, <1>5, <2>2, <3>1, <3>2 DEF Reading
  <2>9. Clean'
    <3>1. ~spoilt' => ~spoilt
      BY <1>2, <1>11 DEF CardTypeOK
    <3>2. xfer # NoXfer
      BY <1>11 DEF NoXfer
    <3> QED BY <1>1, <1>2, <1>3, <3>1, <3>2 DEF Clean, Quiet
  <2> QED BY <1>1, <1>9, <2>5, <2>6, <2>8, <2>9, CallInvBeside
<1> QED BY <1>8, <1>10, <1>11

LEMMA CallInvLinesReset ==
  ASSUME CallInv, [Next]_vars, LinesReset \/ ReadDone, UNCHANGED driver
  PROVE  CallInv'
<1>1. /\ UNCHANGED <<kind, card, sectors, spoilt>> /\ xfer' = NoXfer
      /\ inhibit' = inhibit \/ inhibit' = FALSE
      /\ resetting' = resetting \/ LinesReset
      /\ int' = int \/ (xfer.dir = "read" /\ int' = int \cup {"done"})
      /\ LinesReset => inhibit' = FALSE
      /\ LinesReset \/ (xfer.dir = "read" /\ inhibit' = inhibit)
      /\ resetting' \in {resetting, FALSE}
  BY DEF LinesReset, ReadDone, cardVars
<1>2. TypeOK /\ CardTypeOK /\ Shared /\ Reading /\ Writing /\ Clean
  BY DEF CallInv, TypeOK
<1>3. UNCHANGED <<pc, req, buf, open>>
  BY DEF driver
<1>4. CardTypeOK'
  <2>1. /\ inhibit' \in BOOLEAN /\ resetting' \in BOOLEAN /\ int' \subseteq {"done", "error"}
    BY <1>1, <1>2 DEF CardTypeOK
  <2> QED BY <1>1, <1>2, <2>1, XferType DEF CardTypeOK
<1>5. Shared'
  BY <1>1, <1>2 DEF Shared, NoXfer
<1>6. Moving /\ req.op = "read" => Reading'
  BY <1>1, <1>2, <1>3 DEF Reading, Moving, NoXfer
<1>7. Moving /\ req.op = "write" => Writing'
  BY <1>1, <1>2, <1>3 DEF Writing, Moving, NoXfer
<1>8. Clean'
  <2>1. CASE LinesReset
    BY <1>1, <1>2, <1>3, <2>1 DEF Clean, Quiet
  <2>2. CASE xfer.dir = "read" /\ inhibit' = inhibit /\ ReadDone
    <3>1. xfer # NoXfer /\ resetting' = resetting
      BY <2>2 DEF NoXfer, ReadDone
    <3> QED BY <1>1, <1>2, <1>3, <2>2, <3>1 DEF Clean, Quiet
  <2> QED BY <1>1, <2>1, <2>2
<1> QED BY <1>1, <1>4, <1>5, <1>6, <1>7, <1>8, CallInvBeside

LEMMA HeldAll ==
  ASSUME NEW b \in Burst, 1 <= Len(b)
  PROVE  /\ Held(b) \in Word
         /\ \A v : All(b, v) => Held(b) = v
<1>1. b \in Seq(Word) /\ Len(b) \in Nat /\ DOMAIN b = 1 .. Len(b)
  BY BurstIsSeq
<1>2. 1 \in 1 .. Len(b) /\ b[1] \in Word
  BY <1>1
<1>3. Held(b) \in Word
  BY <1>2 DEF Held, Word
<1>4. ASSUME NEW v, All(b, v) PROVE Held(b) = v
  <2>1. \A i \in 1 .. Len(b) : b[i] = v
    BY <1>4 DEF All
  <2>2. \A i \in DOMAIN b : b[i] = b[1]
    BY <1>1, <1>2, <2>1
  <2> QED BY <1>2, <2>1, <2>2 DEF Held
<1> QED BY <1>3, <1>4

\* A word reaches the card.
LEMMA CallInvCardTakes ==
  ASSUME CallInv, [Next]_vars, CardTakes, UNCHANGED driver
  PROVE  /\ CallInv'
         /\ sectors' = sectors
         /\ \/ /\ UNCHANGED int /\ card'.phase \in {"rcv", "prg"} /\ card'.lba = card.lba
               /\ card'.held = Append(card.held, Head(xfer.fifo))
               /\ xfer'.dir = "write" /\ xfer'.fifo = Tail(xfer.fifo)
            \/ card'.phase = "tran"
<1> DEFINE w    == Head(xfer.fifo)
           more == Append(card.held, w)
<1>1. /\ card.phase = "rcv" /\ xfer.dir = "write" /\ xfer.fifo # <<>>
      /\ UNCHANGED <<kind, sectors, inhibit, resetting>>
      /\ \/ /\ card' = [card EXCEPT !.held = more,
                                    !.phase = IF Len(more) = Words THEN "prg" ELSE @]
            /\ xfer' = [xfer EXCEPT !.fifo = Tail(@)]
            /\ UNCHANGED <<spoilt, int>>
         \/ /\ Len(more) = Words
            /\ card' = [card EXCEPT !.phase = "tran", !.held = <<>>]
            /\ xfer' = NoXfer
            /\ \E done \in {{}, {"done"}} : int' = int \cup {"error"} \cup done
            /\ spoilt' = TRUE
  BY DEF CardTakes, Intact
<1>2. TypeOK /\ CardTypeOK /\ Shared /\ Counts /\ Reading /\ Writing /\ Clean
  BY DEF CallInv, TypeOK
<1>3. UNCHANGED <<pc, req, buf, open>>
  BY DEF driver
<1>4. /\ card.held \in Burst /\ Len(card.held) < Words /\ xfer.fifo \in Burst
      /\ card.lba \in Lba /\ xfer.host \in 0 .. Words /\ card.count \in 0 .. Words
      /\ Len(card.held) + Len(xfer.fifo) = xfer.host
      /\ xfer.fifo \in Seq(Word)
  BY <1>1, <1>2, CardShape, BurstIsSeq DEF Shared
<1>5. /\ Tail(xfer.fifo) \in Burst /\ Len(Tail(xfer.fifo)) = Len(xfer.fifo) - 1
      /\ w \in Word /\ w = xfer.fifo[1] /\ 1 <= Len(xfer.fifo)
      /\ \A i \in 1 .. Len(xfer.fifo) - 1 : Tail(xfer.fifo)[i] = xfer.fifo[i + 1]
  BY <1>1, <1>4, BurstLess
<1> HIDE DEF w
<1>6. /\ more \in Burst /\ Len(more) = Len(card.held) + 1 /\ more[Len(card.held) + 1] = w
      /\ \A i \in 1 .. Len(card.held) : more[i] = card.held[i]
  BY <1>4, <1>5, BurstMore
<1> HIDE DEF more
<1> DEFINE had  == Len(card.held)
           left == Len(xfer.fifo)
           now  == Len(more)
           rest == Len(Tail(xfer.fifo))
<1>7. /\ had \in Nat /\ left \in Nat /\ had + left = xfer.host /\ 1 <= left
      /\ now = had + 1 /\ rest = left - 1 /\ had < Words
      /\ Words \in Nat /\ xfer.host \in Nat /\ xfer.host <= Words
  <2>1. had \in Nat
    BY <1>4, BurstIsSeq
  <2>2. left \in Nat
    BY <1>4, BurstIsSeq
  <2>3. Words \in Nat
    BY CardAssumption
  <2>4. xfer.host \in Nat /\ xfer.host <= Words
    BY <1>4, <2>3
  <2>5. had + left = xfer.host /\ had < Words
    BY <1>4
  <2> QED BY <1>5, <1>6, <2>1, <2>2, <2>3, <2>4, <2>5
<1>8. ASSUME Moving PROVE req.op = "write"
  <2>1. req.op \in {"read", "write"}
    BY <1>2 DEF TypeOK, Call
  <2> QED BY <1>1, <1>2, <1>8, <2>1 DEF Reading
<1>9. pc = "send" => req.op # "write"
  BY <1>1, <1>2 DEF Writing
<1>10. CASE /\ card' = [card EXCEPT !.held = more,
                                    !.phase = IF Len(more) = Words THEN "prg" ELSE @]
            /\ xfer' = [xfer EXCEPT !.fifo = Tail(@)]
            /\ UNCHANGED <<spoilt, int>>
  <2>1. card' = [phase |-> IF Len(more) = Words THEN "prg" ELSE "rcv", lba |-> card.lba,
                 count |-> card.count, held |-> more]
    BY <1>1, <1>2, <1>10, CardShape
  <2>2. xfer' = [dir |-> "write", fifo |-> Tail(xfer.fifo), host |-> xfer.host]
    BY <1>1, <1>2, <1>10, CardShape
  <2>3. CardTypeOK'
    BY <1>1, <1>2, <1>4, <1>5, <1>6, <1>10, <2>1, <2>2 DEF CardTypeOK, Phase
  <2>4. Shared'
    <3> HIDE DEF had, left, now, rest
    <3>1. now # Words => now < Words
      BY <1>7
    <3>2. now + rest = xfer.host
      BY <1>7
    <3>3. now = Words => Tail(xfer.fifo) = <<>>
      <4>1. now = Words => rest = 0
        BY <1>7
      <4>2. Tail(xfer.fifo) \in Seq(Word)
        BY <1>5, BurstIsSeq
      <4>3. \A q \in Seq(Word) : Len(q) = 0 => q = <<>>
        OBVIOUS
      <4>4. rest = 0 => Tail(xfer.fifo) = <<>>
        BY <4>2, <4>3 DEF rest
      <4> QED BY <4>1, <4>4
    <3>4. /\ Len(more) # Words => Len(more) < Words
          /\ Len(more) + Len(Tail(xfer.fifo)) = xfer.host
          /\ Len(more) = Words => Tail(xfer.fifo) = <<>>
      BY <3>1, <3>2, <3>3 DEF now, rest
    <3> QED BY <1>4, <2>1, <2>2, <3>4 DEF Shared
  <2>5. ASSUME Moving PROVE Writing'
    <3>1. /\ card.lba = req.lba /\ All(card.held, req.val) /\ xfer.host = Len(buf)
          /\ All(xfer.fifo, req.val) /\ "done" \notin int
      BY <1>1, <1>2, <1>8, <2>5 DEF Writing
    <3>2. w = req.val
      BY <1>5, <1>7, <3>1 DEF All
    <3>3. All(more, req.val)
      <4>1. \A i \in 1 .. had + 1 : i = had + 1 \/ i \in 1 .. had
        BY <1>7
      <4> QED BY <1>6, <1>7, <3>1, <3>2, <4>1 DEF All
    <3>4. All(Tail(xfer.fifo), req.val)
      BY <1>5, <1>7, <3>1 DEF All
    <3>5. pc = "words" => Len(more) # Words
      <4>1. pc = "words" => xfer.host < Words
        BY <1>2, <3>1 DEF Counts
      <4> HIDE DEF had, left, now, rest
      <4>2. pc = "words" => now # Words
        BY <1>7, <4>1
      <4> QED BY <4>2 DEF now
    <3>6. /\ card'.phase = (IF now = Words THEN "prg" ELSE "rcv")
          /\ card'.lba = req.lba /\ card'.held = more
          /\ xfer'.dir = "write" /\ xfer'.host = Len(buf) /\ xfer'.fifo = Tail(xfer.fifo)
          /\ pc = "words" => now # Words
      BY <2>1, <2>2, <3>1, <3>5
    <3>7. /\ req' = req /\ pc' = pc /\ buf' = buf /\ pc \in {"words", "done"} /\ "done" \notin int'
      BY <1>3, <1>10, <2>5, <3>1 DEF Moving
    <3> HIDE DEF had, left, now, rest
    <3> QED BY <3>3, <3>4, <3>6, <3>7 DEF Writing
  <2>6. Clean'
    <3>1. xfer # NoXfer
      BY <1>1 DEF NoXfer
    <3> QED BY <1>1, <1>2, <1>3, <1>10, <3>1 DEF Clean, Quiet
  <2>7. CallInv'
    BY <1>1, <1>8, <1>9, <2>3, <2>4, <2>5, <2>6, CallInvBeside
  <2> QED BY <1>1, <1>10, <2>1, <2>2, <2>7 DEF w, more
<1>11. CASE /\ Len(more) = Words
            /\ card' = [card EXCEPT !.phase = "tran", !.held = <<>>]
            /\ xfer' = NoXfer
            /\ \E done \in {{}, {"done"}} : int' = int \cup {"error"} \cup done
            /\ spoilt' = TRUE
  <2>1. card' = [phase |-> "tran", lba |-> card.lba, count |-> card.count, held |-> <<>>]
    BY <1>2, <1>11, CardShape
  <2>2. int' \subseteq {"done", "error"} /\ "error" \in int'
    BY <1>2, <1>11 DEF CardTypeOK
  <2>3. CardTypeOK'
    BY <1>1, <1>2, <1>4, <1>11, <2>1, <2>2, EmptyBurst, XferType DEF CardTypeOK, Phase
  <2>4. Shared'
    BY <1>11, <2>1 DEF Shared, NoXfer
  <2>5. ASSUME Moving PROVE Writing'
    <3>1. pc # "words"
      <4>1. xfer.host = Len(buf)
        BY <1>1, <1>2, <1>8, <2>5 DEF Writing
      <4>2. pc = "words" => xfer.host < Words
        BY <1>2, <4>1 DEF Counts
      <4>3. now = Words
        BY <1>11
      <4> HIDE DEF had, left, now, rest
      <4>4. xfer.host >= Words
        BY <1>7, <4>3
      <4> QED BY <1>7, <4>2, <4>4
    <3> QED BY <1>3, <1>8, <1>11, <2>1, <2>2, <2>5, <3>1 DEF Writing, Moving, NoXfer
  <2>6. Clean'
    BY <1>11 DEF Clean
  <2>7. CallInv'
    BY <1>1, <1>8, <1>9, <2>3, <2>4, <2>5, <2>6, CallInvBeside
  <2> QED BY <1>1, <2>1, <2>7
<1> QED BY <1>1, <1>10, <1>11

\* The card has programmed a sector.
LEMMA CallInvCardStores ==
  ASSUME CallInv, [Next]_vars, CardStores, UNCHANGED driver
  PROVE  CallInv'
<1>1. /\ card.phase = "prg"
      /\ sectors' = [sectors EXCEPT ![card.lba] = Held(card.held)]
      /\ card' = [card EXCEPT !.phase = "tran", !.held = <<>>]
      /\ \/ xfer.dir = "write" /\ xfer' = NoXfer /\ int' = int \cup {"done"}
         \/ xfer.dir # "write" /\ UNCHANGED <<xfer, int>>
      /\ UNCHANGED <<kind, inhibit, resetting, spoilt>>
  BY DEF CardStores
<1>2. TypeOK /\ CardTypeOK /\ Shared /\ Counts /\ Reading /\ Writing /\ Clean
  BY DEF CallInv, TypeOK
<1>3. UNCHANGED <<pc, req, buf, open>>
  BY DEF driver
<1>4. /\ card.held \in Burst /\ Len(card.held) = Words /\ card.lba \in Lba /\ card.count \in 0 .. Words
      /\ 1 <= Words
  BY <1>1, <1>2, CardShape, CardAssumption DEF Shared
<1>5. Held(card.held) \in Word /\ \A v : All(card.held, v) => Held(card.held) = v
  BY <1>4, HeldAll
<1>6. card' = [phase |-> "tran", lba |-> card.lba, count |-> card.count, held |-> <<>>]
  BY <1>1, <1>2, CardShape
<1>7. CardTypeOK'
  <2>1. sectors' \in [Lba -> Word]
    BY <1>1, <1>2, <1>5 DEF CardTypeOK
  <2>2. int' \subseteq {"done", "error"}
    BY <1>1, <1>2 DEF CardTypeOK
  <2>3. xfer' \in [dir : {"none", "read", "write"}, fifo : Burst, host : 0 .. Words]
    BY <1>1, <1>2, XferType DEF CardTypeOK
  <2>4. card' \in [phase : Phase, lba : Lba \cup {0}, count : 0 .. Words, held : Burst]
    BY <1>4, <1>6, EmptyBurst DEF Phase
  <2> QED BY <1>1, <1>2, <2>1, <2>2, <2>3, <2>4 DEF CardTypeOK
<1>8. Shared'
  BY <1>1, <1>2, <1>6 DEF Shared, NoXfer
<1>9. pc = "send" => req.op # "write"
  BY <1>1, <1>2 DEF Writing
<1>10. Moving /\ req.op = "read" => FALSE
  BY <1>1, <1>2 DEF Reading
<1>11. ASSUME Moving, req.op = "write" PROVE Writing'
  <2>1. /\ card.lba = req.lba /\ All(card.held, req.val) /\ xfer.dir # "read" /\ "done" \notin int
        /\ pc # "words"
    BY <1>1, <1>2, <1>11 DEF Writing
  <2>2. sectors'[req.lba] = req.val
    BY <1>1, <1>2, <1>4, <1>5, <2>1 DEF CardTypeOK
  <2>3. xfer'.dir # "write" /\ xfer'.dir # "read"
    BY <1>1, <2>1 DEF NoXfer
  <2> QED BY <1>3, <1>6, <1>9, <1>11, <2>1, <2>2, <2>3 DEF Writing, Moving
<1>12. Clean'
  <2>1. CASE xfer.dir = "write"
    <3>1. xfer # NoXfer
      BY <2>1 DEF NoXfer
    <3> QED BY <1>1, <1>2, <1>3, <3>1 DEF Clean, Quiet
  <2>2. CASE xfer.dir # "write"
    BY <1>1, <1>2, <1>3, <1>6, <2>2 DEF Clean, Quiet
  <2> QED BY <2>1, <2>2
<1> QED BY <1>1, <1>7, <1>8, <1>9, <1>10, <1>11, <1>12, CallInvBeside

LEMMA CallInvNext == CallInv /\ [Next]_vars => CallInv'
<1> SUFFICES ASSUME CallInv, [Next]_vars PROVE CallInv'
  OBVIOUS
<1>1. CASE UNCHANGED vars
  <2>1. Inv'
    BY InvNext DEF CallInv
  <2>2. TypeOK'
    BY <1>1 DEF CallInv, TypeOK, CardTypeOK, vars, driver, cardVars, hostVars
  <2>3. Served' /\ Shared' /\ Counts'
    BY <1>1 DEF CallInv, Served, Unit, Shared, Counts, vars, driver, cardVars, hostVars
  <2>4. Reading' /\ Writing' /\ Clean'
    BY <1>1 DEF CallInv, Reading, Writing, Clean, Moving, Quiet, vars, driver, cardVars, hostVars
  <2> QED BY <2>1, <2>2, <2>3, <2>4 DEF CallInv
<1>2. CASE \E lba \in Lba : ReadBlock(lba) \/ \E v \in Value : WriteBlock(lba, v)
  BY <1>2, CallInvBegin
<1>3. CASE Driver
  BY <1>3, CallInvSetUp, CallInvLines, CallInvReady, CallInvSend, CallInvReadWord,
     CallInvWriteWord, CallInvTimeOut, CallInvFinish DEF Driver
<1>4. CASE Device /\ UNCHANGED driver
  BY <1>4, CallInvCardSends, CallInvLinesReset, CallInvCardTakes, CallInvCardStores DEF Device
<1> QED BY <1>1, <1>2, <1>3, <1>4 DEF Next

\* The variables keep their types: no burst is longer than a sector, and no loop of
\* sd_init or sdhci_wait_ready turns more often than it may.
THEOREM SdTypesCorrect == Spec => []TypeOK
<1>1. CallInv => TypeOK
  BY DEF CallInv
<1> QED BY <1>1, CallInvInit, CallInvNext, PTL DEF Spec

-----------------------------------------------------------------------------
(* Recovery. *)

\* What a call that fails without a fault of its own has met.
LEMMA FailsFor ==
  ASSUME CallInv, [Next]_vars, Calling, pc' = "idle", ~ret'.ok, ~spoilt'
  PROVE  \/ req.op = "read" /\ open
         \/ req.op = "write" /\ card'.phase # "tran"
<1>1. pc \in {"lines", "ready", "send", "words", "done"}
  BY DEF Calling
<1>2. CASE UNCHANGED vars \/ (Device /\ UNCHANGED driver)
  BY <1>1, <1>2 DEF vars, driver
<1>3. CASE \E lba \in Lba : ReadBlock(lba) \/ \E v \in Value : WriteBlock(lba, v)
  BY <1>1, <1>3 DEF ReadBlock, WriteBlock, Begin
<1>4. CASE HostReset \/ Identify \/ CheckVoltage \/ PowerUp
  BY <1>1, <1>4 DEF HostReset, Identify, CheckVoltage, PowerUp
<1>5. CASE LinesPolled \/ ReadWord \/ WriteWord
  BY <1>1, <1>5 DEF LinesPolled, ReadWord, WriteWord, Move
<1>6. CASE WaitReady
  BY <1>6, CallInvReady
<1>7. CASE SendData
  BY <1>7, CallInvSend
<1>8. CASE TimeOut
  BY <1>8 DEF TimeOut
<1>9. CASE Finish
  BY <1>9 DEF Finish, Return
<1> QED BY <1>2, <1>3, <1>4, <1>5, <1>6, <1>7, <1>8, <1>9 DEF Next, Driver

\* A read that meets no fault of its own fails only if an earlier call left the lines
\* or the card busy (sd_read_block resets nothing and waits for nothing).
THEOREM ReadsAlwaysRecover == Spec => ReadsRecover
<1>1. CallInv /\ [Next]_vars => [Returns("read") /\ ~ret'.ok /\ ~spoilt' => open]_vars
  <2> SUFFICES ASSUME CallInv, [Next]_vars, Returns("read"), ~ret'.ok, ~spoilt' PROVE open
    OBVIOUS
  <2> QED BY FailsFor DEF Returns
<1> QED BY <1>1, CallInvInit, CallInvNext, PTL DEF Spec, ReadsRecover

\* A write that meets no fault of its own fails only if the card is still at a
\* transfer (the reset of the lines in sd_write_block, and sdhci_wait_ready).
THEOREM WritesAlwaysRecover == Spec => WritesRecover
<1>1. CallInv /\ [Next]_vars =>
        [Returns("write") /\ ~ret'.ok /\ ~spoilt' => card'.phase # "tran"]_vars
  <2> SUFFICES ASSUME CallInv, [Next]_vars, Returns("write"), ~ret'.ok, ~spoilt'
               PROVE  card'.phase # "tran"
    OBVIOUS
  <2> QED BY FailsFor DEF Returns
<1> QED BY <1>1, CallInvInit, CallInvNext, PTL DEF Spec, WritesRecover

-----------------------------------------------------------------------------
(* The refinement of BlockDevice.                                          *)

AbsCall == IF Calling THEN req ELSE [op |-> "none", lba |-> 0, val |-> Garbage]
Erred   == "error" \in int

\* The five variables of BlockDevice, and what its actions ask of them.
LEMMA AbsInit == Init => Abstract!Init
<1> SUFFICES ASSUME Init PROVE Abstract!Init
  OBVIOUS
<1>1. /\ pc = "reset" /\ card = Resting /\ int = {} /\ ret = NoRet /\ sectors \in [Lba -> Value]
  BY DEF Init, CardInit
<1>2. Pending = {}
  BY <1>1 DEF Pending, Resting
<1>3. Outcome = [op |-> "none", ok |-> FALSE, lba |-> 0, data |-> Garbage]
  BY <1>1 DEF Outcome, NoRet
<1>4. ~Calling
  BY <1>1 DEF Calling
<1>5. "error" \in int <=> FALSE
  BY <1>1
<1> QED BY <1>1, <1>2, <1>3, <1>4, <1>5
        DEF Abstract!Init, Abstract!NoCall, Abstract!NoRet

LEMMA AbsReport ==
  ASSUME sectors' = sectors, AbsCall' = AbsCall, Pending' = Pending, Outcome' = Outcome
  PROVE  Abstract!Next
<1>1. Abstract!Report
  BY DEF Abstract!Report, AbsCall
<1> QED BY <1>1 DEF Abstract!Next

LEMMA AbsLose ==
  ASSUME sectors' = sectors, AbsCall' = AbsCall, Pending' = {}, Outcome' = Outcome
  PROVE  Abstract!Next
<1>1. Abstract!Lose
  BY DEF Abstract!Lose, AbsCall
<1> QED BY <1>1 DEF Abstract!Next

LEMMA AbsBegin ==
  ASSUME ~Calling, Calling', ret' = NoRet, UNCHANGED <<sectors, int>>, Pending' = Pending,
         req' \in [op : {"read"}, lba : Lba, val : {Garbage}] \cup
                  [op : {"write"}, lba : Lba, val : Value]
  PROVE  Abstract!Next
<1>1. Outcome' = [op |-> "none", ok |-> FALSE, lba |-> 0, data |-> Garbage]
  BY DEF Outcome, NoRet
<1>2. Abstract!Call(req')
  BY <1>1 DEF Abstract!Call, Abstract!NoCall, Abstract!NoRet
<1>3. req' \in Abstract!Calls
  BY DEF Abstract!Calls
<1> QED BY <1>2, <1>3 DEF Abstract!Next

\* A call that fails.
LEMMA AbsFail ==
  ASSUME Calling, ~Calling', req \in Call, sectors' = sectors, Pending' = Pending,
         ret' = [op |-> req.op, ok |-> FALSE, lba |-> req.lba, val |-> req.val, buf |-> <<>>]
  PROVE  Abstract!Next
<1>1. Outcome' = [op |-> req.op, ok |-> FALSE, lba |-> req.lba, data |-> Garbage]
  BY DEF Outcome
<1>2. req.op # "none"
  BY DEF Call
<1>3. Abstract!Return
  BY <1>1, <1>2 DEF Abstract!Return, Abstract!NoCall
<1> QED BY <1>3 DEF Abstract!Next

\* A call that succeeds.
LEMMA AbsSucceed ==
  ASSUME Calling, ~Calling', req \in Call, sectors' = sectors, Pending = {}, Pending' = {},
         NEW data \in Word, Erred \/ data = sectors[req.lba],
         req.op = "write" => data = req.val,
         Outcome' = [op |-> req.op, ok |-> TRUE, lba |-> req.lba, data |-> data]
  PROVE  Abstract!Next
<1>1. req.op \in {"read", "write"} /\ req.op # "none"
  BY DEF Call
<1>2. Abstract!Succeed(data)
  BY DEF Abstract!Succeed, Erred
<1>3. Abstract!Return
  <2>1. CASE req.op = "read"
    BY <1>1, <1>2, <2>1 DEF Abstract!Return, Abstract!NoCall, Word
  <2>2. CASE req.op = "write"
    BY <1>1, <1>2, <2>2 DEF Abstract!Return, Abstract!NoCall
  <2> QED BY <1>1, <2>1, <2>2
<1> QED BY <1>3 DEF Abstract!Next

LEMMA AbsSend ==
  ASSUME Calling, req.op = "write", AbsCall' = AbsCall, UNCHANGED <<sectors, int>>,
         Outcome' = Outcome, Pending = {}, Pending' = {[lba |-> req.lba, val |-> req.val]}
  PROVE  Abstract!Next
<1>1. Abstract!Send
  BY DEF Abstract!Send, AbsCall
<1> QED BY <1>1 DEF Abstract!Next

LEMMA AbsStore ==
  ASSUME AbsCall' = AbsCall, Erred' = Erred, Outcome' = Outcome,
         NEW w, Pending = {w}, Pending' = {}, sectors' = [sectors EXCEPT ![w.lba] = w.val]
  PROVE  Abstract!Next
<1>1. Abstract!Store
  BY DEF Abstract!Store, AbsCall, Erred
<1> QED BY <1>1 DEF Abstract!Next

LEMMA FlightMoves ==
  ASSUME NEW S, NEW a \in Seq(S), NEW b \in Seq(S), b # <<>>
  PROVE  Append(a, Head(b)) \o Tail(b) = a \o b
<1>1. Head(b) \in S /\ Tail(b) \in Seq(S) /\ Append(a, Head(b)) \in Seq(S)
  OBVIOUS
<1>2. Append(a, Head(b)) = a \o <<Head(b)>>
  BY <1>1
<1>3. <<Head(b)>> \o Tail(b) = b
  BY <1>1
<1>4. (a \o <<Head(b)>>) \o Tail(b) = a \o (<<Head(b)>> \o Tail(b))
  BY <1>1, ConcatAssociative
<1> QED BY <1>2, <1>3, <1>4

LEMMA Flight ==
  ASSUME CardTypeOK
  PROVE  /\ InFlight \in Seq(Word)
         /\ xfer.dir = "write" => /\ InFlight = card.held \o xfer.fifo
                                  /\ Len(InFlight) = Len(card.held) + Len(xfer.fifo)
         /\ xfer.dir # "write" \/ xfer.fifo = <<>> => InFlight = card.held
<1>1. card.held \in Seq(Word) /\ xfer.fifo \in Seq(Word)
  BY CardShape, BurstIsSeq
<1>2. card.held \o <<>> = card.held /\ <<>> \in Seq(Word)
  BY <1>1
<1>3. /\ card.held \o xfer.fifo \in Seq(Word)
      /\ Len(card.held \o xfer.fifo) = Len(card.held) + Len(xfer.fifo)
  BY <1>1, ConcatProperties
<1>4. CASE xfer.dir = "write"
  <2>1. InFlight = card.held \o xfer.fifo
    BY <1>4 DEF InFlight
  <2> QED BY <1>2, <1>3, <1>4, <2>1
<1>5. CASE xfer.dir # "write"
  <2>1. InFlight = card.held
    BY <1>2, <1>5 DEF InFlight
  <2> QED BY <1>1, <1>5, <2>1
<1> QED BY <1>4, <1>5

\* Nothing is pending unless the card has, or can get, a whole sector.
LEMMA NothingPending ==
  ASSUME CardTypeOK, Shared,
         \/ card.phase \notin {"rcv", "prg"}
         \/ card.phase = "rcv" /\ (xfer.dir # "write" \/ Len(card.held) + Len(xfer.fifo) < Words)
  PROVE  Pending = {}
<1>1. CASE card.phase \notin {"rcv", "prg"}
  BY <1>1 DEF Pending
<1>2. CASE card.phase = "rcv" /\ xfer.dir # "write"
  <2>1. InFlight = card.held /\ Len(card.held) < Words /\ Len(card.held) \in Nat
    BY <1>2, Flight, CardShape, BurstIsSeq DEF Shared
  <2> QED BY <2>1, CardAssumption DEF Pending
<1>3. CASE xfer.dir = "write" /\ Len(card.held) + Len(xfer.fifo) < Words
  <2>0. Len(card.held) \in Nat /\ Len(xfer.fifo) \in Nat
    BY CardShape, BurstIsSeq
  <2>1. /\ Len(InFlight) = Len(card.held) + Len(xfer.fifo)
        /\ Len(card.held) \in Nat /\ Len(xfer.fifo) \in Nat
    BY <1>3, <2>0, Flight
  <2> DEFINE had  == Len(card.held)
             left == Len(xfer.fifo)
  <2>2. had \in Nat /\ left \in Nat /\ had + left < Words
    BY <1>3, <2>0
  <2> HIDE DEF had, left
  <2>3. had + left # Words
    BY <2>2, CardAssumption
  <2> USE DEF had, left
  <2>4. Len(InFlight) # Words
    BY <2>1, <2>3
  <2> QED BY <2>4 DEF Pending
<1> QED BY <1>1, <1>2, <1>3

\* The same of the next state.
LEMMA FlightNext ==
  ASSUME CardTypeOK'
  PROVE  /\ xfer'.dir = "write" => /\ InFlight' = card'.held \o xfer'.fifo
                                   /\ Len(InFlight') = Len(card'.held) + Len(xfer'.fifo)
         /\ xfer'.dir # "write" \/ xfer'.fifo = <<>> => InFlight' = card'.held
<1>1. (CardTypeOK =>
         /\ xfer.dir = "write" => /\ InFlight = card.held \o xfer.fifo
                                  /\ Len(InFlight) = Len(card.held) + Len(xfer.fifo)
         /\ xfer.dir # "write" \/ xfer.fifo = <<>> => InFlight = card.held)'
  BY Flight, PTL
<1> QED BY <1>1

LEMMA NothingPendingNext ==
  ASSUME CardTypeOK', Shared',
         \/ card'.phase \notin {"rcv", "prg"}
         \/ card'.phase = "rcv" /\ (xfer'.dir # "write" \/ Len(card'.held) + Len(xfer'.fifo) < Words)
  PROVE  Pending' = {}
<1>1. (CardTypeOK /\ Shared /\
         (\/ card.phase \notin {"rcv", "prg"}
          \/ card.phase = "rcv" /\ (xfer.dir # "write" \/ Len(card.held) + Len(xfer.fifo) < Words))
       => Pending = {})'
  BY NothingPending, PTL
<1> QED BY <1>1

LEMMA PendingKept ==
  ASSUME InFlight' = InFlight, card'.lba = card.lba,
         card'.phase \in {"rcv", "prg"} <=> card.phase \in {"rcv", "prg"}
  PROVE  Pending' = Pending
BY DEF Pending

\* A command of a call neither adds to a write nor takes one away.
LEMMA PendingCommand ==
  ASSUME CardTypeOK, Shared, NEW c \in {13, 17, 24}, NEW arg, NEW ok \in BOOLEAN,
         SendCmd(c, arg, ok), CardTypeOK', Shared'
  PROVE  Pending' = Pending
<1>1. /\ \/ card' = card
         \/ /\ c # 13 /\ card.phase = "tran" /\ Sector(arg) \in Lba /\ xfer = NoXfer
            /\ card' = Started(c, arg)
      /\ xfer' = xfer \/ (c # 13 /\ xfer = NoXfer /\ xfer' = Begun(c))
  BY Command
<1>2. CASE card' = card
  <2>1. CASE xfer' = xfer
    BY <1>2, <2>1 DEF Pending, InFlight
  <2>2. CASE c # 13 /\ xfer = NoXfer /\ xfer' = Begun(c)
    <3>1. xfer.dir = "none" /\ xfer'.fifo = <<>>
      BY <2>2 DEF NoXfer, Begun, Data, Xfer
    <3>2. InFlight = card.held
      BY <3>1, Flight
    <3>3. InFlight' = card'.held
      BY <3>1, FlightNext
    <3> QED BY <1>2, <3>1, <3>2, <3>3, PendingKept
  <2> QED BY <1>1, <2>1, <2>2
<1>3. CASE card.phase = "tran" /\ xfer = NoXfer /\ card' = Started(c, arg)
  <2>1. Pending = {}
    BY <1>3, NothingPending
  <2>2. Pending' = {}
    <3>1. card'.phase \in {"data", "rcv"} /\ card'.held = <<>>
      BY <1>3 DEF Started
    <3>2. xfer'.fifo = <<>>
      BY <1>1, <1>3 DEF NoXfer, Begun, Data, Xfer
    <3>3. InFlight' = <<>>
      BY <3>1, <3>2, FlightNext
    <3>4. Len(InFlight') # Words
      BY <3>3, EmptyBurst, CardAssumption
    <3> QED BY <3>4 DEF Pending
  <2> QED BY <2>1, <2>2
<1> QED BY <1>1, <1>2, <1>3

\* Steps of sd_init.
LEMMA MapSetUp ==
  ASSUME CallInv, CallInv', [Next]_vars, HostReset \/ Identify \/ CheckVoltage \/ PowerUp
  PROVE  Abstract!Next
<1>1. /\ sectors' = sectors /\ pc \notin Working
      /\ card.phase \in SetUp /\ card'.phase \in SetUp
      /\ pc' \in {"init", "off", "idle"} /\ ret' = ret
  BY CallInvSetUp DEF callVars
<1>2. AbsCall' = AbsCall
  BY <1>1 DEF AbsCall, Calling, Working
<1>3. Pending' = Pending
  BY <1>1 DEF Pending, SetUp
<1>4. Outcome' = Outcome
  BY <1>1 DEF Outcome
<1> QED BY <1>1, <1>2, <1>3, <1>4, AbsReport

LEMMA MapBegin ==
  ASSUME NEW lba \in Lba, ReadBlock(lba) \/ \E v \in Value : WriteBlock(lba, v)
  PROVE  Abstract!Next
<1>1. /\ pc = "idle" /\ pc' \in {"send", "lines"} /\ ret' = NoRet
      /\ UNCHANGED <<sectors, int, card, xfer>>
      /\ req' \in [op : {"read"}, lba : Lba, val : {Garbage}] \cup
                  [op : {"write"}, lba : Lba, val : Value]
  BY DEF ReadBlock, WriteBlock, Begin, cardVars
<1>2. Pending' = Pending
  BY <1>1 DEF Pending, InFlight
<1> QED BY <1>1, <1>2, AbsBegin DEF Calling

\* The driver's own steps that neither send nor finish.
LEMMA MapFail ==
  ASSUME CallInv, Fail, pc \in {"ready", "send", "words", "done"}, sectors' = sectors,
         req' = req, Pending' = Pending
  PROVE  Abstract!Next
<1>1. req \in Call /\ Calling
  BY DEF CallInv, TypeOK, Calling
<1>2. CASE pc' \in {"send", "ready"} /\ UNCHANGED ret
  BY <1>1, <1>2, AbsReport DEF AbsCall, Calling, Outcome
<1>3. CASE Return(FALSE)
  BY <1>1, <1>3, AbsFail DEF Return, Calling
<1> QED BY <1>2, <1>3 DEF Fail

LEMMA MapCommand ==
  ASSUME CallInv, CallInv', WaitReady \/ SendData
  PROVE  Abstract!Next
<1>1. PICK c \in {13, 17, 24}, arg \in {0, Argument(req.lba)}, ok \in BOOLEAN :
        SendCmd(c, arg, ok)
  BY DEF WaitReady, SendData
<1>2. /\ pc \in {"ready", "send"} /\ req' = req
      /\ Fail \/ (pc' \in {"ready", "send", "words"} /\ ret' = ret)
  BY DEF WaitReady, SendData
<1>3. CardTypeOK /\ Shared /\ CardTypeOK' /\ Shared'
  BY DEF CallInv, TypeOK
<1>4. Pending' = Pending
  BY <1>1, <1>3, PendingCommand
<1>5. sectors' = sectors
  BY <1>1, <1>3, Command
<1>6. CASE Fail
  BY <1>2, <1>4, <1>5, <1>6, MapFail
<1>7. CASE pc' \in {"ready", "send", "words"} /\ ret' = ret
  BY <1>2, <1>4, <1>5, <1>7, AbsReport DEF AbsCall, Calling, Outcome
<1> QED BY <1>2, <1>6, <1>7

LEMMA MapWait ==
  ASSUME CallInv, LinesPolled \/ ReadWord \/ TimeOut
  PROVE  Abstract!Next
<1>1. CASE LinesPolled
  <2>1. /\ pc = "lines" /\ pc' = "ready" /\ UNCHANGED <<card, xfer, sectors, req, ret>>
    BY <1>1 DEF LinesPolled, cardVars, hostVars
  <2> QED BY <2>1, AbsReport DEF AbsCall, Calling, Outcome, Pending, InFlight
<1>2. CASE ReadWord
  <2>1. /\ pc = "words" /\ pc' \in {"words", "done"} /\ UNCHANGED <<card, sectors, req, ret>>
        /\ xfer.dir = "read" /\ xfer' = [xfer EXCEPT !.fifo = Tail(@), !.host = @ + 1]
    BY <1>2 DEF ReadWord, ReadReady, Move, cardVars
  <2>2. xfer'.dir = "read"
    BY <2>1 DEF CallInv, TypeOK, CardTypeOK
  <2>3. InFlight' = InFlight
    BY <2>1, <2>2 DEF InFlight
  <2>4. Pending' = Pending
    BY <2>1, <2>3, PendingKept
  <2> QED BY <2>1, <2>4, AbsReport DEF AbsCall, Calling, Outcome
<1>3. CASE TimeOut
  <2>1. /\ pc \in {"words", "done"} /\ Fail /\ UNCHANGED <<card, xfer, sectors, req>>
    BY <1>3 DEF TimeOut, cardVars, hostVars
  <2>2. Pending' = Pending
    BY <2>1 DEF Pending, InFlight
  <2> QED BY <2>1, <2>2, MapFail
<1> QED BY <1>1, <1>2, <1>3

\* With the last word a write is on its way.
LEMMA MapWriteWord ==
  ASSUME CallInv, CallInv', [Next]_vars, WriteWord
  PROVE  Abstract!Next
<1>1. /\ card.phase = "rcv" /\ card.lba = req.lba
      /\ All(card.held, req.val) /\ All(xfer'.fifo, req.val)
      /\ Len(card.held) + Len(xfer.fifo) = Len(buf)
      /\ Len(card.held) + Len(xfer'.fifo) = Len(buf')
      /\ Len(buf) < Words /\ Len(buf') = Len(buf) + 1
      /\ xfer.dir = "write" /\ xfer'.dir = "write"
  BY CallInvWriteWord
<1>2. /\ pc = "words" /\ req.op = "write" /\ pc' = IF Len(buf') = Words THEN "done" ELSE pc
      /\ UNCHANGED <<card, sectors, int, req, ret>>
  BY DEF WriteWord, Move, cardVars
<1>3. CardTypeOK /\ Shared /\ CardTypeOK' /\ Shared' /\ TypeOK'
  BY DEF CallInv, TypeOK
<1>4. Pending = {}
  BY <1>1, <1>3, NothingPending
<1>5. AbsCall' = AbsCall /\ Outcome' = Outcome /\ Calling
  BY <1>2 DEF AbsCall, Calling, Outcome
<1>6. CASE Len(buf') = Words
  <2>1. InFlight' = card.held \o xfer'.fifo /\ Len(InFlight') = Words
    BY <1>1, <1>2, <1>3, <1>6, FlightNext
  <2>2. card.held \in Seq(Word) /\ xfer'.fifo \in Burst
    <3>1. card.held \in Burst
      BY <1>3 DEF CardTypeOK
    <3>2. xfer'.fifo \in Burst
      BY <1>3 DEF CardTypeOK
    <3> QED BY <3>1, <3>2, BurstIsSeq
  <2>3. xfer'.fifo \in Seq(Word)
    BY <2>2, BurstIsSeq
  <2>4. All(InFlight', req.val)
    <3>1. /\ Len(InFlight') = Len(card.held) + Len(xfer'.fifo)
          /\ \A i \in 1 .. Len(card.held) + Len(xfer'.fifo) :
                InFlight'[i] = IF i <= Len(card.held) THEN card.held[i]
                               ELSE xfer'.fifo[i - Len(card.held)]
      BY <2>1, <2>2, <2>3, ConcatProperties
    <3> DEFINE had  == Len(card.held)
               left == Len(xfer'.fifo)
    <3>2. had \in Nat /\ left \in Nat
      BY <2>2, <2>3
    <3>3. /\ \A i \in 1 .. had : card.held[i] = req.val
          /\ \A i \in 1 .. left : xfer'.fifo[i] = req.val
          /\ Len(InFlight') = had + left
          /\ \A i \in 1 .. had + left :
                InFlight'[i] = IF i <= had THEN card.held[i] ELSE xfer'.fifo[i - had]
      BY <1>1, <3>1 DEF All
    <3> HIDE DEF had, left
    <3>4. \A i \in 1 .. had + left : IF i <= had THEN i \in 1 .. had ELSE i - had \in 1 .. left
      BY <3>2
    <3> QED BY <3>3, <3>4 DEF All
  <2>5. InFlight' \in Burst /\ 1 <= Len(InFlight')
    <3>1. InFlight' \in Seq(Word)
      BY <2>1, <2>2, <2>3, ConcatProperties
    <3>2. 1 <= Words /\ Words <= Words
      BY CardAssumption
    <3> QED BY <2>1, <3>1, <3>2, SeqIsBurst
  <2>6. Held(InFlight') = req.val
    BY <2>4, <2>5, HeldAll
  <2>7. Pending' = {[lba |-> req.lba, val |-> req.val]}
    BY <1>1, <1>2, <2>1, <2>6 DEF Pending
  <2> QED BY <1>2, <1>4, <1>5, <2>7, AbsSend
<1>7. CASE Len(buf') # Words
  <2>1. Len(buf) \in Nat
    BY BurstIsSeq DEF CallInv, TypeOK
  <2>2. Len(buf') < Words
    BY <1>1, <1>7, <2>1, CardAssumption
  <2>3. Pending' = {}
    BY <1>1, <1>2, <1>3, <2>2, NothingPendingNext
  <2> QED BY <1>2, <1>4, <1>5, <2>3, AbsReport
<1> QED BY <1>6, <1>7

\* A call succeeds: a read with what the sector holds, a write when it is stored.
LEMMA MapFinish ==
  ASSUME CallInv, CallInv', Finish
  PROVE  Abstract!Next
<1>1. /\ pc = "done" /\ "done" \in int /\ pc' = "idle"
      /\ ret' = [op |-> req.op, ok |-> TRUE, lba |-> req.lba, val |-> req.val, buf |-> buf]
      /\ UNCHANGED <<card, sectors, xfer>>
  BY DEF Finish, Return, cardVars
<1>2. CardTypeOK /\ Shared /\ Counts /\ Reading /\ Writing /\ req \in Call /\ buf \in Burst
  BY DEF CallInv, TypeOK
<1>3. Len(buf) = Words /\ 1 <= Words
  BY <1>1, <1>2, CardAssumption DEF Counts
<1>4. buf # <<>>
  BY <1>3, EmptyBurst
<1>5. req.op \in {"read", "write"} /\ req.val \in Word /\ Calling /\ ~Calling'
  BY <1>1, <1>2 DEF Call, Calling
<1>6. Pending' = Pending
  BY <1>1 DEF Pending, InFlight
<1>7. CASE req.op = "read"
  <2>1. /\ card.phase \in {"data", "tran"}
        /\ "error" \in int \/ All(buf, sectors[req.lba])
    BY <1>1, <1>2, <1>7 DEF Reading, Moving
  <2>2. Pending = {}
    BY <1>2, <2>1, NothingPending
  <2>3. Held(buf) \in Word /\ (Erred \/ Held(buf) = sectors[req.lba])
    BY <1>2, <1>3, <2>1, HeldAll DEF Erred
  <2>4. Outcome' = [op |-> req.op, ok |-> TRUE, lba |-> req.lba, data |-> Held(buf)]
    BY <1>1, <1>4, <1>7 DEF Outcome
  <2> QED BY <1>1, <1>2, <1>5, <1>6, <1>7, <2>2, <2>3, <2>4, AbsSucceed
<1>8. CASE req.op = "write"
  <2>1. card.phase = "tran" /\ ("error" \in int \/ sectors[req.lba] = req.val)
    BY <1>1, <1>2, <1>8 DEF Writing, Moving
  <2>2. Pending = {}
    BY <1>2, <2>1, NothingPending
  <2>3. Outcome' = [op |-> req.op, ok |-> TRUE, lba |-> req.lba, data |-> req.val]
    BY <1>1, <1>8 DEF Outcome
  <2> QED BY <1>1, <1>2, <1>5, <1>6, <2>1, <2>2, <2>3, AbsSucceed DEF Erred
<1> QED BY <1>5, <1>7, <1>8

\* What the device does: a write is stored, lost, or still on its way.
LEMMA MapDevice ==
  ASSUME CallInv, CallInv', [Next]_vars, Device, UNCHANGED driver
  PROVE  Abstract!Next
<1>1. AbsCall' = AbsCall /\ Outcome' = Outcome
  BY DEF driver, AbsCall, Calling, Outcome
<1>2. CardTypeOK /\ Shared /\ CardTypeOK' /\ Shared'
  BY DEF CallInv, TypeOK
<1>3. CASE CardSends
  <2>1. /\ card.phase = "data" /\ card'.phase \in {"data", "tran"} /\ sectors' = sectors
    BY <1>2, <1>3 DEF CardSends, CardTypeOK
  <2>2. Pending = {} /\ Pending' = {}
    BY <2>1 DEF Pending
  <2> QED BY <1>1, <2>1, <2>2, AbsReport
<1>4. CASE ReadDone
  <2>1. xfer.dir = "read" /\ xfer'.dir = "none" /\ UNCHANGED <<card, sectors>>
    BY <1>4 DEF ReadDone, NoXfer, cardVars
  <2>2. InFlight' = InFlight
    BY <2>1 DEF InFlight
  <2>3. Pending' = Pending
    BY <2>1, <2>2, PendingKept
  <2> QED BY <1>1, <2>1, <2>3, AbsReport
<1>5. CASE CardTakes
  <2>1. card.phase = "rcv" /\ xfer.dir = "write" /\ xfer.fifo # <<>>
    BY <1>5 DEF CardTakes
  <2>2. /\ sectors' = sectors
        /\ \/ /\ UNCHANGED int /\ card'.phase \in {"rcv", "prg"} /\ card'.lba = card.lba
              /\ card'.held = Append(card.held, Head(xfer.fifo))
              /\ xfer'.dir = "write" /\ xfer'.fifo = Tail(xfer.fifo)
           \/ card'.phase = "tran"
    BY <1>5, CallInvCardTakes
  <2>3. CASE card'.phase = "tran"
    BY <1>1, <2>2, <2>3, AbsLose DEF Pending
  <2>4. CASE /\ card'.phase \in {"rcv", "prg"} /\ card'.lba = card.lba
             /\ card'.held = Append(card.held, Head(xfer.fifo))
             /\ xfer'.dir = "write" /\ xfer'.fifo = Tail(xfer.fifo)
    <3>1. card.held \in Seq(Word) /\ xfer.fifo \in Seq(Word)
      BY <1>2, CardShape, BurstIsSeq
    <3>2. InFlight = card.held \o xfer.fifo
      BY <1>2, <2>1, Flight
    <3>3. InFlight' = card'.held \o xfer'.fifo
      BY <1>2, <2>4, FlightNext
    <3>4. InFlight' = InFlight
      BY <2>1, <2>4, <3>1, <3>2, <3>3, FlightMoves
    <3>5. Pending' = Pending
      BY <2>1, <2>4, <3>4, PendingKept
    <3> QED BY <1>1, <2>2, <3>5, AbsReport
  <2> QED BY <2>2, <2>3, <2>4
<1>6. CASE CardStores
  <2>1. /\ card.phase = "prg" /\ card'.phase = "tran"
        /\ sectors' = [sectors EXCEPT ![card.lba] = Held(card.held)]
        /\ int' = int \/ int' = int \cup {"done"}
    BY <1>2, <1>6 DEF CardStores, CardTypeOK
  <2>2. Len(card.held) = Words /\ (xfer.dir = "write" => xfer.fifo = <<>>)
    BY <1>2, <2>1 DEF Shared
  <2>3. InFlight = card.held
    BY <1>2, <2>2, Flight
  <2>4. Pending = {[lba |-> card.lba, val |-> Held(card.held)]} /\ Pending' = {}
    BY <2>1, <2>2, <2>3 DEF Pending
  <2>5. Erred' = Erred
    BY <2>1 DEF Erred
  <2> QED BY <1>1, <2>1, <2>4, <2>5, AbsStore
<1>7. CASE LinesReset
  <2>1. xfer'.dir = "none" /\ UNCHANGED <<card, sectors>>
    BY <1>7 DEF LinesReset, NoXfer, cardVars
  <2>2. CASE card.phase = "rcv"
    <3>1. Pending' = {}
      BY <1>2, <2>1, <2>2, NothingPendingNext
    <3> QED BY <1>1, <2>1, <3>1, AbsLose
  <2>3. CASE card.phase # "rcv"
    <3>1. xfer.dir = "write" => xfer.fifo = <<>>
      BY <1>2, <2>3 DEF Shared
    <3>2. InFlight = card.held /\ InFlight' = card'.held
      BY <1>2, <2>1, <3>1, Flight, FlightNext
    <3>3. Pending' = Pending
      BY <2>1, <3>2, PendingKept
    <3> QED BY <1>1, <2>1, <3>3, AbsReport
  <2> QED BY <2>2, <2>3
<1> QED BY <1>3, <1>4, <1>5, <1>6, <1>7 DEF Device

LEMMA MapNext == CallInv /\ CallInv' /\ [Next]_vars => Abstract!Next
<1> SUFFICES ASSUME CallInv, CallInv', [Next]_vars PROVE Abstract!Next
  OBVIOUS
<1>1. CASE UNCHANGED vars
  BY <1>1, AbsReport
     DEF vars, driver, cardVars, hostVars, AbsCall, Calling, Pending, InFlight, Outcome
<1>2. CASE \E lba \in Lba : ReadBlock(lba) \/ \E v \in Value : WriteBlock(lba, v)
  BY <1>2, MapBegin
<1>3. CASE Driver
  BY <1>3, MapSetUp, MapCommand, MapWait, MapWriteWord, MapFinish DEF Driver
<1>4. CASE Device /\ UNCHANGED driver
  BY <1>4, MapDevice
<1> QED BY <1>1, <1>2, <1>3, <1>4 DEF Next

\* sd_read_block and sd_write_block are what the file system takes a disk to be: what
\* succeeds is true, unless the hardware has marked the data as damaged, and a write
\* that failed reaches the card, if at all, before a later call succeeds.
THEOREM DriverImplementsBlockDevice == Spec => ImplementsBlockDevice
<1>1. CallInv /\ CallInv' /\ [Next]_vars => [Abstract!Next]_Abstract!vars
  BY MapNext
<1> QED BY <1>1, AbsInit, CallInvInit, CallInvNext, PTL
        DEF Spec, ImplementsBlockDevice, Abstract!Spec

=============================================================================
