------------------------------- MODULE SdHost -------------------------------
(***************************************************************************)
(* The SDHCI driver, block/sd_rpi.c: sd_init, sd_read_block and            *)
(* sd_write_block, with the controller and the card of SdCard at work      *)
(* between any two of its steps.                                           *)
(*                                                                         *)
(* A step is one command with the wait for its response, one word, or one  *)
(* wait that ends, well or with a time-out.  Loops that count polls only   *)
(* to give up do so here whenever what they wait for is not there.  The    *)
(* multiple block transfers have no caller and are left out.               *)
(***************************************************************************)
EXTENDS SdCard

CONSTANTS
    BaseMHz,   \* base clock in the capabilities register, 0 if it is not given
    MaxPolls   \* bound: turns of the loops of sd_init and sdhci_wait_ready

ASSUME HostAssumption == BaseMHz \in 0 .. 255 /\ MaxPolls \in Nat \ {0}

VARIABLES
    pc,
    cmd,       \* the command sd_init is about to send
    v2,        \* supports_v2
    sdhc,      \* sd_is_sdhc
    clock,     \* divisor of the clock, 0 while it is off
    polls,     \* turns of the running loop
    tries,     \* attempts that have failed
    req,       \* the call: read or write, sector, and the value to write
    buf,       \* words of the buffer that have been filled, or sent
    ret,       \* what the last call returned
    open       \* was a transfer of an earlier call under way?  (Auxiliary.)

driver == <<pc, cmd, v2, sdhc, clock, polls, tries, req, buf, ret, open>>
vars   == <<cardVars, hostVars, spoilt, driver>>

Call  == [op : {"read", "write"}, lba : Lba, val : Word]
NoRet == [op |-> "none", ok |-> FALSE, lba |-> 0, val |-> Garbage, buf |-> <<>>]

-----------------------------------------------------------------------------
(* sdhci_set_clock_hz. *)

BaseHz == (IF BaseMHz = 0 THEN 100 ELSE BaseMHz) * 1000000

\* Mutant of Divisor: the quotient is rounded down.
DivisorDown(hz) == LET d == BaseHz \div (hz * 2)
                   IN  IF d = 0 THEN 1 ELSE IF d > 1023 THEN 1023 ELSE d
Divisor(hz) == LET d == (BaseHz + (hz * 2 - 1)) \div (hz * 2)
               IN  IF d = 0 THEN 1 ELSE IF d > 1023 THEN 1023 ELSE d

Slow   == 400000
Normal == 1000000

-----------------------------------------------------------------------------
(* sdhci_send_cmd: ok says what it returns. *)

SendCmd(c, arg, ok) ==
    \/ ok /\ Answered(c, arg)
    \/ /\ ~ok
       /\ \/ Blocked(c) /\ UNCHANGED <<cardVars, hostVars, spoilt>>
          \/ Unanswered(c, arg)

-----------------------------------------------------------------------------
(* sd_init.  Power and clock are asked for through the mailbox first; whether *)
(* that works the code does not look at: a card without power is no card.     *)

callVars == <<tries, req, buf, ret, open>>

HostReset ==
    /\ pc = "reset"
    /\ \/ /\ inhibit' = FALSE /\ xfer' = NoXfer /\ int' = {}
          /\ pc' = "init" /\ clock' = Divisor(Slow)
       \/ pc' = "off" /\ UNCHANGED <<inhibit, xfer, int, clock>>
    /\ UNCHANGED <<cardVars, resetting, spoilt, cmd, v2, sdhc, polls, callVars>>

\* Mutant of NextCmd: the card is never selected.
NextCmdUnselected(c) == CASE c = 0 -> 8 [] c = 55 -> 41 [] c = 2 -> 3 [] c = 3 -> -1
\* The commands that must succeed, in their order; -1 after the last.
NextCmd(c) == CASE c = 0 -> 8 [] c = 55 -> 41 [] c = 2 -> 3 [] c = 3 -> 7
                [] c = 7 -> IF sdhc THEN -1 ELSE 16 [] c = 16 -> -1

Identify ==
    /\ pc = "init" /\ cmd \in {0, 55, 2, 3, 7, 16}
    /\ \E ok \in BOOLEAN :
         /\ SendCmd(cmd, 0, ok)
         /\ \/ ~ok /\ pc' = "off" /\ UNCHANGED <<cmd, clock>>
            \/ ok /\ NextCmd(cmd) # -1 /\ cmd' = NextCmd(cmd) /\ UNCHANGED <<pc, clock>>
            \/ /\ ok /\ NextCmd(cmd) = -1
               /\ pc' = "idle" /\ clock' = Divisor(Normal) /\ UNCHANGED cmd
    /\ UNCHANGED <<v2, sdhc, polls, callVars>>

\* CMD8: a card of version 1 does not answer, which is no error.
CheckVoltage ==
    /\ pc = "init" /\ cmd = 8
    /\ \E ok \in BOOLEAN : SendCmd(8, 0, ok) /\ v2' = ok
    /\ cmd' = 55
    /\ UNCHANGED <<pc, sdhc, clock, polls, callVars>>

\* Mutant of LastPoll: the loop has no end.
LastPollNever == FALSE
LastPoll == polls + 1 = MaxPolls

\* ACMD41: the card is asked again until it is ready, or for too long.
PowerUp ==
    /\ pc = "init" /\ cmd = 41
    /\ \E ok \in BOOLEAN :
         /\ SendCmd(41, IF v2 THEN HCS ELSE 0, ok)
         /\ \/ ~ok /\ pc' = "off" /\ UNCHANGED <<cmd, polls, sdhc>>
            \/ /\ ok /\ card'.phase = "ready"
               /\ cmd' = 2 /\ sdhc' = (kind = "hc") /\ UNCHANGED <<pc, polls>>
            \/ /\ ok /\ card'.phase # "ready"
               /\ cmd' = 55 /\ polls' = polls + 1
               /\ pc' = IF LastPoll THEN "off" ELSE pc
               /\ UNCHANGED sdhc
    /\ UNCHANGED <<v2, clock, callVars>>

-----------------------------------------------------------------------------
(* sd_read_block and sd_write_block. *)

\* A command or a transfer is still under way.
Open == inhibit \/ xfer # NoXfer \/ card.phase # "tran"

Begin(call) ==
    /\ pc = "idle"
    /\ req' = call /\ buf' = <<>> /\ tries' = 0 /\ polls' = 0 /\ spoilt' = FALSE
    /\ ret' = NoRet /\ open' = Open
    /\ UNCHANGED <<cardVars, inhibit, xfer, int, cmd, v2, sdhc>>

ReadBlock(lba) ==
    /\ Begin([op |-> "read", lba |-> lba, val |-> Garbage])
    /\ pc' = "send"
    /\ UNCHANGED <<resetting, clock>>

\* Mutant of WriteBlock: the lines are not reset.
WriteBlockUnreset(lba, v) ==
    /\ Begin([op |-> "write", lba |-> lba, val |-> v])
    /\ clock' = Divisor(Slow) /\ pc' = "lines"
    /\ UNCHANGED resetting
\* The command and data lines are reset first, at a low clock.
WriteBlock(lba, v) ==
    /\ Begin([op |-> "write", lba |-> lba, val |-> v])
    /\ clock' = Divisor(Slow) /\ resetting' = TRUE
    /\ pc' = "lines"

\* The loop ends when the reset is over, or the patience of the driver.
LinesPolled ==
    /\ pc = "lines" /\ pc' = "ready"
    /\ spoilt' = (spoilt \/ resetting)
    /\ UNCHANGED <<cardVars, hostVars, cmd, v2, sdhc, clock, polls, tries, req, buf, ret, open>>

Return(ok) ==
    /\ pc' = "idle"
    /\ ret' = [op |-> req.op, ok |-> ok, lba |-> req.lba, val |-> req.val,
               buf |-> IF ok THEN buf ELSE <<>>]

\* Mutant of Fail: attempts are not counted.
FailForever ==
    /\ buf' = <<>> /\ polls' = 0 /\ UNCHANGED <<ret, tries, clock>>
    /\ pc' = IF req.op = "read" THEN "send" ELSE "ready"
\* An attempt has failed: there is one more, for a read at the normal clock.
Fail ==
    \/ /\ tries = 0 /\ tries' = 1 /\ buf' = <<>> /\ polls' = 0 /\ UNCHANGED ret
       /\ \/ req.op = "read" /\ pc' = "send" /\ clock' = Divisor(Normal)
          \/ req.op = "write" /\ pc' = "ready" /\ UNCHANGED clock
    \/ tries = 1 /\ Return(FALSE) /\ UNCHANGED <<tries, buf, polls, clock>>

\* sdhci_wait_ready: CMD13 until the card is in the transfer state.
WaitReady ==
    /\ pc = "ready"
    /\ \E ok \in BOOLEAN :
         /\ SendCmd(13, 0, ok)
         /\ \/ ~ok /\ Fail
            \/ /\ ok /\ card.phase = "tran"
               /\ pc' = "send" /\ UNCHANGED <<clock, polls, tries, buf, ret>>
            \/ /\ ok /\ card.phase # "tran" /\ ~LastPoll
               /\ polls' = polls + 1 /\ UNCHANGED <<pc, clock, tries, buf, ret>>
            \/ ok /\ card.phase # "tran" /\ LastPoll /\ Fail
    /\ UNCHANGED <<cmd, v2, sdhc, req, open>>

\* Mutant of Argument: the address is always in bytes.
ArgumentBytes(lba) == lba * SectorSize
Argument(lba) == IF sdhc THEN lba ELSE lba * SectorSize

SendData ==
    /\ pc = "send"
    /\ \E ok \in BOOLEAN :
         /\ SendCmd(IF req.op = "read" THEN 17 ELSE 24, Argument(req.lba), ok)
         /\ \/ ~ok /\ Fail
            \/ ok /\ pc' = "words" /\ UNCHANGED <<clock, polls, tries, buf, ret>>
    /\ UNCHANGED <<cmd, v2, sdhc, req, open>>

ReadReady  == xfer.dir = "read"  /\ xfer.fifo # <<>>
WriteReady == xfer.dir = "write" /\ xfer.host < Words

Move(word) ==
    /\ buf' = Append(buf, word)
    /\ pc' = IF Len(buf') = Words THEN "done" ELSE pc
    /\ UNCHANGED <<cardVars, inhibit, int, resetting, spoilt>>
    /\ UNCHANGED <<cmd, v2, sdhc, clock, polls, tries, req, ret, open>>

ReadWord ==
    /\ pc = "words" /\ req.op = "read" /\ ReadReady
    /\ Move(Head(xfer.fifo))
    /\ xfer' = [xfer EXCEPT !.fifo = Tail(@), !.host = @ + 1]

WriteWord ==
    /\ pc = "words" /\ req.op = "write" /\ WriteReady
    /\ Move(req.val)
    /\ xfer' = [xfer EXCEPT !.fifo = Append(@, req.val), !.host = @ + 1]

\* The driver gives up, on the next word or on the end of the transfer.
TimeOut ==
    /\ \/ pc = "words" /\ ~(IF req.op = "read" THEN ReadReady ELSE WriteReady)
       \/ pc = "done" /\ "done" \notin int
    /\ spoilt' = TRUE
    /\ Fail
    /\ UNCHANGED <<cardVars, hostVars, cmd, v2, sdhc, req, open>>

\* Mutant of Finish: the end of the transfer is not waited for.
FinishEarly ==
    /\ pc = "done"
    /\ UNCHANGED <<cardVars, hostVars, spoilt>>
    /\ Return(TRUE)
    /\ UNCHANGED <<cmd, v2, sdhc, clock, polls, tries, req, buf, open>>
Finish ==
    /\ pc = "done" /\ "done" \in int
    /\ int' = int \ {"done"}
    /\ UNCHANGED <<cardVars, inhibit, xfer, resetting, spoilt>>
    /\ Return(TRUE)
    /\ UNCHANGED <<cmd, v2, sdhc, clock, polls, tries, req, buf, open>>

-----------------------------------------------------------------------------
TypeOK ==
    /\ CardTypeOK
    /\ pc \in {"reset", "init", "off", "idle", "lines", "ready", "send", "words", "done"}
    /\ cmd \in {0, 8, 55, 41, 2, 3, 7, 16}
    /\ v2 \in BOOLEAN /\ sdhc \in BOOLEAN
    /\ clock \in 0 .. 1023
    /\ polls \in 0 .. MaxPolls /\ tries \in 0 .. 1
    /\ req \in Call
    /\ buf \in Burst
    /\ ret \in [op : {"none", "read", "write"}, ok : BOOLEAN, lba : Lba \cup {0},
                val : Word, buf : Burst]
    /\ open \in BOOLEAN

Init ==
    /\ CardInit
    /\ pc = "reset" /\ cmd = 0 /\ v2 = FALSE /\ sdhc = FALSE
    /\ clock = 0 /\ polls = 0 /\ tries = 0 /\ buf = <<>> /\ ret = NoRet /\ open = FALSE
    /\ req = CHOOSE call \in Call : TRUE

Driver ==
    \/ HostReset \/ Identify \/ CheckVoltage \/ PowerUp
    \/ LinesPolled \/ WaitReady \/ SendData \/ ReadWord \/ WriteWord \/ TimeOut \/ Finish

Next ==
    \/ \E lba \in Lba : ReadBlock(lba) \/ \E v \in Value : WriteBlock(lba, v)
    \/ Driver
    \/ Device /\ UNCHANGED driver

Spec == Init /\ [][Next]_vars

\* The processor goes on with the call it is at.
FairSpec == Spec /\ WF_vars(Driver)

=============================================================================
