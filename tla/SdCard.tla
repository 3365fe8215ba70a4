------------------------------- MODULE SdCard -------------------------------
(***************************************************************************)
(* The SD card and the SDHCI controller, as block/sd_rpi.c relies on them. *)
(* Neither is part of the repository: what is said of them here is what    *)
(* the driver's register accesses presuppose, and every way in which they  *)
(* may let it down.                                                        *)
(*                                                                         *)
(* A command is answered long before the driver stops polling, or never:   *)
(* an exchange is one step.  Data and the end of programming come at any   *)
(* time, also when nobody waits for them any more.                         *)
(***************************************************************************)
EXTENDS Integers, Sequences

CONSTANTS
    Lba,       \* sectors of the card
    Value,     \* what a sector may hold
    Words,     \* words of a sector: 128 on the device
    Kinds,     \* cards that may be in the slot
    Faults,    \* subset of FaultNames: what may go wrong
    Garbage    \* a word, or a sector, spoilt on its way

FaultNames == {"command",  \* a command or its response is lost
               "data"}     \* a word is spoilt, or a sector refused

ASSUME CardAssumption ==
    /\ Lba \subseteq Nat /\ Lba # {}
    /\ Garbage \notin Value
    /\ Words \in Nat \ {0}
    /\ Kinds \subseteq {"none", "v1", "v2", "hc"}
    /\ Faults \subseteq FaultNames

SectorSize == 512

VARIABLES
    kind,      \* "none" in the slot; version 1; version 2; high capacity
    card,      \* state of the card, and the sector it is at
    sectors,
    inhibit,   \* STATUS_CMD_INHIBIT
    xfer,      \* the transfer the controller is at; STATUS_DAT_INHIBIT if any
    int,       \* INT_STATUS, but for INT_CMD_DONE, which ends an exchange
    resetting, \* SW_RESET reads as not yet zero
    spoilt     \* has anything gone wrong during the request?  (Auxiliary.)

cardVars == <<kind, card, sectors>>
hostVars == <<inhibit, xfer, int, resetting>>

Word      == Value \cup {Garbage}
Burst     == UNION {[1 .. n -> Word] : n \in 0 .. Words}
NoXfer    == [dir |-> "none", fifo |-> <<>>, host |-> 0]
Xfer(dir) == [dir |-> dir, fifo |-> <<>>, host |-> 0]
Phase     == {"idle", "ready", "ident", "stby", "tran", "data", "rcv", "prg"}
Resting   == [phase |-> "idle", lba |-> 0, count |-> 0, held |-> <<>>]

CardTypeOK ==
    /\ kind \in Kinds
    /\ card \in [phase : Phase, lba : Lba \cup {0}, count : 0 .. Words, held : Burst]
    /\ sectors \in [Lba -> Word]
    /\ inhibit \in BOOLEAN
    /\ xfer \in [dir : {"none", "read", "write"}, fifo : Burst, host : 0 .. Words]
    /\ int \subseteq {"done", "error"}
    /\ resetting \in BOOLEAN
    /\ spoilt \in BOOLEAN

CardInit ==
    /\ kind \in Kinds
    /\ card = Resting
    /\ sectors \in [Lba -> Value]
    /\ inhibit \in BOOLEAN /\ xfer = NoXfer /\ int = {} /\ resetting = FALSE
    /\ spoilt = FALSE

-----------------------------------------------------------------------------
(* Commands. *)

Data(c) == c \in {17, 24}

\* The sector an argument names: bytes, or sectors on a high capacity card.
Sector(arg) == IF kind = "hc" THEN arg ELSE arg \div SectorSize

\* When the card answers c, and the states that may follow.  ACMD41 may find it
\* still busy; a card of high capacity stays so unless the argument says that the
\* host knows such cards.
Answers(c, arg) ==
    /\ kind # "none"
    /\ \/ c = 8  /\ card.phase = "idle" /\ kind \in {"v2", "hc"}
       \/ c \in {55, 41} /\ card.phase = "idle"
       \/ c = 2  /\ card.phase = "ready"
       \/ c = 3  /\ card.phase = "ident"
       \/ c = 7  /\ card.phase = "stby"
       \/ c = 13 /\ card.phase \in {"stby", "tran", "data", "rcv", "prg"}
       \/ c = 16 /\ card.phase = "tran"
       \/ Data(c) /\ card.phase = "tran" /\ Sector(arg) \in Lba

HCS == 1
After(c, arg) ==
    CASE c = 2 -> {"ident"} [] c = 3 -> {"stby"} [] c = 7 -> {"tran"}
      [] c = 17 -> {"data"} [] c = 24 -> {"rcv"}
      [] c = 41 -> {"idle"} \cup (IF kind = "hc" /\ arg # HCS THEN {} ELSE {"ready"})
      [] OTHER -> {card.phase}

Take(c, arg) ==
    \E p \in After(c, arg) :
        card' = IF Data(c) THEN [phase |-> p, lba |-> Sector(arg), count |-> 0, held |-> <<>>]
                           ELSE [card EXCEPT !.phase = p]

Begun(c) == IF Data(c) THEN Xfer(IF c = 17 THEN "read" ELSE "write") ELSE xfer

Blocked(c) == inhibit \/ (Data(c) /\ xfer # NoXfer)

\* The command is sent and answered; CMD0 has no answer.
Answered(c, arg) ==
    /\ ~Blocked(c)
    /\ int' = {}
    /\ xfer' = Begun(c)
    /\ \/ c = 0 /\ card' = Resting
       \/ Answers(c, arg) /\ Take(c, arg)
    /\ UNCHANGED <<kind, sectors, inhibit, resetting, spoilt>>

\* No response, or a damaged one: the card may have taken the command all the
\* same, and the controller may want a reset of its lines before the next one.
Unanswered(c, arg) ==
    /\ ~Blocked(c) /\ c # 0
    /\ int' = {}
    /\ inhibit' \in BOOLEAN
    /\ xfer' \in {xfer, Begun(c)}
    /\ \/ ~Answers(c, arg) /\ UNCHANGED <<card, spoilt>>
       \/ /\ Answers(c, arg) /\ "command" \in Faults /\ spoilt' = TRUE
          /\ UNCHANGED card \/ Take(c, arg)
    /\ UNCHANGED <<kind, sectors, resetting>>

-----------------------------------------------------------------------------
(* What happens while the driver polls. *)

Spoils == "data" \in Faults /\ spoilt' = TRUE /\ int' = int \cup {"error"}
Intact == UNCHANGED <<spoilt, int>>

\* The card sends the next word, whether or not the controller still listens.
CardSends ==
    /\ card.phase = "data"
    /\ card' = [card EXCEPT !.count = @ + 1,
                            !.phase = IF card.count + 1 = Words THEN "tran" ELSE @]
    /\ \/ /\ xfer.dir = "read" /\ Len(xfer.fifo) + xfer.host = card.count
          /\ \/ Intact /\ xfer' = [xfer EXCEPT !.fifo = Append(@, sectors[card.lba])]
             \/ Spoils /\ xfer' = [xfer EXCEPT !.fifo = Append(@, Garbage)]
       \/ /\ ~(xfer.dir = "read" /\ Len(xfer.fifo) + xfer.host = card.count)
          /\ Intact /\ UNCHANGED xfer
    /\ UNCHANGED <<kind, sectors, inhibit, resetting>>

\* The driver has fetched the last word.
ReadDone ==
    /\ xfer.dir = "read" /\ xfer.host = Words
    /\ xfer' = NoXfer /\ int' = int \cup {"done"}
    /\ UNCHANGED <<cardVars, inhibit, resetting, spoilt>>

\* The next word reaches the card, the last one with the checksum.  A sector that
\* is refused may or may not count as done to the controller.
CardTakes ==
    /\ card.phase = "rcv" /\ xfer.dir = "write" /\ xfer.fifo # <<>>
    /\ LET held == Append(card.held, Head(xfer.fifo))
       IN  \/ /\ card' = [card EXCEPT !.held = held,
                                      !.phase = IF Len(held) = Words THEN "prg" ELSE @]
              /\ xfer' = [xfer EXCEPT !.fifo = Tail(@)]
              /\ Intact
           \/ /\ Len(held) = Words /\ "data" \in Faults
              /\ card' = [card EXCEPT !.phase = "tran", !.held = <<>>]
              /\ xfer' = NoXfer
              /\ \E done \in {{}, {"done"}} : int' = int \cup {"error"} \cup done
              /\ spoilt' = TRUE
    /\ UNCHANGED <<kind, sectors, inhibit, resetting>>

\* What a sector holds after the words it was sent.
Held(words) == IF \A i \in DOMAIN words : words[i] = words[1] THEN words[1] ELSE Garbage

CardStores ==
    /\ card.phase = "prg"
    /\ sectors' = [sectors EXCEPT ![card.lba] = Held(card.held)]
    /\ card' = [card EXCEPT !.phase = "tran", !.held = <<>>]
    /\ \/ xfer.dir = "write" /\ xfer' = NoXfer /\ int' = int \cup {"done"}
       \/ xfer.dir # "write" /\ UNCHANGED <<xfer, int>>
    /\ UNCHANGED <<kind, inhibit, resetting, spoilt>>

\* A reset of the lines ends the transfer of the controller, not that of the card.
LinesReset ==
    /\ resetting /\ resetting' = FALSE
    /\ inhibit' = FALSE /\ xfer' = NoXfer
    /\ UNCHANGED <<cardVars, int, spoilt>>

Device == CardSends \/ ReadDone \/ CardTakes \/ CardStores \/ LinesReset

=============================================================================
