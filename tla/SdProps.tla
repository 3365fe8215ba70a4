------------------------------ MODULE SdProps ------------------------------
(* What the driver of SdHost keeps up between a slow or failing card and the *)
(* file system.                                                              *)
EXTENDS SdHost

Calling     == pc \in {"lines", "ready", "send", "words", "done"}
Returns(op) == Calling /\ pc' = "idle" /\ req.op = op

\* When sd_init reports success, the card has been led into its transfer state, the
\* driver names sectors in the unit the card does, whatever card it is and
\* whichever commands went unanswered, and no command is stuck (sd_init, 322-369).
InitLeavesReady ==
    [][pc = "init" /\ pc' = "idle" =>
         /\ card'.phase = "tran" /\ ~inhibit' /\ xfer' = NoXfer
         /\ sdhc = (kind = "hc")]_vars

\* The clock is never faster than what was asked for: 400 kHz until the card is
\* selected, 1 MHz afterwards (sdhci_set_clock_hz and its calls).
ClockWithinLimit ==
    /\ clock # 0 => BaseHz <= 2 * clock * Normal
    /\ card.phase \in {"ready", "ident", "stby"} => clock # 0 /\ BaseHz <= 2 * clock * Slow

\* A read that meets no fault of its own fails only if an earlier call left the
\* lines or the card busy: sd_read_block, unlike sd_write_block, neither resets
\* the lines nor waits for the card.
ReadsRecover == [][Returns("read") /\ ~ret'.ok /\ ~spoilt' => open]_vars

\* A write that meets no fault of its own clears whatever earlier calls left of
\* the lines, and fails only if the card itself is still at a transfer (the reset
\* in sd_write_block, and sdhci_wait_ready).
WritesRecover ==
    [][Returns("write") /\ ~ret'.ok /\ ~spoilt' => card'.phase # "tran"]_vars

-----------------------------------------------------------------------------
(* The promise of BlockDevice. *)

\* The words of a write the card has, or can still get.
InFlight == card.held \o (IF xfer.dir = "write" THEN xfer.fifo ELSE <<>>)
Pending ==
    IF card.phase \in {"rcv", "prg"} /\ Len(InFlight) = Words
    THEN {[lba |-> card.lba, val |-> Held(InFlight)]} ELSE {}

Outcome ==
    [op |-> ret.op, ok |-> ret.ok, lba |-> ret.lba,
     data |-> IF ret.op = "write" /\ ret.ok THEN ret.val
              ELSE IF ret.buf = <<>> THEN Garbage ELSE Held(ret.buf)]

Abstract == INSTANCE BlockDevice WITH
    Damaged <- Garbage,
    disk    <- sectors,
    call    <- IF Calling THEN req ELSE [op |-> "none", lba |-> 0, val |-> Garbage],
    pending <- Pending,
    ret     <- Outcome,
    flag    <- "error" \in int

\* What succeeds is true, also when data, its end or a reset comes late and an
\* attempt is repeated meanwhile; a write that failed reaches the card, if at all,
\* before any later call succeeds; nothing else ever reaches it.  The one
\* exception is data the controller marks as damaged: nobody looks at INT_ERROR
\* after the command (sd_rpi.c, 251-264 and 277-290).
ImplementsBlockDevice == Abstract!Spec

\* sd_init and every call come to an end, whatever the card does: each loop has its
\* bound, and each call two attempts.
CallsEnd == []<>(pc \in {"idle", "off"})

=============================================================================
