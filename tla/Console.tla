------------------------------- MODULE Console -------------------------------
(***************************************************************************)
(* The console: characters that come in over the UART, the line editor and *)
(* the timing demos of the kernel shell (kernel/ksh.c), and the screen     *)
(* that uart_putc draws on (kernel/uart.c, kernel/fb.c).                   *)
(*                                                                         *)
(* A step is one character taken from the UART with all that the shell     *)
(* prints for it, or one look at the clock.  Of the other commands only    *)
(* what they print matters here: module Fat32 has those on files.          *)
(***************************************************************************)
EXTENDS Integers, SequencesExt

CONSTANTS
    fb_width, fb_height,  \* in pixels, as the firmware answers
    Chars,                \* characters that are typed into a line
    Prompt,               \* what ksh_prompt prints
    Outputs,              \* what a command may print
    RtLine,               \* what a demo prints in a round
    Demos,                \* the timing demos: command, period, rounds, stress
    BootDemo,             \* the one that runs before the shell
    KSH_MAX_CMD,
    MaxElapsed            \* bound: ticks from one look at the clock to the next

LF == "LF"   CR == "CR"   BS == "BS"   Space == " "   Nothing == "no character"
GLYPH == 16

ASSUME ConsoleAssumption ==
    /\ fb_width \in Nat /\ fb_width >= GLYPH /\ fb_height \in Nat /\ fb_height >= GLYPH
    /\ KSH_MAX_CMD \in Nat \ {0} /\ MaxElapsed \in Nat
    /\ BootDemo \in Demos
    /\ {LF, CR, BS, Space, Nothing} \cap Chars = {}

\* Every command and every round of a demo ends what it prints with a line end,
\* or, as "clear", prints no character that takes the cursor back.
ASSUME TextAssumption ==
    /\ Prompt \in Seq(Range(Prompt)) /\ {LF, CR, BS} \cap Range(Prompt) = {}
    /\ \A text \in {RtLine} \cup Outputs :
         /\ text \in Seq(Range(text))
         /\ \E n \in 0 .. Len(text) :
              /\ n > 0 => text[n] = LF
              /\ {CR, BS} \cap {text[k] : k \in n + 1 .. Len(text)} = {}

ASSUME DemosAssumption ==
    \A d \in Demos : d.period \in Nat \ {0} /\ d.stress \in BOOLEAN

VARIABLES
    fb_ready,
    screen,    \* the glyphs on it, and the cursor
    rx,        \* the character the UART holds
    buf,       \* the line so far: idx is its length
    pc,        \* "line": the shell's loop; "round", "work", "wait": in a demo
    demo,      \* the demo that runs, or ran last
    round, miss,
    due,       \* next - system_ticks
    atEdge,    \* was a character rubbed out at the left edge?  (Auxiliary.)
    slow       \* has a stretch of the demo taken long?  (Auxiliary.)

line  == <<buf, atEdge>>
clock == <<demo, round, miss, due, slow>>
vars  == <<fb_ready, screen, rx, pc, line, clock>>

Col == 0 .. (fb_width \div GLYPH) - 1
Row == 0 .. (fb_height \div GLYPH) - 1

-----------------------------------------------------------------------------
(* The screen. *)

BlankRow == [c \in Col |-> Space]
Cleared  == [cells |-> [r \in Row |-> BlankRow], x |-> 0, y |-> 0]

fb_scroll(s) ==
    [s EXCEPT !.cells = [r \in Row |-> IF r + 1 \in Row THEN s.cells[r + 1] ELSE BlankRow],
              !.y = IF @ > 0 THEN @ - 1 ELSE @]

\* Mutant of Below: the screen is not scrolled.
BelowUnscrolled(s) == [s EXCEPT !.x = 0, !.y = @ + 1]
Below(s) ==
    LET t == [s EXCEPT !.x = 0, !.y = @ + 1]
    IN  IF (t.y + 1) * GLYPH > fb_height THEN fb_scroll(t) ELSE t

Drawn(s, c) ==
    LET t == [s EXCEPT !.cells[s.y][s.x] = c, !.x = @ + 1]
    IN  IF (t.x + 1) * GLYPH > fb_width THEN Below(t) ELSE t

fb_putc(s, c) ==
    CASE c = LF -> Below(s)
      [] c = CR -> [s EXCEPT !.x = 0]
      [] c = BS -> [s EXCEPT !.x = IF @ > 0 THEN @ - 1 ELSE @]
      [] OTHER  -> Drawn(s, c)

On(s, text) == FoldLeft(fb_putc, s, text)
uart_puts(text) == screen' = IF fb_ready THEN On(screen, text) ELSE screen

-----------------------------------------------------------------------------
(* The UART: its queue is switched off, so it holds one character, and what *)
(* comes in while it does is lost.                                          *)

ENTER == "CR or LF"   DELETE == "DEL or BS"

Typed(c) ==
    /\ rx = Nothing /\ rx' = c
    /\ UNCHANGED <<fb_ready, screen, pc, line, clock>>

-----------------------------------------------------------------------------
(* The line editor, kernel_shell_entry. *)

uart_try_getc(c) == pc = "line" /\ rx = c /\ rx' = Nothing

Insert ==
    /\ \E c \in Chars : uart_try_getc(c)
    /\ \/ Len(buf) < KSH_MAX_CMD - 1 /\ buf' = Append(buf, rx) /\ uart_puts(<<rx>>)
       \/ Len(buf) >= KSH_MAX_CMD - 1 /\ UNCHANGED <<buf, screen>>
    /\ UNCHANGED <<fb_ready, pc, atEdge, clock>>

\* Mutant of RubOut: the cursor goes back, the character stays.
RubOutShown ==
    /\ uart_try_getc(DELETE)
    /\ buf # <<>> /\ buf' = Front(buf) /\ uart_puts(<<BS>>)
    /\ atEdge' = (atEdge \/ (fb_ready /\ screen.x = 0))
    /\ UNCHANGED <<fb_ready, pc, clock>>
\* The framebuffer does not step back over its left edge.
RubOut ==
    /\ uart_try_getc(DELETE)
    /\ \/ /\ buf # <<>> /\ buf' = Front(buf) /\ uart_puts(<<BS, Space, BS>>)
          /\ atEdge' = (atEdge \/ (fb_ready /\ screen.x = 0))
       \/ buf = <<>> /\ UNCHANGED <<buf, screen, atEdge>>
    /\ UNCHANGED <<fb_ready, pc, clock>>

\* What follows ksh_handle, or an empty line.
NewLine(text) == uart_puts(text \o Prompt) /\ buf' = <<>> /\ atEdge' = FALSE

Enter ==
    /\ uart_try_getc(ENTER)
    /\ \/ buf = <<>> /\ NewLine(<<LF>>)
       \/ /\ buf # <<>> /\ \A d \in Demos : d.command # buf
          /\ \E text \in Outputs : NewLine(<<LF>> \o text)
    /\ UNCHANGED <<fb_ready, pc, clock>>

-----------------------------------------------------------------------------
(* The demos: rt and rt-stress of the shell, and boot_demo of the boot code. *)

Started(d) ==
    /\ demo' = d /\ round' = 0 /\ miss' = 0
    /\ due' = d.period /\ slow' = FALSE
    /\ pc' = "round"

EnterDemo ==
    /\ uart_try_getc(ENTER)
    /\ \E d \in Demos \ {BootDemo} : d.command = buf /\ Started(d)
    /\ uart_puts(<<LF>> \o RtLine)
    /\ UNCHANGED <<fb_ready, line>>

\* A stretch that takes long: half of the period, or a third for rt-stress, which
\* looks at the clock after its work too.
Long(e) == (IF demo.stress THEN 3 ELSE 2) * e > demo.period + 1

timer_update_ticks(e) == due' = due - e /\ slow' = (slow \/ Long(e))

\* Mutant of Missed: a deadline is missed the moment it comes.
MissedOnTime(d) == d <= 0
\* now > next
Missed(d) == d < 0

Counted == miss' = IF Missed(due') THEN miss + 1 ELSE miss

Round ==
    /\ pc = "round"
    /\ \E e \in 0 .. MaxElapsed : timer_update_ticks(e)
    /\ Counted
    /\ uart_puts(RtLine)
    /\ pc' = IF demo.stress THEN "work" ELSE "wait"
    /\ UNCHANGED <<fb_ready, rx, line, demo, round>>

HeavyWork ==
    /\ pc = "work" /\ pc' = "wait"
    /\ \E e \in 0 .. MaxElapsed : timer_update_ticks(e)
    /\ Counted
    /\ UNCHANGED <<fb_ready, screen, rx, line, demo, round>>

\* The test comes first, with the ticks the last look has left.
BusyWait ==
    /\ pc = "wait" /\ due > 0
    /\ \E e \in 0 .. MaxElapsed : timer_update_ticks(e)
    /\ UNCHANGED <<fb_ready, screen, rx, pc, line, demo, round, miss>>

RoundOver ==
    /\ pc = "wait" /\ due <= 0
    /\ due' = due + demo.period /\ round' = round + 1
    /\ \/ /\ round' < demo.rounds /\ pc' = "round"
          /\ UNCHANGED <<screen, line>>
       \/ /\ round' = demo.rounds /\ pc' = "line"
          /\ NewLine(RtLine)
    /\ UNCHANGED <<fb_ready, rx, demo, miss, slow>>

-----------------------------------------------------------------------------
\* fb_init has cleared the screen, if it worked; the boot code has printed.
Init ==
    /\ fb_ready \in BOOLEAN
    /\ \E text \in Outputs : screen = IF fb_ready THEN On(Cleared, text) ELSE Cleared
    /\ rx = Nothing /\ buf = <<>> /\ atEdge = FALSE
    /\ pc = "round" /\ demo = BootDemo
    /\ round = 0 /\ miss = 0 /\ due = BootDemo.period /\ slow = FALSE

Next ==
    \/ \E c \in Chars \cup {ENTER, DELETE} : Typed(c)
    \/ Insert \/ RubOut \/ Enter \/ EnterDemo
    \/ Round \/ HeavyWork \/ BusyWait \/ RoundOver

Spec == Init /\ [][Next]_vars

-----------------------------------------------------------------------------
\* The cursor never leaves the screen, and what the user sees is what the shell
\* will take: up to the cursor the screen reads the prompt and the line, over as
\* many rows as they need and are still there, and past it the row is blank.
\* Only a character rubbed out at the left edge of the screen spoils this.
ScreenShowsLine ==
    /\ screen.x \in Col /\ screen.y \in Row
    /\ pc = "line" /\ fb_ready /\ ~atEdge =>
         LET shown    == Prompt \o buf
             width    == fb_width \div GLYPH
             place    == screen.y * width + screen.x
             glyph(p) == screen.cells[p \div width][p % width]
         IN  /\ \A k \in 1 .. Len(shown) :
                  k <= place => glyph(place - k) = shown[Len(shown) + 1 - k]
             /\ \A c \in Col : c >= screen.x => screen.cells[screen.y][c] = Space

\* README.md, line 152, of rt: "meets deadlines".  No demo counts a miss as long
\* as no stretch from one look at the clock to the next takes long, although it
\* may come late to a round, and tests the ticks of its last look.
DemosMeetDeadlines == ~slow => miss = 0

=============================================================================
