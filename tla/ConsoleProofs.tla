--------------------------- MODULE ConsoleProofs ---------------------------
(***************************************************************************)
(* ScreenShowsLine and DemosMeetDeadlines hold in every state, for every   *)
(* size of the screen, text and demo.                                      *)
(*                                                                         *)
(* What a text does to the screen is a fold over its characters.  Its      *)
(* screens after each character are a trace, and what every character      *)
(* preserves holds along a trace, by induction on its length.              *)
(***************************************************************************)
EXTENDS Console, WellFoundedInduction, SequenceTheorems, TLAPS

\* What holds of 0, and of n + 1 if of n, holds of every number.
LEMMA Induction ==
    ASSUME NEW T, T \subseteq Nat, 0 \in T, \A n \in T : n + 1 \in T
    PROVE  T = Nat
<1> SUFFICES ASSUME Nat \ T # {} PROVE FALSE
  OBVIOUS
<1>1. IsWellFoundedOn(OpToRel(<, Nat), Nat)
  BY NatLessThanWellFounded
<1>2. PICK n \in Nat \ T : \A m \in Nat \ T : <<m, n>> \notin OpToRel(<, Nat)
  BY <1>1, WFMin
<1>3. \A m \in Nat \ T : ~ (m < n)
  BY <1>2 DEF OpToRel
<1>4. n - 1 \in Nat /\ n - 1 < n
  <2>1. n # 0
    OBVIOUS
  <2> QED  BY <2>1
<1>5. n - 1 \in T
  BY <1>3, <1>4
<1>6. (n - 1) + 1 \in T
  BY <1>5
<1> QED  BY <1>6

-----------------------------------------------------------------------------
(* Folds and traces.                                                        *)

\* h holds the screens from s on, one for each character of text.
IsTrace(h, s, text) ==
    /\ h \in [0 .. Len(text) -> Range(h)]
    /\ h[0] = s
    /\ \A n \in 0 .. Len(text) - 1 : h[n + 1] = fb_putc(h[n], text[n + 1])

\* One step of the fold, when f holds what it makes of smaller sets.
Folded(f, s, text, S) ==
    IF S = {} THEN s ELSE fb_putc(f[S \ {Max(S)}], text[Max(S)])

IsFold(f, s, text, n) == f = [S \in SUBSET (1 .. n) |-> Folded(f, s, text, S)]

LEMMA MaxLast ==
    ASSUME NEW n \in Nat, NEW S \in SUBSET (1 .. n + 1), n + 1 \in S
    PROVE  Max(S) = n + 1
<1>1. \A y \in S : n + 1 >= y
  OBVIOUS
<1>2. \A x \in S : (\A y \in S : x >= y) => x = n + 1
  OBVIOUS
<1> QED  BY <1>1, <1>2 DEF Max

LEMMA FoldExists ==
    ASSUME NEW s, NEW text
    PROVE  \A n \in Nat : \E f : IsFold(f, s, text, n)
<1> DEFINE T == {n \in Nat : \E f : IsFold(f, s, text, n)}
<1>1. 0 \in T
  <2> DEFINE f == [S \in SUBSET (1 .. 0) |-> s]
  <2>1. \A S \in SUBSET (1 .. 0) : S = {}
    OBVIOUS
  <2>2. \A S \in SUBSET (1 .. 0) : Folded(f, s, text, S) = s
    BY <2>1 DEF Folded
  <2>3. IsFold(f, s, text, 0)
    BY <2>2 DEF IsFold
  <2> QED  BY <2>3
<1>2. \A n \in T : n + 1 \in T
  <2> SUFFICES ASSUME NEW n \in Nat, NEW f, IsFold(f, s, text, n)
               PROVE  \E g : IsFold(g, s, text, n + 1)
    OBVIOUS
  <2> DEFINE g == [S \in SUBSET (1 .. n + 1) |->
                     IF S \in SUBSET (1 .. n) THEN f[S]
                     ELSE fb_putc(f[S \ {n + 1}], text[n + 1])]
  <2>1. ASSUME NEW S \in SUBSET (1 .. n) PROVE g[S] = Folded(g, s, text, S)
    <3>1. 1 .. n \subseteq 1 .. n + 1
      OBVIOUS
    <3>2. S \ {Max(S)} \in SUBSET (1 .. n)
      BY ONLY S \in SUBSET (1 .. n)
    <3>3. S \in SUBSET (1 .. n + 1) /\ S \ {Max(S)} \in SUBSET (1 .. n + 1)
      BY ONLY <3>1, <3>2, S \in SUBSET (1 .. n)
    <3>4. g[S] = f[S] /\ g[S \ {Max(S)}] = f[S \ {Max(S)}]
      BY <3>2, <3>3
    <3>5. f[S] = Folded(f, s, text, S)
      BY DEF IsFold
    <3> QED  BY <3>4, <3>5 DEF Folded
  <2>2. ASSUME NEW S \in SUBSET (1 .. n + 1), S \notin SUBSET (1 .. n)
        PROVE  g[S] = Folded(g, s, text, S)
    <3>1. n + 1 \in S
      BY <2>2
    <3>2. Max(S) = n + 1
      BY <3>1, MaxLast
    <3>3. S \ {n + 1} \in SUBSET (1 .. n)
      OBVIOUS
    <3>4. S \ {n + 1} \in SUBSET (1 .. n + 1)
      OBVIOUS
    <3>5. g[S \ {n + 1}] = f[S \ {n + 1}]
      BY <3>3, <3>4
    <3>6. g[S] = fb_putc(f[S \ {n + 1}], text[n + 1])
      BY <2>2
    <3> HIDE DEF g
    <3> QED  BY <3>1, <3>2, <3>5, <3>6 DEF Folded
  <2>3. \A S \in SUBSET (1 .. n + 1) : g[S] = Folded(g, s, text, S)
    BY <2>1, <2>2
  <2>4. g = [S \in SUBSET (1 .. n + 1) |-> g[S]]
    OBVIOUS
  <2> HIDE DEF g
  <2>5. IsFold(g, s, text, n + 1)
    BY <2>3, <2>4 DEF IsFold
  <2> QED  BY <2>5
<1>3. T = Nat
  <2> HIDE DEF T
  <2>1. T \subseteq Nat
    BY DEF T
  <2> QED  BY <1>1, <1>2, <2>1, Induction
<1> QED  BY <1>3

\* A text ends on the last screen of its trace.
LEMMA TraceEnds ==
    ASSUME NEW V, NEW text \in Seq(V), NEW s, NEW h, IsTrace(h, s, text)
    PROVE  On(s, text) = h[Len(text)]
<1> DEFINE N == Len(text)
           IsFoldOf(g) == g = [S \in SUBSET DOMAIN text |->
                                 IF S = {} THEN s
                                 ELSE fb_putc(g[S \ {Max(S)}], text[Max(S)])]
           g == CHOOSE g : IsFoldOf(g)
<1>1. On(s, text) = g[DOMAIN text]
  BY DEF On, FoldLeft, MapThenFoldSet
<1>2. N \in Nat /\ DOMAIN text = 1 .. N
  OBVIOUS
<1>3. \E f : IsFoldOf(f)
  <2>1. PICK f : IsFold(f, s, text, N)
    BY <1>2, FoldExists
  <2> QED  BY <1>2, <2>1 DEF IsFold, Folded
<1>4. IsFoldOf(g)
  <2> HIDE DEF IsFoldOf
  <2> QED  BY <1>3
<1>5. \A S \in SUBSET (1 .. N) : g[S] = IF S = {} THEN s ELSE fb_putc(g[S \ {Max(S)}], text[Max(S)])
  BY <1>2, <1>4
<1> HIDE DEF N, g
<1> DEFINE T == {n \in Nat : n <= N => g[1 .. n] = h[n]}
<1>6. 0 \in T
  <2>1. 1 .. 0 = {}
    OBVIOUS
  <2>2. g[{}] = s
    BY <1>5
  <2> QED  BY <2>1, <2>2 DEF IsTrace
<1>7. \A n \in T : n + 1 \in T
  <2> SUFFICES ASSUME NEW n \in Nat, n \in T, n + 1 <= N
               PROVE  g[1 .. n + 1] = h[n + 1]
    OBVIOUS
  <2>1. g[1 .. n] = h[n]
    BY <1>2
  <2>2. Max(1 .. n + 1) = n + 1
    BY MaxLast
  <2>3. (1 .. n + 1) \ {n + 1} = 1 .. n /\ n + 1 \in 1 .. n + 1
    OBVIOUS
  <2>4. 1 .. n + 1 \in SUBSET (1 .. N)
    BY <1>2
  <2>5. g[1 .. n + 1] = fb_putc(g[1 .. n], text[n + 1])
    BY <1>5, <2>2, <2>3, <2>4
  <2>6. n \in 0 .. N - 1
    BY <1>2
  <2>7. h[n + 1] = fb_putc(h[n], text[n + 1])
    BY <2>6 DEF IsTrace, N
  <2> QED  BY <2>1, <2>5, <2>7
<1>8. T = Nat
  <2> HIDE DEF T
  <2>1. T \subseteq Nat
    BY DEF T
  <2> QED  BY <1>6, <1>7, <2>1, Induction
<1>9. g[1 .. N] = h[N]
  BY <1>2, <1>8
<1> QED  BY <1>1, <1>2, <1>9 DEF N

LEMMA TraceExists ==
    ASSUME NEW V, NEW text \in Seq(V), NEW s
    PROVE  \E h : IsTrace(h, s, text)
<1> DEFINE IsTraceTo(h, n) ==
             /\ h[0] = s
             /\ \A m \in 0 .. n - 1 : h[m + 1] = fb_putc(h[m], text[m + 1])
           T == {n \in Nat : \E h : IsTraceTo(h, n)}
<1>1. 0 \in T
  <2> DEFINE h == [m \in {0} |-> s]
  <2>1. IsTraceTo(h, 0)
    OBVIOUS
  <2> QED  BY <2>1
<1>2. \A n \in T : n + 1 \in T
  <2> SUFFICES ASSUME NEW n \in Nat, NEW h, IsTraceTo(h, n)
               PROVE  \E k : IsTraceTo(k, n + 1)
    <3> HIDE DEF IsTraceTo
    <3> QED  OBVIOUS
  <2> DEFINE k == [m \in 0 .. n + 1 |-> IF m = n + 1 THEN fb_putc(h[n], text[n + 1]) ELSE h[m]]
  <2>1. k[0] = s
    OBVIOUS
  <2>2. ASSUME NEW m \in 0 .. n PROVE k[m + 1] = fb_putc(k[m], text[m + 1])
    <3>1. k[m] = h[m]
      OBVIOUS
    <3>2. CASE m = n
      BY <3>1, <3>2
    <3>3. CASE m # n
      <4>1. m \in 0 .. n - 1
        BY <3>3
      <4>2. k[m + 1] = h[m + 1]
        BY <4>1
      <4>3. h[m + 1] = fb_putc(h[m], text[m + 1])
        BY <4>1
      <4> QED  BY <3>1, <4>2, <4>3
    <3> QED  BY <3>2, <3>3
  <2> HIDE DEF k
  <2>3. IsTraceTo(k, n + 1)
    BY <2>1, <2>2
  <2> QED  BY <2>3
<1>3. T = Nat
  <2> HIDE DEF T
  <2>1. T \subseteq Nat
    BY DEF T
  <2> QED  BY <1>1, <1>2, <2>1, Induction
<1>4. Len(text) \in Nat
  OBVIOUS
<1>5. PICK h : IsTraceTo(h, Len(text))
  BY <1>3, <1>4
<1> DEFINE k == [n \in 0 .. Len(text) |-> h[n]]
<1>6. k \in [0 .. Len(text) -> Range(k)]
  BY DEF Range
<1>7. k[0] = s
  BY <1>4, <1>5
<1>8. \A n \in 0 .. Len(text) - 1 : k[n + 1] = fb_putc(k[n], text[n + 1])
  BY <1>4, <1>5
<1> HIDE DEF k
<1>9. IsTrace(k, s, text)
  BY <1>6, <1>7, <1>8 DEF IsTrace
<1> QED  BY <1>9

LEMMA OnEmpty ==
    ASSUME NEW s PROVE On(s, << >>) = s
<1> DEFINE h == [n \in {0} |-> s]
<1>1. Len(<< >>) = 0 /\ << >> \in Seq({})
  OBVIOUS
<1>2. h \in [0 .. 0 -> Range(h)]
  BY DEF Range
<1>3. IsTrace(h, s, << >>)
  BY <1>1, <1>2 DEF IsTrace
<1>4. h[0] = s
  OBVIOUS
<1> HIDE DEF h
<1> QED  BY <1>1, <1>3, <1>4, TraceEnds

LEMMA OnAppend ==
    ASSUME NEW V, NEW text \in Seq(V), NEW c \in V, NEW s
    PROVE  On(s, Append(text, c)) = fb_putc(On(s, text), c)
<1> DEFINE longer == Append(text, c)
           N == Len(text)
<1>1. longer \in Seq(V) /\ Len(longer) = N + 1 /\ N \in Nat
  OBVIOUS
<1>2. \A n \in 1 .. N : longer[n] = text[n]
  OBVIOUS
<1>3. longer[N + 1] = c
  OBVIOUS
<1>4. PICK h : IsTrace(h, s, longer)
  BY <1>1, TraceExists
<1> DEFINE k == [n \in 0 .. N |-> h[n]]
<1> HIDE DEF longer
<1>5. IsTrace(k, s, text)
  <2>1. k \in [0 .. N -> Range(k)]
    BY DEF Range
  <2>2. k[0] = s
    BY <1>1, <1>4 DEF IsTrace
  <2>3. ASSUME NEW n \in 0 .. N - 1 PROVE k[n + 1] = fb_putc(k[n], text[n + 1])
    <3>1. k[n + 1] = h[n + 1] /\ k[n] = h[n]
      BY <1>1
    <3>2. n \in 0 .. Len(longer) - 1 /\ n + 1 \in 1 .. N
      BY <1>1
    <3> QED  BY <1>2, <1>4, <3>1, <3>2 DEF IsTrace
  <2> HIDE DEF k
  <2> QED  BY <2>1, <2>2, <2>3 DEF IsTrace
<1>6. On(s, text) = k[N]
  BY <1>5, TraceEnds
<1>7. k[N] = h[N]
  BY <1>1
<1>8. h[N + 1] = fb_putc(h[N], c)
  BY <1>1, <1>3, <1>4 DEF IsTrace
<1>9. On(s, longer) = h[N + 1]
  BY <1>1, <1>4, TraceEnds
<1> QED  BY <1>6, <1>7, <1>8, <1>9 DEF longer

LEMMA OnOne ==
    ASSUME NEW c, NEW s PROVE On(s, <<c>>) = fb_putc(s, c)
<1>1. << >> \in Seq({c}) /\ Append(<< >>, c) = <<c>> /\ c \in {c}
  OBVIOUS
<1> QED  BY <1>1, OnAppend, OnEmpty

LEMMA ConcatAppend ==
    ASSUME NEW V, NEW a \in Seq(V), NEW b \in Seq(V), NEW c \in V
    PROVE  a \o Append(b, c) = Append(a \o b, c)
<1>1. Append(b, c) = b \o <<c>> /\ Append(a \o b, c) = (a \o b) \o <<c>>
  OBVIOUS
<1>2. <<c>> \in Seq(V)
  OBVIOUS
<1> QED  BY <1>1, <1>2, ConcatAssociative

\* What is shown of one text is where the next one starts.
LEMMA OnConcat ==
    ASSUME NEW V, NEW a \in Seq(V), NEW b \in Seq(V), NEW s
    PROVE  On(s, a \o b) = On(On(s, a), b)
<1> DEFINE start == On(s, a)
           Upto(n) == SubSeq(b, 1, n)
           T == {n \in Nat : n <= Len(b) => On(s, a \o Upto(n)) = On(start, Upto(n))}
<1>1. 0 \in T
  <2>1. Upto(0) = << >>
    OBVIOUS
  <2>2. a \o << >> = a
    OBVIOUS
  <2>3. On(start, << >>) = start
    BY OnEmpty
  <2> HIDE DEF Upto
  <2> QED  BY <2>1, <2>2, <2>3
<1>2. \A n \in T : n + 1 \in T
  <2> SUFFICES ASSUME NEW n \in T, n + 1 <= Len(b)
               PROVE  On(s, a \o Upto(n + 1)) = On(start, Upto(n + 1))
    OBVIOUS
  <2>1. n \in Nat /\ Len(b) \in Nat
    OBVIOUS
  <2>2. n <= Len(b) /\ n + 1 \in 1 .. Len(b)
    BY <2>1
  <2>3. On(s, a \o Upto(n)) = On(start, Upto(n))
    BY <2>2
  <2>4. Upto(n) \in Seq(V) /\ b[n + 1] \in V
    BY <2>1, <2>2
  <2>5. Upto(n + 1) = Append(Upto(n), b[n + 1])
    BY <2>1, <2>2
  <2> HIDE DEF Upto
  <2>6. a \o Upto(n + 1) = Append(a \o Upto(n), b[n + 1])
    <3> DEFINE u == Upto(n)
               c == b[n + 1]
    <3>1. u \in Seq(V) /\ c \in V
      BY <2>4
    <3> HIDE DEF u, c
    <3>2. a \o Append(u, c) = Append(a \o u, c)
      BY <3>1, ConcatAppend
    <3> QED  BY <2>5, <3>2 DEF u, c
  <2>7. a \o Upto(n) \in Seq(V)
    BY <2>4
  <2> HIDE DEF start
  <2>8. On(s, a \o Upto(n + 1)) = fb_putc(On(s, a \o Upto(n)), b[n + 1])
    BY <2>4, <2>6, <2>7, OnAppend
  <2>9. On(start, Upto(n + 1)) = fb_putc(On(start, Upto(n)), b[n + 1])
    BY <2>4, <2>5, OnAppend
  <2> QED  BY <2>3, <2>8, <2>9
<1>3. T = Nat
  <2> HIDE DEF T
  <2>1. T \subseteq Nat
    BY DEF T
  <2> QED  BY <1>1, <1>2, <2>1, Induction
<1>4. Len(b) \in Nat /\ Upto(Len(b)) = b
  OBVIOUS
<1> HIDE DEF Upto, start
<1>5. On(s, a \o Upto(Len(b))) = On(start, Upto(Len(b)))
  BY <1>3, <1>4
<1> QED  BY <1>4, <1>5 DEF start

-----------------------------------------------------------------------------
(* Single characters.                                                       *)

Width  == fb_width \div GLYPH
Height == fb_height \div GLYPH

\* Everything that may be printed.
Glyphs == {LF, CR, BS, Space} \cup Chars \cup Range(Prompt) \cup Range(RtLine)
            \cup UNION {Range(text) : text \in Outputs}

Screens  == [cells : [Row -> [Col -> Glyphs]], x : Col, y : Row]
Ordinary == Glyphs \ {LF, CR, BS}

\* The rows below the cursor are blank ...
Under(s) == \A r \in Row, c \in Col : r > s.y => s.cells[r][c] = Space

\* ... and so is its own from the cursor on.
Past(s) == Under(s) /\ \A c \in Col : c >= s.x => s.cells[s.y][c] = Space

\* What stands before the cursor, over the rows that are still there.
Reads(s, shown) ==
    \A r \in Row, c \in Col, k \in 1 .. Len(shown) :
        r * Width + c + k = s.y * Width + s.x =>
            s.cells[r][c] = shown[Len(shown) + 1 - k]

LEMMA Sizes ==
    /\ Width \in Nat \ {0} /\ Col = 0 .. Width - 1
    /\ Height \in Nat \ {0} /\ Row = 0 .. Height - 1
    /\ \A n \in Nat : (n * GLYPH > fb_width <=> n > Width) /\ (n * GLYPH > fb_height <=> n > Height)
  BY ConsoleAssumption DEF Width, Height, Col, Row, GLYPH

Raised(cells) == [r \in Row |-> IF r + 1 \in Row THEN cells[r + 1] ELSE BlankRow]

LEMMA RaisedType ==
    ASSUME NEW cells \in [Row -> [Col -> Glyphs]]
    PROVE  Raised(cells) \in [Row -> [Col -> Glyphs]]
<1>1. BlankRow \in [Col -> Glyphs]
  BY DEF BlankRow, Glyphs
<1> QED  BY <1>1 DEF Raised

\* A screen, whose cursor may stand past the end of its row.
Wide == [cells : [Row -> [Col -> Glyphs]], x : Nat, y : Row]

LEMMA ScreensWide == Screens \subseteq Wide
  BY Sizes DEF Screens, Wide

LEMMA Moved ==
    ASSUME NEW s \in Wide, NEW a, NEW b
    PROVE  [s EXCEPT !.x = a, !.y = b] = [cells |-> s.cells, x |-> a, y |-> b]
<1> DEFINE t == [s EXCEPT !.x = a, !.y = b]
<1>1. t \in [cells : [Row -> [Col -> Glyphs]], x : {a}, y : {b}]
  BY DEF Wide
<1>2. t.cells = s.cells /\ t.x = a /\ t.y = b
  BY DEF Wide
<1> HIDE DEF t
<1>3. t = [cells |-> t.cells, x |-> t.x, y |-> t.y]
  BY <1>1
<1> QED  BY <1>2, <1>3 DEF t

LEMMA Replaced ==
    ASSUME NEW C, NEW s \in [cells : C, x : Nat, y : Nat], NEW a, NEW b
    PROVE  [s EXCEPT !.cells = a, !.y = b] = [cells |-> a, x |-> s.x, y |-> b]
<1> DEFINE t == [s EXCEPT !.cells = a, !.y = b]
<1>1. t \in [cells : {a}, x : Nat, y : {b}]
  OBVIOUS
<1>2. t.cells = a /\ t.x = s.x /\ t.y = b
  OBVIOUS
<1> HIDE DEF t
<1>3. t = [cells |-> t.cells, x |-> t.x, y |-> t.y]
  BY <1>1
<1> QED  BY <1>2, <1>3 DEF t

LEMMA Put ==
    ASSUME NEW s \in Screens, NEW c, NEW a
    PROVE  [s EXCEPT !.cells[s.y][s.x] = c, !.x = a] =
             [cells |-> [s.cells EXCEPT ![s.y][s.x] = c], x |-> a, y |-> s.y]
<1> DEFINE new == [s.cells EXCEPT ![s.y][s.x] = c]
           t == [s EXCEPT !.cells = new, !.x = a]
<1>1. [s EXCEPT !.cells[s.y][s.x] = c, !.x = a] = t
  BY DEF Screens
<1> HIDE DEF new
<1>2. t \in [cells : {new}, x : {a}, y : Row]
  BY DEF Screens
<1>3. t.cells = new /\ t.x = a /\ t.y = s.y
  BY DEF Screens
<1> HIDE DEF t
<1>4. t = [cells |-> t.cells, x |-> t.x, y |-> t.y]
  BY <1>2
<1> QED  BY <1>1, <1>3, <1>4 DEF new

LEMMA BelowIs ==
    ASSUME NEW s \in Wide
    PROVE  Below(s) =
             IF s.y + 1 \in Row THEN [cells |-> s.cells, x |-> 0, y |-> s.y + 1]
             ELSE [cells |-> Raised(s.cells), x |-> 0, y |-> s.y]
<1> DEFINE y == s.y + 1
           t == [cells |-> s.cells, x |-> 0, y |-> y]
<1>1. s.y \in Nat /\ y \in Nat /\ y > 0 /\ y - 1 = s.y /\ (y \in Row <=> ~ (y + 1 > Height))
  BY Sizes DEF Wide
<1>2. (y + 1) * GLYPH > fb_height <=> y \notin Row
  <2> HIDE DEF y
  <2>1. y + 1 \in Nat
    BY <1>1
  <2> QED  BY <1>1, <2>1, Sizes
<1>3. [s EXCEPT !.x = 0, !.y = y] = t
  BY Moved
<1>4. Below(s) = IF (t.y + 1) * GLYPH > fb_height THEN fb_scroll(t) ELSE t
  BY <1>3 DEF Below
<1>5. fb_scroll(t) = [cells |-> Raised(s.cells), x |-> 0, y |-> s.y]
  <2>1. t \in [cells : {s.cells}, x : Nat, y : Nat]
    BY <1>1
  <2>2. t.cells = s.cells /\ t.x = 0 /\ t.y = y
    OBVIOUS
  <2> HIDE DEF t
  <2>3. fb_scroll(t) = [t EXCEPT !.cells = Raised(s.cells), !.y = s.y]
    BY <1>1, <2>2 DEF fb_scroll, Raised
  <2> QED  BY <2>1, <2>2, <2>3, Replaced
<1>6. t.y = y
  OBVIOUS
<1>7. Below(s) = IF y \in Row THEN t ELSE fb_scroll(t)
  <2> HIDE DEF t, y
  <2> QED  BY <1>2, <1>4, <1>6
<1> QED  BY <1>5, <1>7

LEMMA DrawnIs ==
    ASSUME NEW s \in Screens, NEW c
    PROVE  LET t == [cells |-> [s.cells EXCEPT ![s.y][s.x] = c], x |-> s.x + 1, y |-> s.y]
           IN  Drawn(s, c) = IF s.x + 1 \in Col THEN t ELSE Below(t)
<1> DEFINE x == s.x + 1
           t == [cells |-> [s.cells EXCEPT ![s.y][s.x] = c], x |-> x, y |-> s.y]
<1>1. [s EXCEPT !.cells[s.y][s.x] = c, !.x = x] = t
  BY Put
<1>2. x \in Nat /\ (x \in Col <=> ~ (x + 1 > Width))
  BY Sizes DEF Screens
<1>3. (x + 1) * GLYPH > fb_width <=> x \notin Col
  <2> HIDE DEF x
  <2>1. x + 1 \in Nat
    BY <1>2
  <2> QED  BY <1>2, <2>1, Sizes
<1>4. t.x = x
  OBVIOUS
<1>5. Drawn(s, c) = IF (t.x + 1) * GLYPH > fb_width THEN Below(t) ELSE t
  BY <1>1 DEF Drawn
<1>6. Drawn(s, c) = IF x \in Col THEN t ELSE Below(t)
  <2> HIDE DEF t, x
  <2> QED  BY <1>3, <1>4, <1>5
<1> QED  BY <1>6

LEMMA PutcIs ==
    ASSUME NEW s, NEW c
    PROVE  /\ c = LF => fb_putc(s, c) = Below(s)
           /\ c = CR => fb_putc(s, c) = [s EXCEPT !.x = 0]
           /\ c = BS => fb_putc(s, c) = [s EXCEPT !.x = IF @ > 0 THEN @ - 1 ELSE @]
           /\ c \in Ordinary => fb_putc(s, c) = Drawn(s, c)
<1>1. LF # CR /\ LF # BS /\ CR # BS
  BY DEF LF, CR, BS
<1>2. c \in Ordinary => c # LF /\ c # CR /\ c # BS
  BY DEF Ordinary
<1> QED  BY <1>1, <1>2 DEF fb_putc

LEMMA ReturnIs ==
    ASSUME NEW s \in Screens
    PROVE  /\ fb_putc(s, CR) \in Screens
           /\ fb_putc(s, CR).cells = s.cells /\ fb_putc(s, CR).y = s.y
<1>1. fb_putc(s, CR) = [s EXCEPT !.x = 0]
  BY PutcIs
<1>2. 0 \in Col
  BY Sizes
<1>3. [s EXCEPT !.x = 0] \in Screens
  BY <1>2 DEF Screens
<1>4. [s EXCEPT !.x = 0].cells = s.cells /\ [s EXCEPT !.x = 0].y = s.y
  BY DEF Screens
<1> QED  BY <1>1, <1>3, <1>4

LEMMA BackIs ==
    ASSUME NEW s \in Screens
    PROVE  /\ fb_putc(s, BS) \in Screens
           /\ fb_putc(s, BS).cells = s.cells /\ fb_putc(s, BS).y = s.y
           /\ fb_putc(s, BS).x = IF s.x > 0 THEN s.x - 1 ELSE 0
<1> DEFINE x == IF s.x > 0 THEN s.x - 1 ELSE s.x
<1>1. s.x \in Col
  BY DEF Screens
<1>2. x \in Col /\ x = IF s.x > 0 THEN s.x - 1 ELSE 0
  BY <1>1, Sizes
<1>3. fb_putc(s, BS) = [s EXCEPT !.x = x]
  BY PutcIs
<1> HIDE DEF x
<1>4. [s EXCEPT !.x = x] \in Screens
  BY <1>2 DEF Screens
<1>5. [s EXCEPT !.x = x].cells = s.cells /\ [s EXCEPT !.x = x].y = s.y /\ [s EXCEPT !.x = x].x = x
  BY DEF Screens
<1> QED  BY <1>2, <1>3, <1>4, <1>5

LEMMA BelowScreen ==
    ASSUME NEW s \in Wide
    PROVE  Below(s) \in Screens
<1>1. s.cells \in [Row -> [Col -> Glyphs]] /\ s.y \in Row
  BY DEF Wide
<1>2. Raised(s.cells) \in [Row -> [Col -> Glyphs]]
  BY <1>1, RaisedType
<1>3. 0 \in Col
  BY Sizes
<1> QED  BY <1>1, <1>2, <1>3, BelowIs DEF Screens

\* The screen that is drawn on, before the cursor wraps.
LEMMA DrawnWide ==
    ASSUME NEW s \in Screens, NEW c \in Glyphs
    PROVE  [cells |-> [s.cells EXCEPT ![s.y][s.x] = c], x |-> s.x + 1, y |-> s.y] \in Wide
<1>1. [s.cells EXCEPT ![s.y][s.x] = c] \in [Row -> [Col -> Glyphs]]
  BY DEF Screens
<1>2. s.x + 1 \in Nat /\ s.y \in Row
  BY Sizes DEF Screens
<1> QED  BY <1>1, <1>2 DEF Wide

LEMMA PutcScreen ==
    ASSUME NEW s \in Screens, NEW c \in Glyphs
    PROVE  fb_putc(s, c) \in Screens
<1>1. CASE c = LF
  <2>1. s \in Wide /\ fb_putc(s, c) = Below(s)
    BY <1>1, ScreensWide, PutcIs
  <2> QED  BY <2>1, BelowScreen
<1>2. CASE c = CR
  BY <1>2, ReturnIs
<1>3. CASE c = BS
  BY <1>3, BackIs
<1>4. CASE c \in Ordinary
  <2> DEFINE t == [cells |-> [s.cells EXCEPT ![s.y][s.x] = c], x |-> s.x + 1, y |-> s.y]
  <2>1. t \in Wide
    BY DrawnWide
  <2>2. Drawn(s, c) = IF s.x + 1 \in Col THEN t ELSE Below(t)
    BY DrawnIs
  <2>3. t.cells \in [Row -> [Col -> Glyphs]] /\ t.x = s.x + 1 /\ t.y \in Row
    BY <2>1 DEF Wide
  <2> HIDE DEF t
  <2>4. t.x \in Col => t \in Screens
    BY <2>1, <2>3 DEF Wide, Screens
  <2> QED  BY <1>4, <2>1, <2>2, <2>3, <2>4, PutcIs, BelowScreen
<1> QED  BY <1>1, <1>2, <1>3, <1>4 DEF Ordinary

\* Going on in the next row keeps the rows below blank, and leaves a blank one.
LEMMA BelowPast ==
    ASSUME NEW s \in Wide, Under(s)
    PROVE  Past(Below(s))
<1>1. s.cells \in [Row -> [Col -> Glyphs]] /\ s.y \in Row /\ s.y \in Nat
  BY Sizes DEF Wide
<1>2. CASE s.y + 1 \in Row
  <2>1. Below(s) = [cells |-> s.cells, x |-> 0, y |-> s.y + 1]
    BY <1>2, BelowIs
  <2>2. \A r \in Row, c \in Col : r >= s.y + 1 => s.cells[r][c] = Space
    BY <1>1, Sizes DEF Under
  <2> QED  BY <1>1, <1>2, <2>1, <2>2, Sizes DEF Past, Under
<1>3. CASE s.y + 1 \notin Row
  <2>1. Below(s) = [cells |-> Raised(s.cells), x |-> 0, y |-> s.y]
    BY <1>3, BelowIs
  <2>2. ASSUME NEW r \in Row, NEW c \in Col, r >= s.y PROVE Raised(s.cells)[r][c] = Space
    <3>1. r + 1 \notin Row
      BY <1>1, <1>3, <2>2, Sizes
    <3> QED  BY <3>1 DEF Raised, BlankRow
  <2> QED  BY <1>1, <2>1, <2>2, Sizes DEF Past, Under
<1> QED  BY <1>2, <1>3

LEMMA PutcUnder ==
    ASSUME NEW s \in Screens, Under(s), NEW c \in Glyphs
    PROVE  Under(fb_putc(s, c))
<1>1. CASE c = LF
  <2>1. s \in Wide /\ fb_putc(s, c) = Below(s)
    BY <1>1, ScreensWide, PutcIs
  <2> QED  BY <2>1, BelowPast DEF Past
<1>2. CASE c = CR
  BY <1>2, ReturnIs DEF Under
<1>3. CASE c = BS
  BY <1>3, BackIs DEF Under
<1>4. CASE c \in Ordinary
  <2> DEFINE t == [cells |-> [s.cells EXCEPT ![s.y][s.x] = c], x |-> s.x + 1, y |-> s.y]
  <2>1. t \in Wide /\ Drawn(s, c) = IF s.x + 1 \in Col THEN t ELSE Below(t)
    BY DrawnWide, DrawnIs
  <2>2. Under(t)
    <3> SUFFICES ASSUME NEW r \in Row, NEW k \in Col, r > s.y PROVE t.cells[r][k] = Space
      BY DEF Under
    <3>1. r # s.y
      BY Sizes DEF Screens
    <3>2. t.cells[r] = s.cells[r]
      BY <3>1 DEF Screens
    <3> QED  BY <3>2 DEF Under
  <2> HIDE DEF t
  <2> QED  BY <1>4, <2>1, <2>2, PutcIs, BelowPast DEF Past
<1> QED  BY <1>1, <1>2, <1>3, <1>4 DEF Ordinary

LEMMA LinePast ==
    ASSUME NEW s \in Screens, Under(s)
    PROVE  Past(fb_putc(s, LF))
<1>1. s \in Wide /\ fb_putc(s, LF) = Below(s)
  BY ScreensWide, PutcIs
<1> QED  BY <1>1, BelowPast

LEMMA OrdinaryPast ==
    ASSUME NEW s \in Screens, Past(s), NEW c \in Ordinary
    PROVE  Past(fb_putc(s, c))
<1> DEFINE t == [cells |-> [s.cells EXCEPT ![s.y][s.x] = c], x |-> s.x + 1, y |-> s.y]
<1>1. t \in Wide /\ Drawn(s, c) = IF s.x + 1 \in Col THEN t ELSE Below(t)
  BY DrawnWide, DrawnIs DEF Ordinary
<1>2. s.x \in Nat /\ s.y \in Row
  BY Sizes DEF Screens
<1>3. \A k \in Col : k # s.x => t.cells[s.y][k] = s.cells[s.y][k]
  BY DEF Screens
<1>4. \A r \in Row : r # s.y => t.cells[r] = s.cells[r]
  BY DEF Screens
<1>5. t.x = s.x + 1 /\ t.y = s.y
  OBVIOUS
<1> HIDE DEF t
<1>6. Under(t)
  BY <1>2, <1>4, <1>5, Sizes DEF Under, Past
<1>7. Past(t)
  BY <1>2, <1>3, <1>5, <1>6, Sizes DEF Past
<1> QED  BY <1>1, <1>6, <1>7, PutcIs, BelowPast

-----------------------------------------------------------------------------
(* Places: a row is Width columns, and the places of a screen are counted   *)
(* along the rows.                                                          *)

LEMMA RowsMonotonic ==
    ASSUME NEW a \in Nat, NEW b \in Nat, NEW w \in Nat
    PROVE  /\ a * w \in Nat
           /\ (a + 1) * w = a * w + w
           /\ a < b => a * w + w <= b * w
<1>1. a * w \in Nat
  OBVIOUS
<1>2. (a + 1) * w = a * w + w
  OBVIOUS
<1>3. ASSUME a < b PROVE a * w + w <= b * w
  <2> DEFINE d == b - (a + 1)
  <2>1. d \in Nat /\ b = (a + 1) + d
    BY <1>3
  <2> HIDE DEF d
  <2>2. ((a + 1) + d) * w = (a + 1) * w + d * w
    BY <2>1
  <2>3. d * w \in Nat
    BY <2>1
  <2> DEFINE p == d * w
             q == a * w
  <2>4. b * w = (q + w) + p
    BY <1>2, <2>1, <2>2
  <2>5. p \in Nat /\ q \in Nat
    BY <1>1, <2>3
  <2> HIDE DEF p, q
  <2>6. q + w <= b * w
    BY <2>4, <2>5
  <2> QED  BY <2>6 DEF q
<1> QED  BY <1>1, <1>2, <1>3

\* A place has one row and one column.
LEMMA PlaceUnique ==
    ASSUME NEW a \in Nat, NEW b \in Nat, NEW w \in Nat, NEW i \in 0 .. w - 1, NEW j \in 0 .. w - 1,
           a * w + i = b * w + j
    PROVE  a = b /\ i = j
<1> DEFINE p == a * w
           q == b * w
<1>1. p \in Nat /\ q \in Nat
  BY RowsMonotonic
<1>2. (a < b => p + w <= q) /\ (b < a => q + w <= p) /\ (a = b => p = q)
  BY RowsMonotonic
<1>3. p + i = q + j
  OBVIOUS
<1> HIDE DEF p, q
<1>4. ~ (a < b) /\ ~ (b < a)
  BY <1>1, <1>2, <1>3
<1>5. a = b
  BY <1>4
<1> QED  BY <1>1, <1>2, <1>3, <1>5

\* A place before the row y is in a row before it.
LEMMA PlaceBefore ==
    ASSUME NEW r \in Nat, NEW y \in Nat, NEW w \in Nat, NEW i \in Nat, NEW k \in Nat \ {0},
           r * w + i + k = y * w
    PROVE  r < y
<1> DEFINE p == r * w
           q == y * w
<1>1. p \in Nat /\ q \in Nat
  BY RowsMonotonic
<1>2. (y < r => q + w <= p) /\ (y = r => p = q)
  BY RowsMonotonic
<1>3. p + i + k = q
  OBVIOUS
<1> HIDE DEF p, q
<1> QED  BY <1>1, <1>2, <1>3

LEMMA DrawnReads ==
    ASSUME NEW s \in Screens, NEW shown \in Seq(Glyphs), Reads(s, shown), NEW c \in Glyphs
    PROVE  Reads([cells |-> [s.cells EXCEPT ![s.y][s.x] = c], x |-> s.x + 1, y |-> s.y],
                 Append(shown, c))
<1> DEFINE t == [cells |-> [s.cells EXCEPT ![s.y][s.x] = c], x |-> s.x + 1, y |-> s.y]
           N == Len(shown)
           text == Append(shown, c)
<1>1. N \in Nat /\ Len(text) = N + 1 /\ text[N + 1] = c
  OBVIOUS
<1>2. \A n \in 1 .. N : text[n] = shown[n]
  OBVIOUS
<1>3. s.x \in Col /\ s.y \in Row /\ s.x \in Nat /\ s.y \in Nat
  BY Sizes DEF Screens
<1>4. t.cells[s.y][s.x] = c
  BY <1>3 DEF Screens
<1>5. \A r \in Row, q \in Col : r # s.y \/ q # s.x => t.cells[r][q] = s.cells[r][q]
  BY <1>3 DEF Screens
<1>6. t.x = s.x + 1 /\ t.y = s.y
  OBVIOUS
<1>7. ASSUME NEW r \in Row, NEW q \in Col, NEW k \in 1 .. N + 1,
             r * Width + q + k = s.y * Width + (s.x + 1)
      PROVE  t.cells[r][q] = text[(N + 1) + 1 - k]
  <2> HIDE DEF t, text, N
  <2> DEFINE a == r * Width
             b == s.y * Width
             x == s.x
  <2>1. r \in Nat /\ q \in Nat /\ Width \in Nat /\ q \in 0 .. Width - 1 /\ x \in 0 .. Width - 1
    BY <1>3, Sizes
  <2>2. a \in Nat /\ b \in Nat
    BY <1>3, <2>1, RowsMonotonic
  <2>3. a + q + k = b + (x + 1)
    BY <1>7
  <2>4. x \in Nat /\ k \in Nat \ {0} /\ k <= N + 1
    BY <1>1, <1>3
  <2>5. CASE k = 1
    <3>1. a + q = b + x
      <4> HIDE DEF a, b, x
      <4> QED  BY ONLY <2>1, <2>2, <2>3, <2>4, <2>5
    <3>2. r = s.y /\ q = x
      <4>1. r * Width + q = s.y * Width + x
        BY <3>1
      <4> DEFINE y == s.y
                 w == Width
      <4>2. /\ r \in Nat /\ y \in Nat /\ w \in Nat
            /\ q \in 0 .. w - 1 /\ x \in 0 .. w - 1
            /\ r * w + q = y * w + x
        BY <1>3, <2>1, <4>1
      <4> HIDE DEF x, y, w
      <4>3. r = y /\ q = x
        BY ONLY <4>2, PlaceUnique
      <4> QED  BY <4>3 DEF y
    <3>3. (N + 1) + 1 - k = N + 1
      BY <1>1, <2>5
    <3> QED  BY <1>1, <1>4, <3>2, <3>3
  <2>6. CASE k # 1
    <3>1. k - 1 \in 1 .. N /\ (N + 1) + 1 - k = N + 1 - (k - 1) /\ N + 1 - (k - 1) \in 1 .. N
      BY ONLY <1>1, <2>4, <2>6
    <3>2. a + q + (k - 1) = b + x
      <4> HIDE DEF a, b, x
      <4> QED  BY ONLY <2>1, <2>2, <2>3, <2>4
    <3>3. s.cells[r][q] = shown[N + 1 - (k - 1)]
      BY <3>1, <3>2 DEF Reads, N
    <3>4. r # s.y \/ q # x
      <4> SUFFICES ASSUME r = s.y, q = x PROVE FALSE
        OBVIOUS
      <4>1. a = b
        OBVIOUS
      <4> HIDE DEF a, b, x
      <4> QED  BY ONLY <2>1, <2>2, <2>4, <2>6, <3>2, <4>1, q = x
    <3>5. t.cells[r][q] = s.cells[r][q]
      BY <1>5, <3>4
    <3>6. text[N + 1 - (k - 1)] = shown[N + 1 - (k - 1)]
      BY <1>2, <3>1
    <3> QED  BY <3>1, <3>3, <3>5, <3>6
  <2> QED  BY <2>5, <2>6
<1> HIDE DEF t, text, N
<1>8. Reads(t, text)
  BY ONLY <1>1, <1>6, <1>7 DEF Reads
<1> QED  BY <1>8 DEF t, text

LEMMA BelowReads ==
    ASSUME NEW s \in Wide, s.x = Width, NEW shown, Reads(s, shown), Len(shown) \in Nat
    PROVE  Reads(Below(s), shown)
<1>1. s.y \in Row /\ s.y \in Nat /\ Width \in Nat
  BY Sizes DEF Wide
<1> DEFINE y == s.y
           b == y * Width
<1>2. b \in Nat /\ (y + 1) * Width = b + Width
  BY <1>1, RowsMonotonic
<1>3. CASE y + 1 \in Row
  <2>1. Below(s) = [cells |-> s.cells, x |-> 0, y |-> y + 1]
    BY <1>3, BelowIs
  <2>2. (y + 1) * Width + 0 = y * Width + s.x
    <3> HIDE DEF b
    <3>1. b + Width + 0 = b + Width
      BY <1>1, <1>2
    <3> QED  BY <1>2, <3>1 DEF b
  <2>3. Below(s).cells = s.cells /\ Below(s).x = 0 /\ Below(s).y = y + 1
    BY <2>1
  <2> QED  BY <2>2, <2>3 DEF Reads
<1>4. CASE y + 1 \notin Row
  <2>1. Below(s) = [cells |-> Raised(s.cells), x |-> 0, y |-> y]
    BY <1>4, BelowIs
  <2>2. Below(s).cells = Raised(s.cells) /\ Below(s).x = 0 /\ Below(s).y = y
    BY <2>1
  <2> SUFFICES ASSUME NEW r \in Row, NEW c \in Col, NEW k \in 1 .. Len(shown),
                      r * Width + c + k = y * Width + 0
               PROVE  Raised(s.cells)[r][c] = shown[Len(shown) + 1 - k]
    BY <2>2 DEF Reads
  <2> DEFINE a == r * Width
  <2>3. r \in Nat /\ c \in Nat /\ k \in Nat \ {0}
    BY Sizes
  <2>4. a \in Nat /\ (r + 1) * Width = a + Width
    BY <1>1, <2>3, RowsMonotonic
  <2>5. a + c + k = b
    <3>1. a + c + k = b + 0
      OBVIOUS
    <3> HIDE DEF a, b
    <3> QED  BY <1>2, <2>4, <3>1
  <2>6. r < y
    BY <1>1, <2>3, <2>5, PlaceBefore
  <2>7. r + 1 \in Row
    BY <1>1, <2>3, <2>6, Sizes
  <2>8. (r + 1) * Width + c + k = y * Width + s.x
    <3> HIDE DEF a, b
    <3>1. (a + Width) + c + k = b + Width
      BY <1>1, <1>2, <2>3, <2>4, <2>5
    <3> QED  BY <2>4, <3>1 DEF b
  <2>9. s.cells[r + 1][c] = shown[Len(shown) + 1 - k]
    BY <2>7, <2>8 DEF Reads
  <2> QED  BY <2>7, <2>9 DEF Raised
<1> QED  BY <1>3, <1>4

LEMMA OrdinaryReads ==
    ASSUME NEW s \in Screens, NEW shown \in Seq(Glyphs), Reads(s, shown), NEW c \in Ordinary
    PROVE  Reads(fb_putc(s, c), Append(shown, c))
<1> DEFINE t == [cells |-> [s.cells EXCEPT ![s.y][s.x] = c], x |-> s.x + 1, y |-> s.y]
           text == Append(shown, c)
<1>1. c \in Glyphs
  BY DEF Ordinary
<1>2. t \in Wide /\ Drawn(s, c) = IF s.x + 1 \in Col THEN t ELSE Below(t)
  BY <1>1, DrawnWide, DrawnIs
<1>3. Reads(t, text)
  BY <1>1, DrawnReads
<1>4. t.x = s.x + 1
  OBVIOUS
<1>5. Len(text) \in Nat
  BY <1>1
<1>6. s.x + 1 \notin Col => s.x + 1 = Width
  BY Sizes DEF Screens
<1> HIDE DEF t, text
<1>7. s.x + 1 \notin Col => Reads(Below(t), text)
  BY <1>2, <1>3, <1>4, <1>5, <1>6, BelowReads
<1>8. Reads(Drawn(s, c), text)
  BY <1>2, <1>3, <1>7
<1> QED  BY <1>8, PutcIs DEF text

-----------------------------------------------------------------------------
(* Texts.                                                                   *)

LEMMA Prefix ==
    ASSUME NEW V, NEW text \in Seq(V), NEW n \in Nat, n + 1 <= Len(text)
    PROVE  /\ SubSeq(text, 1, n) \in Seq(V) /\ text[n + 1] \in V
           /\ SubSeq(text, 1, n + 1) = Append(SubSeq(text, 1, n), text[n + 1])
<1>1. n + 1 \in 1 .. Len(text) /\ Len(text) \in Nat
  OBVIOUS
<1> QED  BY <1>1

\* After its last line end, a text takes the cursor back no more.
Tidy(text) ==
    \E n \in 0 .. Len(text) :
        /\ n > 0 => text[n] = LF
        /\ \A k \in n + 1 .. Len(text) : text[k] \notin {CR, BS}

LEMMA OnTidy ==
    ASSUME NEW s \in Screens, Past(s), NEW text \in Seq(Glyphs), Tidy(text)
    PROVE  On(s, text) \in Screens /\ Past(On(s, text))
<1>1. PICK last \in 0 .. Len(text) :
         /\ last > 0 => text[last] = LF
         /\ \A k \in last + 1 .. Len(text) : text[k] \notin {CR, BS}
  BY DEF Tidy
<1>2. Len(text) \in Nat /\ last \in Nat /\ last <= Len(text)
  OBVIOUS
<1> DEFINE Upto(n) == SubSeq(text, 1, n)
           Good(t, n) == t \in Screens /\ Under(t) /\ (n >= last => Past(t))
           T == {n \in Nat : n <= Len(text) => Good(On(s, Upto(n)), n)}
<1>3. 0 \in T
  <2>1. Upto(0) = << >>
    OBVIOUS
  <2>2. On(s, << >>) = s
    BY OnEmpty
  <2>3. Good(s, 0)
    BY DEF Past
  <2> HIDE DEF Good, Upto
  <2> QED  BY <2>1, <2>2, <2>3
<1>4. \A n \in T : n + 1 \in T
  <2> SUFFICES ASSUME NEW n \in T, n + 1 <= Len(text)
               PROVE  Good(On(s, Upto(n + 1)), n + 1)
    OBVIOUS
  <2> DEFINE c == text[n + 1]
             t == On(s, Upto(n))
  <2>1. n \in Nat
    OBVIOUS
  <2>2. n <= Len(text)
    BY <1>2, <2>1
  <2>3. Good(t, n)
    BY <2>2
  <2>4. Upto(n) \in Seq(Glyphs) /\ c \in Glyphs /\ Upto(n + 1) = Append(Upto(n), c)
    BY <2>1, Prefix
  <2> HIDE DEF Upto
  <2>5. On(s, Upto(n + 1)) = fb_putc(t, c)
    <3> HIDE DEF c
    <3> QED  BY <2>4, OnAppend
  <2>6. c \in {CR, BS} => ~ (n >= last)
    <3>1. n >= last => n + 1 \in last + 1 .. Len(text)
      BY <1>2, <2>1
    <3> QED  BY <1>1, <3>1
  <2>7. n + 1 >= last => n >= last \/ c = LF
    <3>1. n + 1 >= last /\ ~ (n >= last) => n + 1 = last /\ last > 0
      BY <1>2, <2>1
    <3> QED  BY <1>1, <3>1
  <2>8. t \in Screens /\ Under(t) /\ (n >= last => Past(t))
    BY <2>3
  <2> HIDE DEF c, t, Good
  <2>9. fb_putc(t, c) \in Screens /\ Under(fb_putc(t, c))
    BY <2>4, <2>8, PutcScreen, PutcUnder
  <2>10. n + 1 >= last => Past(fb_putc(t, c))
    <3>1. CASE c = LF
      BY <2>8, <3>1, LinePast
    <3>2. CASE c # LF
      <4>1. n + 1 >= last => n >= last /\ c \in Ordinary
        BY <2>4, <2>6, <2>7, <3>2 DEF Ordinary
      <4> QED  BY <2>8, <4>1, OrdinaryPast
    <3> QED  BY <3>1, <3>2
  <2> QED  BY <2>5, <2>9, <2>10 DEF Good
<1>5. T = Nat
  <2> HIDE DEF T
  <2>1. T \subseteq Nat
    BY DEF T
  <2> QED  BY <1>3, <1>4, <2>1, Induction
<1>6. Upto(Len(text)) = text
  BY SubSeqFull
<1> HIDE DEF Upto
<1>7. Good(On(s, Upto(Len(text))), Len(text))
  BY <1>2, <1>5
<1> QED  BY <1>2, <1>6, <1>7

\* An ordinary text stands before the cursor.
LEMMA OnOrdinary ==
    ASSUME NEW s \in Screens, NEW text \in Seq(Ordinary)
    PROVE  Reads(On(s, text), text)
<1> DEFINE Upto(n) == SubSeq(text, 1, n)
           Good(t, n) == t \in Screens /\ Reads(t, Upto(n))
           T == {n \in Nat : n <= Len(text) => Good(On(s, Upto(n)), n)}
<1>1. 0 \in T
  <2>1. Upto(0) = << >>
    OBVIOUS
  <2>2. On(s, << >>) = s
    BY OnEmpty
  <2>3. Reads(s, << >>)
    BY DEF Reads
  <2> HIDE DEF Upto
  <2> QED  BY <2>1, <2>2, <2>3
<1>2. \A n \in T : n + 1 \in T
  <2> SUFFICES ASSUME NEW n \in T, n + 1 <= Len(text)
               PROVE  Good(On(s, Upto(n + 1)), n + 1)
    OBVIOUS
  <2> DEFINE c == text[n + 1]
             t == On(s, Upto(n))
  <2>1. n \in Nat /\ n <= Len(text)
    OBVIOUS
  <2>2. t \in Screens /\ Reads(t, Upto(n))
    BY <2>1
  <2>3. Upto(n) \in Seq(Ordinary) /\ c \in Ordinary /\ Upto(n + 1) = Append(Upto(n), c)
    BY <2>1, Prefix
  <2> HIDE DEF Upto
  <2>4. On(s, Upto(n + 1)) = fb_putc(t, c)
    <3> HIDE DEF c
    <3> QED  BY <2>3, OnAppend
  <2> HIDE DEF c, t
  <2>5. Ordinary \subseteq Glyphs
    BY DEF Ordinary
  <2>6. Upto(n) \in Seq(Glyphs) /\ c \in Glyphs
    BY <2>3, <2>5
  <2>7. fb_putc(t, c) \in Screens /\ Reads(fb_putc(t, c), Append(Upto(n), c))
    BY <2>2, <2>3, <2>6, PutcScreen, OrdinaryReads
  <2> QED  BY <2>3, <2>4, <2>7
<1>3. T = Nat
  <2> HIDE DEF T
  <2>1. T \subseteq Nat
    BY DEF T
  <2> QED  BY <1>1, <1>2, <2>1, Induction
<1>4. Upto(Len(text)) = text /\ Len(text) \in Nat
  BY SubSeqFull
<1> HIDE DEF Upto
<1>5. Reads(On(s, Upto(Len(text))), Upto(Len(text)))
  BY <1>3, <1>4
<1> QED  BY <1>4, <1>5

\* A character is rubbed out: back, a blank, back.
LEMMA OnRubOut ==
    ASSUME NEW s \in Screens, Past(s)
    PROVE  LET t == On(s, <<BS, Space, BS>>)
           IN  /\ t \in Screens /\ Past(t)
               /\ \A shown \in Seq(Glyphs), c \in Glyphs :
                    s.x > 0 /\ Reads(s, Append(shown, c)) => Reads(t, shown)
<1> DEFINE s1 == fb_putc(s, BS)
           s2 == fb_putc(s1, Space)
           s3 == fb_putc(s2, BS)
           wide == [cells |-> [s1.cells EXCEPT ![s1.y][s1.x] = Space], x |-> s1.x + 1, y |-> s1.y]
<1>1. On(s, <<BS, Space, BS>>) = s3
  <2>1. <<BS>> \in Seq({BS, Space}) /\ <<BS, Space>> \in Seq({BS, Space}) /\ BS \in {BS, Space} /\ Space \in {BS, Space}
    OBVIOUS
  <2>2. <<BS, Space>> = Append(<<BS>>, Space) /\ <<BS, Space, BS>> = Append(<<BS, Space>>, BS)
    OBVIOUS
  <2>3. On(s, <<BS>>) = s1
    BY OnOne
  <2> HIDE DEF s1
  <2>4. On(s, <<BS, Space>>) = s2
    BY <2>1, <2>2, <2>3, OnAppend
  <2> HIDE DEF s2
  <2> QED  BY <2>1, <2>2, <2>4, OnAppend
<1>2. Space \in Ordinary /\ Space \in Glyphs
  BY DEF Ordinary, Glyphs, Space, LF, CR, BS
<1>3. s.x \in Nat /\ s.x \in Col /\ s.y \in Row
  BY Sizes DEF Screens
<1>4. s1 \in Screens /\ s1.cells = s.cells /\ s1.y = s.y /\ s1.x = IF s.x > 0 THEN s.x - 1 ELSE 0
  BY BackIs
<1> HIDE DEF s1
<1>5. wide \in Wide /\ s2 = IF s1.x + 1 \in Col THEN wide ELSE Below(wide)
  BY <1>2, <1>4, DrawnWide, DrawnIs, PutcIs
<1>6. s2 \in Screens
  BY <1>2, <1>4, PutcScreen
<1> HIDE DEF s2
<1>7. s3 \in Screens /\ s3.cells = s2.cells /\ s3.y = s2.y /\ s3.x = IF s2.x > 0 THEN s2.x - 1 ELSE 0
  BY <1>6, BackIs
<1> HIDE DEF s3
<1>8. \A r \in Row, c \in Col : r # s.y \/ c # s1.x => wide.cells[r][c] = s.cells[r][c]
  BY <1>3, <1>4 DEF Screens
<1>9. wide.cells[s.y][s1.x] = Space /\ wide.x = s1.x + 1 /\ wide.y = s.y
  BY <1>3, <1>4 DEF Screens
<1> HIDE DEF wide
<1>10. CASE s.x > 0
  <2>1. s1.x + 1 = s.x /\ s1.x = s.x - 1
    BY <1>3, <1>4, <1>10
  <2>2. s2 = wide
    BY <1>3, <1>5, <2>1
  <2>3. s3.cells = wide.cells /\ s3.y = s.y /\ s3.x = s1.x
    BY <1>3, <1>7, <1>9, <1>10, <2>1, <2>2
  <2>4. Past(s3)
    <3>1. ASSUME NEW r \in Row, NEW c \in Col, r > s.y PROVE wide.cells[r][c] = Space
      <4>1. r # s.y
        BY <1>3, <3>1, Sizes
      <4> QED  BY <1>8, <3>1, <4>1 DEF Past, Under
    <3>2. ASSUME NEW c \in Col, c >= s1.x PROVE wide.cells[s.y][c] = Space
      <4>1. c \in Nat /\ s1.x \in Nat
        BY <1>3, <2>1, <1>10, Sizes
      <4>2. c = s1.x \/ (c >= s.x /\ c # s1.x)
        <5> DEFINE x == s.x
                   x1 == s1.x
        <5> HIDE DEF x, x1
        <5>1. x \in Nat /\ x1 \in Nat /\ x1 = x - 1 /\ c >= x1
          BY <1>3, <2>1, <3>2, <4>1 DEF x, x1
        <5>2. c = x1 \/ (c >= x /\ c # x1)
          BY ONLY <4>1, <5>1
        <5> QED  BY <5>2 DEF x, x1
      <4> QED  BY <1>3, <1>8, <1>9, <4>2 DEF Past
    <3> QED  BY <2>3, <3>1, <3>2 DEF Past, Under
  <2>5. ASSUME NEW shown \in Seq(Glyphs), NEW c \in Glyphs, Reads(s, Append(shown, c))
        PROVE  Reads(s3, shown)
    <3> DEFINE N == Len(shown)
               text == Append(shown, c)
               y == s.y
               x == s1.x
    <3>1. N \in Nat /\ Len(text) = N + 1 /\ \A n \in 1 .. N : text[n] = shown[n]
      OBVIOUS
    <3>2. ASSUME NEW r \in Row, NEW q \in Col, NEW k \in 1 .. N, r * Width + q + k = y * Width + x
          PROVE  wide.cells[r][q] = shown[N + 1 - k]
      <4> DEFINE a == r * Width
                 b == y * Width
      <4>1. r \in Nat /\ q \in Nat /\ y \in Nat /\ x \in Nat /\ Width \in Nat /\ k \in Nat \ {0} /\ k <= N
        BY <1>3, <1>4, <3>1, Sizes DEF Screens
      <4>2. a \in Nat /\ b \in Nat /\ a + q + k = b + x
        BY <3>2, <4>1, RowsMonotonic
      <4>3. a + q + (k + 1) = b + s.x
        <5>1. s.x = x + 1
          BY <1>3, <2>1
        <5> HIDE DEF a, b, x
        <5> QED  BY ONLY <4>1, <4>2, <5>1
      <4>4. k + 1 \in 1 .. N + 1 /\ (N + 1) + 1 - (k + 1) = N + 1 - k /\ N + 1 - k \in 1 .. N
        BY ONLY <3>1, <4>1
      <4>5. s.cells[r][q] = text[(N + 1) + 1 - (k + 1)]
        <5> HIDE DEF text, N
        <5> QED  BY <2>5, <3>1, <4>3, <4>4 DEF Reads, text
      <4>6. r # y \/ q # x
        <5> SUFFICES ASSUME r = y, q = x PROVE FALSE
          OBVIOUS
        <5>1. a = b
          OBVIOUS
        <5> HIDE DEF a, b, x
        <5> QED  BY ONLY <4>1, <4>2, <5>1, q = x
      <4>7. wide.cells[r][q] = s.cells[r][q]
        BY <1>8, <4>6
      <4> QED  BY <3>1, <4>4, <4>5, <4>7
    <3>3. s3.cells = wide.cells /\ s3.y = y /\ s3.x = x
      BY <2>3
    <3> HIDE DEF x, y, text
    <3> QED  BY ONLY <3>2, <3>3 DEF Reads
  <2> QED  BY <1>1, <1>7, <2>4, <2>5
<1>11. CASE ~ (s.x > 0)
  <2>1. s.x = 0 /\ s1.x = 0
    BY <1>3, <1>4, <1>11
  <2>2. Past(s1)
    BY <1>4, <2>1 DEF Past, Under
  <2>3. Past(s2)
    BY <1>2, <1>4, <2>2, OrdinaryPast DEF s2
  <2>4. CASE s1.x + 1 \in Col
    <3>1. s2 = wide
      BY <1>5, <2>4
    <3>2. s3.cells = wide.cells /\ s3.y = s.y /\ s3.x = 0 /\ s2.x = 1 /\ s2.y = s.y
      BY <1>7, <1>9, <2>1, <3>1
    <3>3. \A c \in Col : wide.cells[s.y][c] = Space
      <4> SUFFICES ASSUME NEW c \in Col PROVE wide.cells[s.y][c] = Space
        OBVIOUS
      <4>1. c = 0 \/ c >= 1
        BY Sizes
      <4> QED  BY <1>9, <2>1, <2>3, <3>1, <3>2, <4>1 DEF Past
    <3>4. Past(s3)
      BY <1>7, <2>3, <3>1, <3>2, <3>3 DEF Past, Under
    <3> QED  BY <1>1, <1>7, <1>11, <3>4
  <2>5. CASE s1.x + 1 \notin Col
    <3>1. s2 = Below(wide)
      BY <1>5, <2>5
    <3>2. s2.x = 0
      BY <1>5, <3>1, BelowIs
    <3>3. s3.cells = s2.cells /\ s3.y = s2.y /\ s3.x = s2.x
      BY <1>7, <3>2
    <3>4. Past(s3)
      BY <2>3, <3>3 DEF Past, Under
    <3> QED  BY <1>1, <1>7, <1>11, <3>4
  <2> QED  BY <2>4, <2>5
<1> QED  BY <1>10, <1>11

-----------------------------------------------------------------------------
(* What is printed.                                                         *)

LEMMA Printed ==
    /\ Prompt \in Seq(Ordinary) /\ Prompt \in Seq(Glyphs)
    /\ RtLine \in Seq(Glyphs) /\ Tidy(RtLine)
    /\ \A text \in Outputs : text \in Seq(Glyphs) /\ Tidy(text)
    /\ Chars \subseteq Ordinary /\ Ordinary \subseteq Glyphs
    /\ {LF, CR, BS, Space} \subseteq Glyphs
<1>1. Range(Prompt) \subseteq Ordinary
  BY TextAssumption DEF Ordinary, Glyphs
<1>2. Ordinary \subseteq Glyphs /\ {LF, CR, BS, Space} \subseteq Glyphs
  BY DEF Ordinary, Glyphs
<1>3. Prompt \in Seq(Ordinary)
  BY <1>1, TextAssumption, SeqMonotonic
<1>4. Prompt \in Seq(Glyphs)
  BY <1>2, <1>3, SeqMonotonic
<1>5. Chars \subseteq Ordinary
  BY ConsoleAssumption DEF Ordinary, Glyphs
<1>6. ASSUME NEW text \in {RtLine} \cup Outputs PROVE text \in Seq(Glyphs) /\ Tidy(text)
  <2>1. Range(text) \subseteq Glyphs
    BY DEF Glyphs
  <2>2. text \in Seq(Range(text))
    BY TextAssumption
  <2>3. Tidy(text)
    BY TextAssumption DEF Tidy
  <2> QED  BY <2>1, <2>2, <2>3, SeqMonotonic
<1> QED  BY <1>2, <1>3, <1>4, <1>5, <1>6

LEMMA OrdinaryTidy ==
    ASSUME NEW text \in Seq(Ordinary)
    PROVE  Tidy(text)
<1>1. \A k \in 1 .. Len(text) : text[k] \in Ordinary
  OBVIOUS
<1>2. 0 \in 0 .. Len(text)
  OBVIOUS
<1> QED  BY <1>1, <1>2 DEF Tidy, Ordinary

\* A line end in front makes no text untidy.
LEMMA LineTidy ==
    ASSUME NEW text \in Seq(Glyphs), Tidy(text)
    PROVE  <<LF>> \o text \in Seq(Glyphs) /\ Tidy(<<LF>> \o text)
<1> DEFINE longer == <<LF>> \o text
           N == Len(text)
<1>1. <<LF>> \in Seq(Glyphs)
  BY Printed
<1>2. longer \in Seq(Glyphs) /\ N \in Nat /\ Len(longer) = N + 1 /\ longer[1] = LF
  BY <1>1
<1>3. \A k \in 2 .. N + 1 : longer[k] = text[k - 1]
  BY <1>1
<1>4. PICK n \in 0 .. N :
         /\ n > 0 => text[n] = LF
         /\ \A k \in n + 1 .. N : text[k] \notin {CR, BS}
  BY DEF Tidy
<1> HIDE DEF longer, N
<1>5. n + 1 \in 0 .. N + 1
  BY <1>2
<1>6. longer[n + 1] = LF
  <2>1. CASE n = 0
    BY <1>2, <2>1
  <2>2. CASE n # 0
    <3>1. n + 1 \in 2 .. N + 1 /\ (n + 1) - 1 = n /\ n > 0
      BY <1>2, <2>2
    <3> QED  BY <1>3, <1>4, <3>1
  <2> QED  BY <2>1, <2>2
<1>7. ASSUME NEW k \in (n + 1) + 1 .. N + 1 PROVE longer[k] \notin {CR, BS}
  <2>1. k \in 2 .. N + 1 /\ k - 1 \in n + 1 .. N
    BY <1>2
  <2> QED  BY <1>3, <1>4, <2>1
<1>8. Tidy(longer)
  BY <1>2, <1>5, <1>6, <1>7 DEF Tidy
<1> QED  BY <1>2, <1>8 DEF longer

LEMMA ClearedPast == Cleared \in Screens /\ Past(Cleared)
<1>1. BlankRow \in [Col -> Glyphs]
  BY Printed DEF BlankRow
<1>2. 0 \in Col /\ 0 \in Row
  BY Sizes
<1>3. Cleared \in Screens
  BY <1>1, <1>2 DEF Cleared, Screens
<1> QED  BY <1>2, <1>3 DEF Cleared, Past, Under, BlankRow

\* A tidy text, and then the prompt, are printed.
LEMMA PromptShown ==
    ASSUME NEW s \in Screens, Past(s), NEW text \in Seq(Glyphs), Tidy(text)
    PROVE  LET t == On(s, text \o Prompt)
           IN  t \in Screens /\ Past(t) /\ Reads(t, Prompt)
<1> DEFINE u == On(s, text)
<1>1. u \in Screens /\ Past(u)
  BY OnTidy
<1>2. On(s, text \o Prompt) = On(u, Prompt)
  BY Printed, OnConcat
<1> HIDE DEF u
<1>3. On(u, Prompt) \in Screens /\ Past(On(u, Prompt))
  BY <1>1, Printed, OrdinaryTidy, OnTidy
<1>4. Reads(On(u, Prompt), Prompt)
  BY <1>1, Printed, OnOrdinary
<1> QED  BY <1>2, <1>3, <1>4

-----------------------------------------------------------------------------
(* The screen shows the line.                                               *)

ScreenInv ==
    /\ screen \in Screens /\ Past(screen)
    /\ buf \in Seq(Chars)
    /\ pc = "line" /\ fb_ready /\ ~atEdge => Reads(screen, Prompt \o buf)

LEMMA TextPrinted ==
    ASSUME ScreenInv, NEW text \in Seq(Glyphs), Tidy(text), uart_puts(text)
    PROVE  screen' \in Screens /\ Past(screen')
<1>1. On(screen, text) \in Screens /\ Past(On(screen, text))
  BY OnTidy DEF ScreenInv
<1> QED  BY <1>1 DEF uart_puts, ScreenInv

\* A new line begins after a tidy text.
LEMMA NewLinePrinted ==
    ASSUME ScreenInv, NEW text \in Seq(Glyphs), Tidy(text), NewLine(text), fb_ready' = fb_ready
    PROVE  ScreenInv'
<1> DEFINE t == On(screen, text \o Prompt)
<1>1. t \in Screens /\ Past(t) /\ Reads(t, Prompt)
  BY PromptShown DEF ScreenInv
<1>2. screen' = IF fb_ready THEN t ELSE screen
  BY DEF NewLine, uart_puts
<1>3. buf' = << >> /\ buf' \in Seq(Chars)
  BY DEF NewLine
<1> HIDE DEF t
<1>4. screen' \in Screens /\ Past(screen')
  BY <1>1, <1>2 DEF ScreenInv
<1>5. Prompt \o << >> = Prompt
  BY Printed, ConcatEmptySeq
<1>6. fb_ready' => Reads(screen', Prompt \o buf')
  BY <1>1, <1>2, <1>3, <1>5
<1> QED  BY <1>3, <1>4, <1>6 DEF ScreenInv

LEMMA ScreenInit == Init => ScreenInv
<1> SUFFICES ASSUME Init PROVE ScreenInv
  OBVIOUS
<1>1. PICK text \in Outputs : screen = IF fb_ready THEN On(Cleared, text) ELSE Cleared
  BY DEF Init
<1>2. On(Cleared, text) \in Screens /\ Past(On(Cleared, text))
  BY ClearedPast, Printed, OnTidy
<1>3. screen \in Screens /\ Past(screen)
  BY <1>1, <1>2, ClearedPast
<1>4. buf = << >> /\ pc # "line"
  BY DEF Init
<1> QED  BY <1>3, <1>4 DEF ScreenInv

LEMMA InsertScreen == ScreenInv /\ Insert => ScreenInv'
<1> SUFFICES ASSUME ScreenInv, Insert PROVE ScreenInv'
  OBVIOUS
<1>1. rx \in Chars /\ pc = "line" /\ UNCHANGED <<fb_ready, pc, atEdge>>
  BY DEF Insert, uart_try_getc
<1>2. CASE UNCHANGED <<buf, screen>>
  BY <1>1, <1>2 DEF ScreenInv
<1>3. CASE buf' = Append(buf, rx) /\ uart_puts(<<rx>>)
  <2> DEFINE t == On(screen, <<rx>>)
             shown == Prompt \o buf
  <2>1. rx \in Ordinary /\ rx \in Glyphs
    BY <1>1, Printed
  <2>2. t = fb_putc(screen, rx)
    BY OnOne
  <2>3. t \in Screens /\ Past(t)
    BY <2>1, <2>2, PutcScreen, OrdinaryPast DEF ScreenInv
  <2>4. buf \in Seq(Glyphs) /\ Prompt \in Seq(Glyphs) /\ buf \in Seq(Chars)
    BY Printed, SeqMonotonic DEF ScreenInv
  <2>5. shown \in Seq(Glyphs) /\ Prompt \o Append(buf, rx) = Append(shown, rx)
    BY <2>1, <2>4, ConcatAppend
  <2> HIDE DEF shown
  <2>6. Reads(screen, shown) => Reads(t, Append(shown, rx))
    BY <2>1, <2>2, <2>5, OrdinaryReads DEF ScreenInv
  <2>7. screen' = IF fb_ready THEN t ELSE screen
    BY <1>3 DEF uart_puts
  <2> HIDE DEF t
  <2>8. screen' \in Screens /\ Past(screen')
    BY <2>3, <2>7 DEF ScreenInv
  <2>9. buf' \in Seq(Chars)
    BY <1>1, <1>3, <2>4
  <2>10. fb_ready' /\ ~atEdge' => Reads(screen', Prompt \o buf')
    <3>1. Prompt \o buf' = Append(shown, rx)
      BY <1>3, <2>5
    <3>2. fb_ready /\ ~atEdge => Reads(screen, shown)
      BY <1>1 DEF ScreenInv, shown
    <3> QED  BY <1>1, <2>6, <2>7, <3>1, <3>2
  <2> QED  BY <2>8, <2>9, <2>10 DEF ScreenInv
<1> QED  BY <1>2, <1>3 DEF Insert

LEMMA RubOutScreen == ScreenInv /\ RubOut => ScreenInv'
<1> SUFFICES ASSUME ScreenInv, RubOut PROVE ScreenInv'
  OBVIOUS
<1>1. pc = "line" /\ UNCHANGED <<fb_ready, pc>>
  BY DEF RubOut, uart_try_getc
<1>2. CASE UNCHANGED <<buf, screen, atEdge>>
  BY <1>1, <1>2 DEF ScreenInv
<1>3. CASE /\ buf # << >> /\ buf' = Front(buf) /\ uart_puts(<<BS, Space, BS>>)
           /\ atEdge' = (atEdge \/ (fb_ready /\ screen.x = 0))
  <2> DEFINE t == On(screen, <<BS, Space, BS>>)
             c == buf[Len(buf)]
             shown == Prompt \o Front(buf)
  <2>1. /\ t \in Screens /\ Past(t)
        /\ \A text \in Seq(Glyphs), g \in Glyphs :
             screen.x > 0 /\ Reads(screen, Append(text, g)) => Reads(t, text)
    BY OnRubOut DEF ScreenInv
  <2>2. buf \in Seq(Chars) /\ Len(buf) \in Nat \ {0}
    BY <1>3 DEF ScreenInv
  <2>3. Front(buf) \in Seq(Chars) /\ c \in Chars /\ buf = Append(Front(buf), c)
    BY <2>2 DEF Front
  <2>4. Front(buf) \in Seq(Glyphs) /\ c \in Glyphs /\ Prompt \in Seq(Glyphs)
    BY <2>3, Printed, SeqMonotonic
  <2> HIDE DEF c
  <2>5. shown \in Seq(Glyphs) /\ Prompt \o buf = Append(shown, c)
    <3> DEFINE rest == Front(buf)
    <3> HIDE DEF rest
    <3>1. rest \in Seq(Glyphs) /\ buf = Append(rest, c)
      BY <2>3, <2>4 DEF rest
    <3>2. Prompt \o rest \in Seq(Glyphs)
      BY <2>4, <3>1
    <3>3. Prompt \o Append(rest, c) = Append(Prompt \o rest, c)
      BY <2>4, <3>1, ConcatAppend
    <3> QED  BY <3>1, <3>2, <3>3 DEF rest
  <2>6. screen' = IF fb_ready THEN t ELSE screen
    BY <1>3 DEF uart_puts
  <2> HIDE DEF t
  <2>7. screen' \in Screens /\ Past(screen')
    BY <2>1, <2>6 DEF ScreenInv
  <2>8. fb_ready' /\ ~atEdge' => Reads(screen', Prompt \o buf')
    <3> SUFFICES ASSUME fb_ready', ~atEdge' PROVE Reads(screen', Prompt \o buf')
      OBVIOUS
    <3>1. fb_ready
      BY <1>1
    <3>2. ~atEdge /\ screen.x # 0
      BY <1>3, <3>1
    <3>3. screen.x > 0
      <4>1. screen.x \in Nat
        BY Sizes DEF ScreenInv, Screens
      <4> QED  BY <3>2, <4>1
    <3>4. Reads(screen, Append(shown, c))
      BY <1>1, <2>5, <3>1, <3>2 DEF ScreenInv
    <3>5. Reads(t, shown)
      <4> HIDE DEF shown
      <4> QED  BY <2>1, <2>4, <2>5, <3>3, <3>4
    <3> QED  BY <1>3, <2>6, <3>1, <3>5
  <2> QED  BY <1>3, <2>3, <2>7, <2>8 DEF ScreenInv
<1> QED  BY <1>2, <1>3 DEF RubOut

LEMMA EmptyTidy == << >> \in Seq(Glyphs) /\ Tidy(<< >>)
<1>1. << >> \in Seq(Ordinary) /\ << >> \in Seq(Glyphs)
  BY EmptySeq
<1>2. Tidy(<< >>)
  BY <1>1, OrdinaryTidy
<1> QED  BY <1>1, <1>2

LEMMA EnterScreen == ScreenInv /\ Enter => ScreenInv'
<1> SUFFICES ASSUME ScreenInv, Enter PROVE ScreenInv'
  OBVIOUS
<1>1. fb_ready' = fb_ready
  BY DEF Enter
<1>2. CASE NewLine(<<LF>>)
  <2>1. <<LF>> \o << >> = <<LF>>
    OBVIOUS
  <2>2. <<LF>> \in Seq(Glyphs) /\ Tidy(<<LF>>)
    BY <2>1, EmptyTidy, LineTidy
  <2> QED  BY <1>1, <1>2, <2>2, NewLinePrinted
<1>3. CASE \E text \in Outputs : NewLine(<<LF>> \o text)
  <2>1. PICK text \in Outputs : NewLine(<<LF>> \o text)
    BY <1>3
  <2>2. <<LF>> \o text \in Seq(Glyphs) /\ Tidy(<<LF>> \o text)
    BY Printed, LineTidy
  <2> QED  BY <1>1, <2>1, <2>2, NewLinePrinted
<1> QED  BY <1>2, <1>3 DEF Enter

LEMMA DemoScreen == ScreenInv /\ (EnterDemo \/ Round \/ HeavyWork \/ BusyWait) => ScreenInv'
<1>1. ASSUME ScreenInv, EnterDemo PROVE ScreenInv'
  <2>1. <<LF>> \o RtLine \in Seq(Glyphs) /\ Tidy(<<LF>> \o RtLine)
    BY Printed, LineTidy
  <2>2. uart_puts(<<LF>> \o RtLine) /\ buf' = buf /\ pc' = "round"
    BY <1>1 DEF EnterDemo, Started, line
  <2>3. screen' \in Screens /\ Past(screen')
    BY <1>1, <2>1, <2>2, TextPrinted
  <2> QED  BY <1>1, <2>2, <2>3 DEF ScreenInv
<1>2. ASSUME ScreenInv, Round PROVE ScreenInv'
  <2>1. uart_puts(RtLine) /\ buf' = buf /\ pc' # "line"
    BY <1>2 DEF Round, line
  <2>2. screen' \in Screens /\ Past(screen')
    BY <1>2, <2>1, Printed, TextPrinted
  <2> QED  BY <1>2, <2>1, <2>2 DEF ScreenInv
<1>3. ASSUME ScreenInv, HeavyWork \/ BusyWait PROVE ScreenInv'
  <2>1. screen' = screen /\ buf' = buf /\ pc' # "line"
    BY <1>3 DEF HeavyWork, BusyWait, line
  <2> QED  BY <1>3, <2>1 DEF ScreenInv
<1> QED  BY <1>1, <1>2, <1>3

LEMMA RoundOverScreen == ScreenInv /\ RoundOver => ScreenInv'
<1> SUFFICES ASSUME ScreenInv, RoundOver PROVE ScreenInv'
  OBVIOUS
<1>1. CASE pc' = "round" /\ UNCHANGED <<screen, line>>
  BY <1>1 DEF ScreenInv, line
<1>2. CASE NewLine(RtLine)
  BY <1>2, Printed, NewLinePrinted DEF RoundOver
<1> QED  BY <1>1, <1>2 DEF RoundOver

LEMMA ScreenStep == ScreenInv /\ [Next]_vars => ScreenInv'
<1>1. ASSUME ScreenInv, NEW c, Typed(c) PROVE ScreenInv'
  BY <1>1 DEF ScreenInv, Typed, line
<1>2. ASSUME ScreenInv, UNCHANGED vars PROVE ScreenInv'
  BY <1>2 DEF ScreenInv, vars, line
<1> QED  BY <1>1, <1>2, InsertScreen, RubOutScreen, EnterScreen, DemoScreen, RoundOverScreen DEF Next

\* A place before the cursor is in one row and column of the screen.
LEMMA PlaceIs ==
    ASSUME NEW w \in Nat \ {0}, NEW y \in Nat, NEW x \in 0 .. w - 1, NEW k \in Nat \ {0},
           NEW p \in Nat, p + k = y * w + x
    PROVE  /\ p \div w \in 0 .. y /\ p % w \in 0 .. w - 1
           /\ (p \div w) * w + (p % w) + k = y * w + x
<1> DEFINE b == y * w
           r == p \div w
           c == p % w
           a == r * w
<1>1. b \in Nat /\ p + k = b + x
  BY RowsMonotonic
<1>2. r \in Nat /\ c \in 0 .. w - 1 /\ a + c = p
  OBVIOUS
<1>3. a \in Nat /\ (y < r => b + w <= a)
  BY <1>2, RowsMonotonic
<1> HIDE DEF a, b, c, r
<1>4. r \in 0 .. y
  BY <1>1, <1>2, <1>3
<1>5. a + c + k = b + x
  BY <1>1, <1>2, <1>3
<1> QED  BY <1>2, <1>4, <1>5 DEF a, b, c, r

LEMMA ScreenImplies == ScreenInv => ScreenShowsLine
<1> SUFFICES ASSUME ScreenInv PROVE ScreenShowsLine
  OBVIOUS
<1> DEFINE x     == screen.x
           y     == screen.y
           shown == Prompt \o buf
           width == fb_width \div GLYPH
           place == y * width + x
           glyph(p) == screen.cells[p \div width][p % width]
<1>1. x \in Col /\ y \in Row
  BY DEF ScreenInv, Screens
<1>2. \A c \in Col : c >= x => screen.cells[y][c] = Space
  BY DEF ScreenInv, Past
<1>3. ASSUME pc = "line" /\ fb_ready /\ ~atEdge,
             NEW k \in 1 .. Len(shown), k <= place
      PROVE  glyph(place - k) = shown[Len(shown) + 1 - k]
  <2> DEFINE p == place - k
             r == p \div width
             c == p % width
  <2>1. width \in Nat \ {0} /\ y \in Nat /\ x \in 0 .. width - 1 /\ k \in Nat \ {0}
    BY <1>1, Sizes DEF Width
  <2>2. place \in Nat
    BY <2>1
  <2>3. p \in Nat /\ p + k = place
    <3> HIDE DEF place
    <3> QED  BY <1>3, <2>1, <2>2
  <2>4. r \in 0 .. y /\ c \in 0 .. width - 1 /\ r * width + c + k = y * width + x
    <3> HIDE DEF p, width, x, y
    <3> QED  BY <2>1, <2>3, PlaceIs
  <2> HIDE DEF p, r, c
  <2>5. r \in Row /\ c \in Col
    BY <1>1, <2>4, Sizes DEF Width
  <2>6. Reads(screen, shown)
    BY <1>3 DEF ScreenInv
  <2>7. screen.cells[r][c] = shown[Len(shown) + 1 - k]
    <3> HIDE DEF shown
    <3> QED  BY <2>4, <2>5, <2>6 DEF Reads, Width
  <2> QED  BY <2>7 DEF r, c, p
<1>4. ASSUME pc = "line" /\ fb_ready /\ ~atEdge
      PROVE  \A k \in 1 .. Len(shown) :
               k <= place => glyph(place - k) = shown[Len(shown) + 1 - k]
  BY <1>3, <1>4
<1> QED  BY ONLY <1>1, <1>2, <1>4, Zenon DEF ScreenShowsLine

\* The cursor never leaves the screen, and the screen reads the prompt and the line
\* up to it and is blank past it: kernel_shell_entry and fb_putc agree.
THEOREM ScreenAlwaysShowsLine == Spec => []ScreenShowsLine
<1>1. ScreenInv /\ [Next]_vars => ScreenInv'
  BY ScreenStep
<1> QED  BY ScreenInit, <1>1, ScreenImplies, PTL DEF Spec

-----------------------------------------------------------------------------
(* The demos meet their deadlines.                                          *)

\* What the deadline leaves at each point of a round, when no stretch takes long.
\* A demo comes late to a round by what its last look at the clock took too long.
InTime ==
    /\ pc = "round" => IF demo.stress THEN 3 * due >= 2 * demo.period + 2 \/ due >= demo.period
                                      ELSE 2 * due >= demo.period + 1
    /\ pc = "work"  => demo.stress /\ 3 * due >= demo.period + 1
    /\ pc = "wait"  => IF demo.stress THEN 3 * due >= 2 - demo.period
                                      ELSE 2 * due >= 1 - demo.period

DemoInv ==
    /\ demo \in Demos /\ due \in Int
    /\ ~slow => miss = 0 /\ InTime

LEMMA DemoType ==
    ASSUME DemoInv
    PROVE  demo.period \in Nat \ {0} /\ demo.stress \in BOOLEAN /\ due \in Int
  BY DemosAssumption DEF DemoInv

\* A look at the clock after a stretch that is not long.
LEMMA Looked ==
    ASSUME DemoInv, NEW e \in 0 .. MaxElapsed, timer_update_ticks(e), ~slow'
    PROVE  /\ ~slow /\ due' \in Int /\ due' = due - e /\ e \in Nat
           /\ demo.stress => 3 * e <= demo.period + 1
           /\ ~demo.stress => 2 * e <= demo.period + 1
<1>1. due' = due - e /\ e \in Nat /\ due' \in Int
  BY ConsoleAssumption, DemoType DEF timer_update_ticks
<1>2. ~slow /\ ~Long(e)
  BY DEF timer_update_ticks
<1>3. demo.stress => 3 * e <= demo.period + 1
  BY <1>1, <1>2, DemoType DEF Long
<1>4. ~demo.stress => 2 * e <= demo.period + 1
  BY <1>1, <1>2, DemoType DEF Long
<1> QED  BY <1>1, <1>2, <1>3, <1>4

LEMMA LookType ==
    ASSUME DemoInv, NEW e \in 0 .. MaxElapsed, timer_update_ticks(e)
    PROVE  due' \in Int
  BY ConsoleAssumption, DemoType DEF timer_update_ticks

LEMMA StartedInTime ==
    ASSUME NEW d \in Demos, Started(d)
    PROVE  DemoInv'
<1>1. d.period \in Nat \ {0}
  BY DemosAssumption
<1>2. demo' = d /\ due' = d.period /\ miss' = 0 /\ pc' = "round"
  BY DEF Started
<1>3. InTime'
  BY <1>1, <1>2 DEF InTime
<1> QED  BY <1>1, <1>2, <1>3 DEF DemoInv

LEMMA DemoInit == Init => DemoInv
<1> SUFFICES ASSUME Init PROVE DemoInv
  OBVIOUS
<1>1. BootDemo \in Demos /\ BootDemo.period \in Nat \ {0}
  BY ConsoleAssumption, DemosAssumption
<1>2. demo = BootDemo /\ due = BootDemo.period /\ miss = 0 /\ pc = "round"
  BY DEF Init
<1>3. InTime
  BY <1>1, <1>2 DEF InTime
<1> QED  BY <1>1, <1>2, <1>3 DEF DemoInv

LEMMA RoundInTime == DemoInv /\ Round => DemoInv'
<1> SUFFICES ASSUME DemoInv, Round PROVE DemoInv'
  OBVIOUS
<1>1. PICK e \in 0 .. MaxElapsed : timer_update_ticks(e)
  BY DEF Round
<1>2. demo' = demo /\ pc = "round" /\ pc' = IF demo.stress THEN "work" ELSE "wait"
  BY DEF Round
<1>3. due' \in Int /\ demo' \in Demos
  BY <1>1, <1>2, LookType DEF DemoInv
<1>4. ASSUME ~slow' PROVE miss' = 0 /\ InTime'
  <2>1. /\ ~slow /\ due' = due - e /\ e \in Nat
        /\ demo.stress => 3 * e <= demo.period + 1
        /\ ~demo.stress => 2 * e <= demo.period + 1
    BY <1>1, <1>4, Looked
  <2>2. miss = 0 /\ InTime
    BY <2>1 DEF DemoInv
  <2>3. CASE demo.stress
    <3>1. 3 * due >= 2 * demo.period + 2 \/ due >= demo.period
      BY <1>2, <2>2, <2>3 DEF InTime
    <3>2. 3 * due' >= demo.period + 1 /\ due' >= 0
      BY <2>1, <2>3, <3>1, DemoType
    <3>3. pc' = "work"
      BY <1>2, <2>3
    <3>4. InTime'
      BY <1>2, <2>3, <3>2, <3>3 DEF InTime
    <3> QED  BY <1>3, <2>2, <3>2, <3>4 DEF Round, Counted, Missed
  <2>4. CASE ~demo.stress
    <3>1. 2 * due >= demo.period + 1
      BY <1>2, <2>2, <2>4 DEF InTime
    <3>2. due' >= 0
      BY <1>3, <2>1, <2>4, <3>1, DemoType
    <3>3. 2 * due' >= 1 - demo.period
      BY <1>3, <3>2, DemoType
    <3>4. pc' = "wait"
      BY <1>2, <2>4
    <3>5. InTime'
      BY <1>2, <2>4, <3>3, <3>4 DEF InTime
    <3> QED  BY <1>3, <2>2, <3>2, <3>5 DEF Round, Counted, Missed
  <2> QED  BY <2>3, <2>4
<1> QED  BY <1>3, <1>4 DEF DemoInv

LEMMA HeavyWorkInTime == DemoInv /\ HeavyWork => DemoInv'
<1> SUFFICES ASSUME DemoInv, HeavyWork PROVE DemoInv'
  OBVIOUS
<1>1. PICK e \in 0 .. MaxElapsed : timer_update_ticks(e)
  BY DEF HeavyWork
<1>2. demo' = demo /\ pc = "work" /\ pc' = "wait"
  BY DEF HeavyWork
<1>3. due' \in Int /\ demo' \in Demos
  BY <1>1, <1>2, LookType DEF DemoInv
<1>4. ASSUME ~slow' PROVE miss' = 0 /\ InTime'
  <2>1. ~slow /\ due' = due - e /\ e \in Nat /\ (demo.stress => 3 * e <= demo.period + 1)
    BY <1>1, <1>4, Looked
  <2>2. miss = 0 /\ demo.stress /\ 3 * due >= demo.period + 1
    BY <1>2, <2>1 DEF DemoInv, InTime
  <2>3. due' >= 0
    BY <2>1, <2>2, DemoType
  <2>4. 3 * due' >= 2 - demo.period
    BY <2>1, <2>2, DemoType
  <2>5. InTime'
    BY <1>2, <2>2, <2>4 DEF InTime
  <2> QED  BY <1>3, <2>2, <2>3, <2>5 DEF HeavyWork, Counted, Missed
<1> QED  BY <1>3, <1>4 DEF DemoInv

LEMMA BusyWaitInTime == DemoInv /\ BusyWait => DemoInv'
<1> SUFFICES ASSUME DemoInv, BusyWait PROVE DemoInv'
  OBVIOUS
<1>1. PICK e \in 0 .. MaxElapsed : timer_update_ticks(e)
  BY DEF BusyWait
<1>2. demo' = demo /\ pc' = "wait" /\ miss' = miss /\ due > 0
  BY DEF BusyWait
<1>3. due' \in Int /\ demo' \in Demos
  BY <1>1, <1>2, LookType DEF DemoInv
<1>4. ASSUME ~slow' PROVE miss' = 0 /\ InTime'
  <2>1. /\ ~slow /\ due' = due - e /\ e \in Nat
        /\ demo.stress => 3 * e <= demo.period + 1
        /\ ~demo.stress => 2 * e <= demo.period + 1
    BY <1>1, <1>4, Looked
  <2>2. demo.stress => 3 * due' >= 2 - demo.period
    BY <1>2, <2>1, DemoType
  <2>3. ~demo.stress => 2 * due' >= 1 - demo.period
    BY <1>2, <2>1, DemoType
  <2>4. InTime'
    BY <1>2, <2>2, <2>3 DEF InTime
  <2> QED  BY <1>2, <2>1, <2>4 DEF DemoInv
<1> QED  BY <1>3, <1>4 DEF DemoInv

LEMMA RoundOverInTime == DemoInv /\ RoundOver => DemoInv'
<1> SUFFICES ASSUME DemoInv, RoundOver PROVE DemoInv'
  OBVIOUS
<1>1. /\ due' = due + demo.period /\ pc = "wait" /\ pc' \in {"round", "line"}
      /\ demo' = demo /\ miss' = miss
  BY DEF RoundOver
<1>2. slow' = slow
  BY DEF RoundOver
<1>3. due' \in Int /\ demo' \in Demos
  BY <1>1, DemoType DEF DemoInv
<1>4. ASSUME ~slow PROVE miss = 0 /\ InTime'
  <2>1. miss = 0 /\ InTime
    BY <1>4 DEF DemoInv
  <2>2. demo.stress => 3 * due' >= 2 * demo.period + 2
    BY <1>1, <2>1, DemoType DEF InTime
  <2>3. ~demo.stress => 2 * due' >= demo.period + 1
    BY <1>1, <2>1, DemoType DEF InTime
  <2>4. InTime'
    BY <1>1, <2>2, <2>3 DEF InTime
  <2> QED  BY <2>1, <2>4
<1> QED  BY <1>1, <1>2, <1>3, <1>4 DEF DemoInv

LEMMA DemoStep == DemoInv /\ [Next]_vars => DemoInv'
<1>1. ASSUME DemoInv, EnterDemo PROVE DemoInv'
  BY <1>1, StartedInTime DEF EnterDemo
<1>2. ASSUME DemoInv, UNCHANGED <<pc, clock>> PROVE DemoInv'
  <2>1. UNCHANGED <<pc, demo, miss, due>> /\ slow' = slow
    BY <1>2 DEF clock
  <2> QED  BY <1>2, <2>1 DEF DemoInv, InTime
<1>3. (\E c : Typed(c)) \/ Insert \/ RubOut \/ Enter \/ UNCHANGED vars => UNCHANGED <<pc, clock>>
  BY DEF Typed, Insert, RubOut, Enter, vars
<1> QED  BY <1>1, <1>2, <1>3, RoundInTime, HeavyWorkInTime, BusyWaitInTime, RoundOverInTime DEF Next

\* As long as no stretch between two looks at the clock takes long, no demo counts a
\* missed deadline, whatever its period and however many rounds it has.
THEOREM DemosAlwaysMeetDeadlines == Spec => []DemosMeetDeadlines
<1>1. DemoInv => DemosMeetDeadlines
  BY DEF DemoInv, DemosMeetDeadlines
<1> QED  BY DemoInit, DemoStep, <1>1, PTL DEF Spec

=============================================================================
