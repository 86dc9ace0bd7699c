--------------------------- MODULE KeyboardProofs ---------------------------
(***************************************************************************)
(* Proofs about Keyboard and Vga, for every size of the screen and of the  *)
(* buffers, every key table and every text that is printed: the terminal   *)
(* is the simple one of module Terminal, the screen shows the line that is *)
(* edited, and nothing but vga_status_line touches the status row.         *)
(***************************************************************************)
EXTENDS Keyboard, SequenceTheorems, WellFoundedInduction, TLAPS

(***************************************************************************)
(* Puts, character by character.                                           *)
(***************************************************************************)

\* A set of numbers that is not empty has a smallest one.
LEMMA Smallest ==
    ASSUME NEW T, T \subseteq Nat, T # {}
    PROVE  \E m \in T : \A n \in T : m <= n
<1>1. PICK m \in T : \A n \in T : ~ (<<n, m>> \in OpToRel(<, Nat))
  BY WFMin, NatLessThanWellFounded, Zenon
<1>2. \A n \in T : ~ (n < m)
  BY <1>1, Zenon DEF OpToRel
<1>3. QED
  BY <1>2

\* f holds the screens after each of the first m characters.
Steps(s, text, m, f) ==
    f = [n \in 0 .. m |-> IF n = 0 THEN s ELSE Putc(f[n - 1], text[n])]

\* There is such an f: a smallest m without one would have a predecessor.
LEMMA StepsExist ==
    ASSUME NEW s, NEW text, NEW m \in Nat
    PROVE  \E f : Steps(s, text, m, f)
<1> DEFINE T == {n \in Nat : ~ \E f : Steps(s, text, n, f)}
<1> SUFFICES ASSUME T # {}  PROVE FALSE
  OBVIOUS
<1>1. PICK k \in T : \A n \in T : k <= n
  <2>1. T \subseteq Nat
    OBVIOUS
  <2> HIDE DEF T
  <2>2. QED  BY <2>1, Smallest
<1>2. k \in Nat
  OBVIOUS
<1>3. CASE k = 0
  <2> DEFINE f == [n \in 0 .. 0 |-> s]
  <2>1. Steps(s, text, 0, f)
    BY DEF Steps
  <2>2. QED  BY <1>3, <2>1
<1>4. CASE k # 0
  <2>1. k - 1 \in Nat /\ k - 1 \notin T
    BY <1>1, <1>2, <1>4
  <2>2. PICK f : Steps(s, text, k - 1, f)
    BY <2>1
  <2> DEFINE g == [n \in 0 .. k |-> IF n = k THEN Putc(f[k - 1], text[k]) ELSE f[n]]
  <2>3. ASSUME NEW n \in 0 .. k
        PROVE  g[n] = IF n = 0 THEN s ELSE Putc(g[n - 1], text[n])
    <3>1. CASE n = k
      <4>1. n - 1 \in 0 .. k /\ n - 1 # k
        BY <3>1, <1>2, <1>4
      <4>2. g[n - 1] = f[n - 1]
        BY <4>1
      <4>3. g[n] = Putc(f[k - 1], text[k])
        BY <3>1
      <4>4. QED  BY <4>2, <4>3, <3>1, <1>4
    <3>2. CASE n # k
      <4>1. n \in 0 .. k - 1
        BY <3>2, <1>2
      <4>2. f[n] = IF n = 0 THEN s ELSE Putc(f[n - 1], text[n])
        BY <2>2, <4>1 DEF Steps
      <4>3. g[n] = f[n]
        BY <3>2
      <4>4. n # 0 => n - 1 \in 0 .. k /\ n - 1 # k
        BY <4>1, <1>2
      <4>5. n # 0 => g[n - 1] = f[n - 1]
        BY <4>4
      <4>6. QED  BY <4>2, <4>3, <4>5
    <3>3. QED  BY <3>1, <3>2
  <2>4. Steps(s, text, k, g)
    <3> DEFINE h == [n \in 0 .. k |-> IF n = 0 THEN s ELSE Putc(g[n - 1], text[n])]
    <3>1. \A n \in 0 .. k : g[n] = h[n]
      BY <2>3
    <3>2. g = h
      BY <3>1
    <3>3. QED  BY <3>2 DEF Steps
  <2>5. QED  BY <2>4
<1>5. QED  BY <1>3, <1>4

LEMMA PutsSteps ==
    ASSUME NEW s, NEW text, Len(text) \in Nat
    PROVE  \E f : Steps(s, text, Len(text), f) /\ Puts(s, text) = f[Len(text)]
<1> DEFINE F == CHOOSE f : Steps(s, text, Len(text), f)
<1>1. Steps(s, text, Len(text), F)
  BY StepsExist
<1>2. Puts(s, text) = F[Len(text)]
  BY DEF Puts, Steps
<1>3. QED  BY <1>1, <1>2

(***************************************************************************)
(* Places on the screen.                                                   *)
(***************************************************************************)
Cells == TextCells \cup StatusCells
Values == Chars \cup {Unset, Other, Blank, NewLine, Bar, Copied}

Screens == [mem : [Cells -> Values], row : 0 .. VGA_TEXT_ROWS - 1, col : 0 .. VGA_COLS - 1,
            disturbed : BOOLEAN]

\* Where the next character goes.
Place(s) == Cell(s.row) + s.col

LEMMA Products ==
    ASSUME NEW a \in Nat, NEW b \in Nat, a <= b, NEW m \in Nat
    PROVE  a * m \in Nat /\ b * m \in Nat /\ a * m <= b * m
<1>1. PICK d \in Nat : b = a + d
  <2>1. b - a \in Nat /\ b = a + (b - a)
    OBVIOUS
  <2>2. QED  BY <2>1
<1>2. (a + d) * m = (a * m) + (d * m) /\ a * m \in Nat /\ d * m \in Nat
  BY SMT
<1>3. QED  BY <1>1, <1>2

LEMMA CellsOfRow ==
    ASSUME NEW r \in Nat
    PROVE  /\ Cell(r) \in Nat /\ Cell(r + 1) = Cell(r) + VGA_COLS
           /\ VGA_COLS \in Nat \ {0} /\ VGA_TEXT_ROWS \in Nat \ {0}
<1>1. VGA_COLS \in Nat \ {0} /\ VGA_TEXT_ROWS \in Nat \ {0}
  BY ScreenSizes
<1>2. (r + 1) * VGA_COLS = (r * VGA_COLS) + VGA_COLS /\ r * VGA_COLS \in Nat
  BY <1>1, SMT
<1>3. QED  BY <1>1, <1>2 DEF Cell

LEMMA RowsApart ==
    ASSUME NEW r \in Nat, NEW q \in Nat, r < q
    PROVE  Cell(r) \in Nat /\ Cell(q) \in Nat /\ Cell(r) + VGA_COLS <= Cell(q)
<1>1. VGA_COLS \in Nat
  BY ScreenSizes
<1>2. r + 1 \in Nat /\ r + 1 <= q
  OBVIOUS
<1>3. (r + 1) * VGA_COLS <= q * VGA_COLS
  BY <1>1, <1>2, Products
<1>4. Cell(r + 1) <= Cell(q)
  BY <1>3 DEF Cell
<1>5. QED  BY <1>4, CellsOfRow

\* The cells of the text, and behind them those of the status row.
LEMMA CellsAre ==
    /\ Cell(VGA_TEXT_ROWS) \in Nat
    /\ TextCells = 0 .. Cell(VGA_TEXT_ROWS) - 1
    /\ StatusCells = Cell(VGA_TEXT_ROWS) .. Cell(VGA_TEXT_ROWS) + VGA_COLS - 1
    /\ Cells = 0 .. Cell(VGA_TEXT_ROWS) + VGA_COLS - 1
    /\ VGA_COLS \in Nat \ {0} /\ VGA_TEXT_ROWS \in Nat \ {0}
<1>1. VGA_TEXT_ROWS \in Nat /\ VGA_COLS \in Nat \ {0} /\ VGA_TEXT_ROWS \in Nat \ {0}
  BY ScreenSizes
<1>2. Cell(VGA_TEXT_ROWS) \in Nat /\ Cell(VGA_TEXT_ROWS + 1) = Cell(VGA_TEXT_ROWS) + VGA_COLS
  BY <1>1, CellsOfRow
<1>3. QED  BY <1>1, <1>2 DEF TextCells, StatusCells, Cells, VGA_STATUS_ROW

LEMMA PlaceInText ==
    ASSUME NEW s \in Screens
    PROVE  /\ s.row \in 0 .. VGA_TEXT_ROWS - 1 /\ s.col \in 0 .. VGA_COLS - 1
           /\ Cell(s.row) \in Nat
           /\ Cell(s.row) + VGA_COLS <= Cell(VGA_TEXT_ROWS)
           /\ Place(s) \in TextCells
<1>1. s.row \in 0 .. VGA_TEXT_ROWS - 1 /\ s.col \in 0 .. VGA_COLS - 1
  BY DEF Screens
<1>2. s.row \in Nat /\ s.row < VGA_TEXT_ROWS /\ VGA_TEXT_ROWS \in Nat
  BY <1>1, ScreenSizes
<1>3. Cell(s.row) \in Nat /\ Cell(s.row) + VGA_COLS <= Cell(VGA_TEXT_ROWS)
  BY <1>2, RowsApart
<1>4. QED  BY <1>1, <1>3, CellsAre DEF Place

(***************************************************************************)
(* One character.  Everything behind the cursor stays blank, the status    *)
(* row stays as it is, and unless the text scrolls the character is put in *)
(* its place and the cursor moves on by one.                               *)
(***************************************************************************)
BlankBehind(s) == \A i \in TextCells : i >= Place(s) => s.mem[i] = Blank

Kept(s, r) ==
    /\ r \in Screens
    /\ \A i \in StatusCells : r.mem[i] = s.mem[i]
    /\ s.disturbed => r.disturbed
    /\ BlankBehind(s) => BlankBehind(r)

\* The first n characters of the text, none of them a new line, are put down.
PutDown(s, r, text, n) ==
    /\ Place(r) = Place(s) + n
    /\ \A i \in Cells : r.mem[i] = IF Place(s) <= i /\ i < Place(s) + n
                                   THEN text[i - Place(s) + 1] ELSE s.mem[i]

LEMMA ScrollKeeps ==
    ASSUME NEW s \in [mem : [Cells -> Values], row : Nat, col : Nat, disturbed : BOOLEAN],
           s.col = 0
    PROVE  /\ Scroll(s) \in Screens
           /\ \A i \in StatusCells : Scroll(s).mem[i] = s.mem[i]
           /\ Scroll(s).disturbed
           /\ BlankBehind(Scroll(s))
<1> DEFINE moved == [i \in DOMAIN s.mem |->
                         IF i \notin TextCells THEN s.mem[i]
                         ELSE IF i + VGA_COLS \in TextCells THEN s.mem[i + VGA_COLS] ELSE Blank]
<1>1. /\ Scroll(s).mem = moved /\ Scroll(s).row = VGA_TEXT_ROWS - 1 /\ Scroll(s).col = 0
      /\ Scroll(s).disturbed = TRUE
      /\ Scroll(s) = [mem |-> moved, row |-> VGA_TEXT_ROWS - 1, col |-> 0, disturbed |-> TRUE]
  <2>1. Scroll(s) = [s EXCEPT !.mem = moved, !.row = VGA_TEXT_ROWS - 1, !.disturbed = TRUE]
    BY Zenon DEF Scroll
  <2> HIDE DEF moved
  <2>2. QED  BY <2>1
<1>2. moved \in [Cells -> Values]
  <2>1. DOMAIN s.mem = Cells /\ \A i \in Cells : s.mem[i] \in Values
    OBVIOUS
  <2>2. Blank \in Values /\ TextCells \subseteq Cells
    BY DEF Values, Cells
  <2>3. QED  BY <2>1, <2>2
<1>3. Scroll(s) \in Screens
  BY <1>1, <1>2, CellsAre DEF Screens
<1>4. \A i \in StatusCells : moved[i] = s.mem[i]
  BY CellsAre
<1>5. ASSUME NEW i \in TextCells, i >= Cell(VGA_TEXT_ROWS - 1)  PROVE moved[i] = Blank
  <2>1. VGA_TEXT_ROWS - 1 \in Nat /\ VGA_TEXT_ROWS - 1 + 1 = VGA_TEXT_ROWS
    BY CellsAre
  <2>2. Cell(VGA_TEXT_ROWS) = Cell(VGA_TEXT_ROWS - 1) + VGA_COLS /\ Cell(VGA_TEXT_ROWS - 1) \in Nat
    BY <2>1, CellsOfRow
  <2>3. i + VGA_COLS \notin TextCells
    BY <2>2, <1>5, CellsAre
  <2>4. QED  BY <2>3, CellsAre
<1>6. Place(Scroll(s)) = Cell(VGA_TEXT_ROWS - 1)
  <2>1. VGA_TEXT_ROWS - 1 \in Nat
    BY CellsAre
  <2>2. Cell(VGA_TEXT_ROWS - 1) \in Nat
    BY <2>1, CellsOfRow
  <2>3. QED  BY <1>1, <2>2 DEF Place
<1>7. BlankBehind(Scroll(s))
  BY <1>1, <1>5, <1>6 DEF BlankBehind
<1>8. QED  BY <1>1, <1>3, <1>4, <1>7

\* The screen before it scrolls: the cursor may be below the text.
Beyond == [mem : [Cells -> Values], row : Nat, col : 0 .. VGA_COLS - 1, disturbed : BOOLEAN]

LEMMA AdvancedTo ==
    ASSUME NEW s \in Screens, NEW ch \in Values
    PROVE  LET n == Advanced(s, ch) IN
           /\ n \in Beyond /\ n.disturbed = s.disturbed
           /\ n.row >= VGA_TEXT_ROWS => n.col = 0
           /\ n.mem = IF ch = NewLine THEN s.mem ELSE [s.mem EXCEPT ![Place(s)] = ch]
           /\ ch # NewLine => Place(n) = Place(s) + 1
           /\ Place(n) > Place(s)
<1> DEFINE n == Advanced(s, ch)
           put == [s EXCEPT !.mem[Cell(s.row) + s.col] = ch]
<1>1. /\ s.row \in 0 .. VGA_TEXT_ROWS - 1 /\ s.col \in 0 .. VGA_COLS - 1
      /\ Cell(s.row) \in Nat /\ Cell(s.row + 1) = Cell(s.row) + VGA_COLS
      /\ Cell(s.row) + s.col \in Cells /\ Place(s) = Cell(s.row) + s.col
      /\ VGA_COLS \in Nat \ {0} /\ VGA_TEXT_ROWS \in Nat \ {0}
  <2>1. s.row \in Nat
    BY PlaceInText, CellsAre
  <2>2. Place(s) \in Cells
    BY PlaceInText DEF Cells
  <2>3. QED  BY <2>1, <2>2, PlaceInText, CellsOfRow, CellsAre DEF Place
<1>2. s = [mem |-> s.mem, row |-> s.row, col |-> s.col, disturbed |-> s.disturbed]
      /\ s.mem \in [Cells -> Values] /\ s.disturbed \in BOOLEAN
  BY DEF Screens
<1>3. put = [mem |-> [s.mem EXCEPT ![Place(s)] = ch], row |-> s.row, col |-> s.col,
             disturbed |-> s.disturbed]
      /\ [s.mem EXCEPT ![Place(s)] = ch] \in [Cells -> Values]
  BY <1>1, <1>2
<1>4. CASE ch = NewLine
  <2>1. n = [mem |-> s.mem, row |-> s.row + 1, col |-> 0, disturbed |-> s.disturbed]
    BY <1>2, <1>4 DEF Advanced
  <2>2. n \in Beyond /\ n.mem = s.mem /\ n.row = s.row + 1 /\ n.col = 0
        /\ n.disturbed = s.disturbed
    BY <2>1, <1>1, <1>2 DEF Beyond
  <2>3. Place(n) = Cell(s.row) + VGA_COLS
    BY <2>2, <1>1 DEF Place
  <2> HIDE DEF n
  <2>4. QED  BY <2>2, <2>3, <1>1, <1>4 DEF n
<1>5. CASE ch # NewLine /\ s.col + 1 >= VGA_COLS
  <2>1. n = [put EXCEPT !.col = 0, !.row = @ + 1]
    BY <1>5, Zenon DEF Advanced
  <2>2. n = [mem |-> [s.mem EXCEPT ![Place(s)] = ch], row |-> s.row + 1, col |-> 0,
             disturbed |-> s.disturbed]
    BY <2>1, <1>3
  <2> HIDE DEF n, put
  <2>3. n \in Beyond /\ n.mem = [s.mem EXCEPT ![Place(s)] = ch] /\ n.row = s.row + 1
        /\ n.col = 0 /\ n.disturbed = s.disturbed
    BY <2>2, <1>1, <1>2, <1>3 DEF Beyond
  <2>4. Place(n) = Place(s) + 1
    BY <2>3, <1>1, <1>5 DEF Place
  <2>5. QED  BY <2>3, <2>4, <1>1, <1>5 DEF n
<1>6. CASE ch # NewLine /\ ~ (s.col + 1 >= VGA_COLS)
  <2>1. n = [put EXCEPT !.col = @ + 1]
    BY <1>6, Zenon DEF Advanced
  <2>2. n = [mem |-> [s.mem EXCEPT ![Place(s)] = ch], row |-> s.row, col |-> s.col + 1,
             disturbed |-> s.disturbed]
    BY <2>1, <1>3
  <2> HIDE DEF n, put
  <2>3. n \in Beyond /\ n.mem = [s.mem EXCEPT ![Place(s)] = ch] /\ n.row = s.row
        /\ n.col = s.col + 1 /\ n.disturbed = s.disturbed
    BY <2>2, <1>1, <1>2, <1>3, <1>6 DEF Beyond
  <2>4. Place(n) = Place(s) + 1
    BY <2>3, <1>1 DEF Place
  <2>5. QED  BY <2>3, <2>4, <1>1, <1>6 DEF n
<1>7. QED  BY <1>4, <1>5, <1>6

LEMMA PutcKeeps ==
    ASSUME NEW s \in Screens, NEW ch \in Values
    PROVE  /\ Kept(s, Putc(s, ch))
           /\ ch # NewLine /\ ~ Putc(s, ch).disturbed =>
                 /\ Place(Putc(s, ch)) = Place(s) + 1
                 /\ Putc(s, ch).mem = [s.mem EXCEPT ![Place(s)] = ch]
<1> DEFINE n == Advanced(s, ch)
<1>1. /\ n \in Beyond /\ n.disturbed = s.disturbed
      /\ n.row >= VGA_TEXT_ROWS => n.col = 0
      /\ n.mem = IF ch = NewLine THEN s.mem ELSE [s.mem EXCEPT ![Place(s)] = ch]
      /\ ch # NewLine => Place(n) = Place(s) + 1
      /\ Place(n) > Place(s)
  BY AdvancedTo, Zenon
<1>2. Putc(s, ch) = IF n.row >= VGA_TEXT_ROWS THEN Scroll(n) ELSE n
  BY Zenon DEF Putc
<1>3. Place(s) \in TextCells /\ s.mem \in [Cells -> Values]
  BY PlaceInText DEF Screens
<1> HIDE DEF n
<1>4. \A i \in StatusCells : n.mem[i] = s.mem[i]
  BY <1>1, <1>3, CellsAre
<1>5. CASE n.row >= VGA_TEXT_ROWS
  <2>1. n \in [mem : [Cells -> Values], row : Nat, col : Nat, disturbed : BOOLEAN]
    BY <1>1, CellsAre DEF Beyond
  <2>2. /\ Scroll(n) \in Screens /\ Scroll(n).disturbed
        /\ \A i \in StatusCells : Scroll(n).mem[i] = n.mem[i]
        /\ BlankBehind(Scroll(n))
    BY <2>1, <1>1, <1>5, ScrollKeeps
  <2>3. Putc(s, ch) = Scroll(n)
    BY <1>2, <1>5
  <2>4. QED  BY <2>2, <2>3, <1>4 DEF Kept
<1>6. CASE ~ (n.row >= VGA_TEXT_ROWS)
  <2>1. Putc(s, ch) = n
    BY <1>2, <1>6
  <2>2. n \in Screens
    BY <1>1, <1>6, CellsAre DEF Beyond, Screens
  <2>3. BlankBehind(s) => BlankBehind(n)
    <3>1. Place(n) \in TextCells
      BY <2>2, PlaceInText
    <3>2. SUFFICES ASSUME BlankBehind(s), NEW i \in TextCells, i >= Place(n)
                   PROVE  n.mem[i] = Blank
      BY DEF BlankBehind
    <3>3. i > Place(s) /\ i \in Cells
      BY <3>1, <3>2, <1>1, <1>3, CellsAre
    <3>4. s.mem[i] = Blank /\ i # Place(s)
      BY <3>2, <3>3, <1>3, CellsAre DEF BlankBehind
    <3>5. QED  BY <3>3, <3>4, <1>1, <1>3
  <2>4. QED  BY <2>1, <2>2, <2>3, <1>1, <1>4 DEF Kept
<1>7. QED  BY <1>5, <1>6

(***************************************************************************)
(* A whole text.                                                           *)
(***************************************************************************)
LEMMA PutsKeeps ==
    ASSUME NEW s \in Screens, NEW text \in Seq(Values)
    PROVE  /\ Kept(s, Puts(s, text))
           /\ (\A k \in 1 .. Len(text) : text[k] # NewLine) /\ ~ Puts(s, text).disturbed
              => PutDown(s, Puts(s, text), text, Len(text))
<1> DEFINE Plain == \A k \in 1 .. Len(text) : text[k] # NewLine
<1>1. Len(text) \in Nat /\ \A k \in 1 .. Len(text) : text[k] \in Values
  BY ElementOfSeq, LenProperties
<1>2. PICK f : Steps(s, text, Len(text), f) /\ Puts(s, text) = f[Len(text)]
  BY <1>1, PutsSteps
<1> DEFINE Good(n) == Kept(s, f[n]) /\ (Plain /\ ~ f[n].disturbed => PutDown(s, f[n], text, n))
           T == {n \in 0 .. Len(text) : ~ Good(n)}
<1>3. f[0] = s /\ \A n \in 1 .. Len(text) : f[n] = Putc(f[n - 1], text[n])
  BY <1>1, <1>2 DEF Steps
<1>4. Good(0)
  <2>1. Kept(s, s)
    BY DEF Kept
  <2>2. PutDown(s, s, text, 0)
    <3>1. Place(s) \in Nat
      BY PlaceInText, CellsAre
    <3>2. QED  BY <3>1, CellsAre DEF PutDown
  <2>3. QED  BY <2>1, <2>2, <1>3, Zenon
<1>5. ASSUME NEW n \in 1 .. Len(text), Good(n - 1)  PROVE Good(n)
  <2> DEFINE q == f[n - 1]
             r == f[n]
  <2>1. r = Putc(q, text[n]) /\ text[n] \in Values /\ n - 1 \in Nat
    BY <1>1, <1>3
  <2>2. Kept(s, q) /\ (Plain /\ ~ q.disturbed => PutDown(s, q, text, n - 1))
    BY <1>5, Zenon
  <2>3. q \in Screens
    BY <2>2, Zenon DEF Kept
  <2> HIDE DEF q, r
  <2>4. /\ Kept(q, r)
        /\ text[n] # NewLine /\ ~ r.disturbed =>
              Place(r) = Place(q) + 1 /\ r.mem = [q.mem EXCEPT ![Place(q)] = text[n]]
    BY <2>1, <2>3, PutcKeeps, Zenon
  <2>5. Kept(s, r)
    BY <2>2, <2>4 DEF Kept
  <2>6. ASSUME Plain, ~ r.disturbed  PROVE PutDown(s, r, text, n)
    <3>1. ~ q.disturbed /\ text[n] # NewLine
      BY <2>4, <2>6 DEF Kept
    <3>2. PutDown(s, q, text, n - 1)
      BY <2>2, <2>6, <3>1
    <3>3. Place(s) \in Nat /\ Place(q) = Place(s) + (n - 1) /\ Place(q) \in Cells
      <4>1. Place(q) \in TextCells /\ Place(s) \in TextCells
        BY <2>3, PlaceInText
      <4>2. QED  BY <4>1, <3>2, CellsAre DEF PutDown
    <3>4. Place(r) = Place(s) + n
      BY <3>1, <3>3, <2>4, <2>6, <1>1
    <3>5. q.mem \in [Cells -> Values]
      BY <2>3 DEF Screens
    <3>6. ASSUME NEW i \in Cells
          PROVE  r.mem[i] = IF Place(s) <= i /\ i < Place(s) + n
                            THEN text[i - Place(s) + 1] ELSE s.mem[i]
      <4>1. r.mem[i] = IF i = Place(q) THEN text[n] ELSE q.mem[i]
        BY <3>1, <3>3, <3>5, <2>4, <2>6
      <4>2. q.mem[i] = IF Place(s) <= i /\ i < Place(s) + (n - 1)
                       THEN text[i - Place(s) + 1] ELSE s.mem[i]
        BY <3>2 DEF PutDown
      <4>3. i \in Nat
        BY CellsAre
      <4>4. CASE i = Place(q)
        <5>1. i - Place(s) + 1 = n /\ Place(s) <= i /\ i < Place(s) + n
          BY <4>4, <3>3, <4>3, <1>1
        <5>2. QED  BY <5>1, <4>1, <4>4
      <4>5. CASE i # Place(q)
        <5>1. Place(s) <= i /\ i < Place(s) + n <=> Place(s) <= i /\ i < Place(s) + (n - 1)
          BY <4>5, <3>3, <4>3, <1>1
        <5>2. QED  BY <5>1, <4>1, <4>2, <4>5
      <4>6. QED  BY <4>4, <4>5
    <3>7. QED  BY <3>4, <3>6 DEF PutDown
  <2>7. QED  BY <2>5, <2>6, Zenon DEF r
<1>6. T = {}
  <2>1. SUFFICES ASSUME T # {}  PROVE FALSE
    OBVIOUS
  <2>2. T \subseteq Nat
    BY <1>1
  <2>3. PICK m \in T : \A n \in T : m <= n
    <3> HIDE DEF T
    <3>1. QED  BY <2>1, <2>2, Smallest
  <2>4. m \in 0 .. Len(text) /\ ~ Good(m)
    BY <2>3, Zenon
  <2>5. m # 0
    BY <2>4, <1>4
  <2> HIDE DEF Good
  <2>6. m \in 1 .. Len(text) /\ m - 1 \in 0 .. Len(text) /\ ~ (m <= m - 1)
    BY <2>4, <2>5, <1>1
  <2>7. Good(m - 1)
    BY <2>3, <2>6
  <2>8. QED  BY <2>4, <2>6, <2>7, <1>5
<1>7. Good(Len(text))
  BY <1>6, <1>1
<1>8. QED  BY <1>7, <1>2, Zenon

(***************************************************************************)
(* The types of the ring and of the line.  What is behind head in the ring *)
(* are keys, and what is in front of len in the buffers are characters.    *)
(***************************************************************************)

\* A step inside the ring turns round at most once.
LEMMA Forward ==
    ASSUME NEW R \in Nat \ {0}, NEW a \in 0 .. R - 1, NEW b \in 0 .. R - 1
    PROVE  (a + b) % R = IF a + b < R THEN a + b ELSE a + b - R
<1>1. CASE a + b < R  BY <1>1, SMT
<1>2. CASE a + b >= R  BY <1>2, SMT
<1>3. QED  BY <1>1, <1>2

LEMMA Backward ==
    ASSUME NEW R \in Nat \ {0}, NEW a \in 0 .. R - 1, NEW b \in 0 .. R - 1
    PROVE  (a - b) % R = IF a >= b THEN a - b ELSE a - b + R
<1>1. CASE a >= b  BY <1>1, SMT
<1>2. CASE a < b  BY <1>2, SMT
<1>3. QED  BY <1>1, <1>2

\* How many keys wait between t and h, and where the k-th of them lies.
Count(h, t) == IF h >= t THEN h - t ELSE h - t + RING_SIZE
Slot(t, k) == IF t + k - 1 < RING_SIZE THEN t + k - 1 ELSE t + k - 1 - RING_SIZE

LEMMA WaitingIs ==
    ASSUME NEW h \in 0 .. RING_SIZE - 1, NEW t \in 0 .. RING_SIZE - 1
    PROVE  /\ (h - t) % RING_SIZE = Count(h, t) /\ Count(h, t) \in 0 .. RING_SIZE - 1
           /\ \A k \in 1 .. RING_SIZE : (t + k - 1) % RING_SIZE = Slot(t, k)
           /\ \A k \in 1 .. RING_SIZE : Slot(t, k) \in 0 .. RING_SIZE - 1
           /\ RING_SIZE \in Nat \ {0}
<1>1. RING_SIZE \in Nat \ {0}
  BY KeyboardSizes
<1>2. (h - t) % RING_SIZE = Count(h, t)
  BY <1>1, Backward DEF Count
<1>3. ASSUME NEW k \in 1 .. RING_SIZE  PROVE (t + k - 1) % RING_SIZE = Slot(t, k)
  <2>1. k - 1 \in 0 .. RING_SIZE - 1 /\ t + k - 1 = t + (k - 1)
    BY <1>1
  <2>2. (t + (k - 1)) % RING_SIZE = IF t + (k - 1) < RING_SIZE THEN t + (k - 1)
                                    ELSE t + (k - 1) - RING_SIZE
    BY <1>1, <2>1, Forward
  <2>3. QED  BY <1>1, <2>1, <2>2 DEF Slot
<1>4. QED  BY <1>1, <1>2, <1>3 DEF Count, Slot

\* The ring after a push: one key more, behind the others.
LEMMA PushedAt ==
    ASSUME NEW h \in 0 .. RING_SIZE - 1, NEW t \in 0 .. RING_SIZE - 1,
           NEW h1, h1 = (h + 1) % RING_SIZE, h1 # t
    PROVE  /\ h1 \in 0 .. RING_SIZE - 1
           /\ Count(h1, t) = Count(h, t) + 1
           /\ Slot(t, Count(h, t) + 1) = h
           /\ \A k \in 1 .. Count(h, t) : Slot(t, k) # h
<1>1. RING_SIZE \in Nat \ {0} /\ RING_SIZE # 1
  <2>1. RING_SIZE \in Nat \ {0}
    BY KeyboardSizes
  <2>2. CASE RING_SIZE = 1
    <3>1. h = 0 /\ t = 0 /\ (0 + 1) % 1 = 0
      BY <2>2
    <3>2. QED  BY <3>1, <2>2
  <2>3. QED  BY <2>1, <2>2
<1>2. h1 = IF h + 1 < RING_SIZE THEN h + 1 ELSE h + 1 - RING_SIZE
  <2>1. 1 \in 0 .. RING_SIZE - 1
    BY <1>1
  <2>2. QED  BY <1>1, <2>1, Forward
<1>3. QED  BY <1>1, <1>2 DEF Count, Slot

\* The ring after a key was taken: all others, one place nearer.
LEMMA TakenAt ==
    ASSUME NEW h \in 0 .. RING_SIZE - 1, NEW t \in 0 .. RING_SIZE - 1, h # t,
           NEW t1, t1 = (t + 1) % RING_SIZE
    PROVE  /\ t1 \in 0 .. RING_SIZE - 1
           /\ Count(h, t) = Count(h, t1) + 1
           /\ Slot(t, 1) = t
           /\ \A k \in 1 .. Count(h, t1) : Slot(t1, k) = Slot(t, k + 1) /\ Slot(t, k + 1) # t
<1>1. RING_SIZE \in Nat \ {0} /\ RING_SIZE # 1
  BY KeyboardSizes
<1>2. t1 = IF t + 1 < RING_SIZE THEN t + 1 ELSE t + 1 - RING_SIZE
  <2>1. 1 \in 0 .. RING_SIZE - 1
    BY <1>1
  <2>2. QED  BY <1>1, <2>1, Forward
<1>3. QED  BY <1>1, <1>2 DEF Count, Slot

KeysWait == \A k \in 1 .. Count(head, tail) : ring[Slot(tail, k)] \in Keys

CharsWritten ==
    /\ \A i \in 0 .. len - 1 : buf[i] \in Chars
    /\ \A i \in 0 .. clipboard_len - 1 : clipboard[i] \in Chars

TypeInv == TypeOK /\ KeysWait /\ CharsWritten

LEMMA InitTyped == Init => TypeInv
<1> SUFFICES ASSUME Init  PROVE TypeInv
  OBVIOUS
<1>1. RING_SIZE \in Nat \ {0} /\ LINE_MAX \in Nat \ {0} /\ CLIPBOARD_MAX \in Nat \ {0}
  BY KeyboardSizes
<1>2. head = 0 /\ tail = 0 /\ len = 0 /\ cursor = 0 /\ clipboard_len = 0
  BY DEF Init
<1>3. TypeOK
  BY <1>1 DEF Init, TypeOK
<1>4. Count(head, tail) = 0
  BY <1>1, <1>2 DEF Count
<1>5. QED  BY <1>2, <1>3, <1>4 DEF TypeInv, KeysWait, CharsWritten

LEMMA PushTyped ==
    ASSUME TypeOK, KeysWait, NEW key \in Keys, KbPush(key), UNCHANGED tail
    PROVE  /\ head' \in 0 .. RING_SIZE - 1 /\ ring' \in [0 .. RING_SIZE - 1 -> Keys \cup {Unset}]
           /\ KeysWait'
<1>1. /\ head \in 0 .. RING_SIZE - 1 /\ tail \in 0 .. RING_SIZE - 1
      /\ ring \in [0 .. RING_SIZE - 1 -> Keys \cup {Unset}]
  BY DEF TypeOK
<1> DEFINE h1 == (head + 1) % RING_SIZE
<1>2. CASE h1 = tail
  <2>1. UNCHANGED <<ring, head>>
    BY <1>2 DEF KbPush
  <2>2. QED  BY <2>1, <1>1 DEF KeysWait
<1>3. CASE h1 # tail
  <2>1. ring' = [ring EXCEPT ![head] = key] /\ head' = h1 /\ tail' = tail
    BY <1>3 DEF KbPush
  <2>2. /\ h1 \in 0 .. RING_SIZE - 1
        /\ Count(h1, tail) = Count(head, tail) + 1
        /\ Slot(tail, Count(head, tail) + 1) = head
        /\ \A k \in 1 .. Count(head, tail) : Slot(tail, k) # head
    BY <1>1, <1>3, PushedAt
  <2>3. Count(head, tail) \in 0 .. RING_SIZE - 1 /\ RING_SIZE \in Nat
        /\ \A k \in 1 .. RING_SIZE : Slot(tail, k) \in 0 .. RING_SIZE - 1
    BY <1>1, WaitingIs
  <2> HIDE DEF h1
  <2>4. ASSUME NEW k \in 1 .. Count(h1, tail)  PROVE ring'[Slot(tail, k)] \in Keys
    <3>1. k \in 1 .. Count(head, tail) \/ k = Count(head, tail) + 1
      BY <2>2, <2>3
    <3>2. Slot(tail, k) \in 0 .. RING_SIZE - 1
      BY <2>2, <2>3
    <3>3. CASE k = Count(head, tail) + 1
      BY <3>2, <3>3, <2>1, <2>2, <1>1
    <3>4. CASE k \in 1 .. Count(head, tail)
      BY <3>2, <3>4, <2>1, <2>2, <1>1 DEF KeysWait
    <3>5. QED  BY <3>1, <3>3, <3>4
  <2>5. KeysWait'
    BY <2>1, <2>4 DEF KeysWait
  <2>6. QED  BY <2>1, <2>2, <2>5, <1>1
<1>4. QED  BY <1>2, <1>3

\* Whatever byte comes, at most one key is put in the ring.
LEMMA TopHalfPushes ==
    ASSUME NEW code \in Codes, TopHalf(code)
    PROVE  /\ Nothing \/ \E key \in Keys : KbPush(key)
           /\ UNCHANGED <<tail, line, vga>>
<1>1. Controls \subseteq Keys /\ \A k \in Letters : k \in Keys /\ Upper[k] \in Keys
  BY DEF Keys, Chars
<1>2. /\ KB_LEFT \in Keys /\ KB_RIGHT \in Keys /\ KB_ENTER \in Keys /\ KB_BACK \in Keys
      /\ KB_CTRL_C \in Keys /\ KB_CTRL_V \in Keys
  BY <1>1 DEF Controls
<1>3. CASE Extended(code)
  <2>1. CASE code = "4B"
    BY <1>2, <1>3, <2>1 DEF Extended, TopHalf
  <2>2. CASE code = "4D"
    BY <1>2, <1>3, <2>2 DEF Extended, TopHalf
  <2>3. CASE code # "4B" /\ code # "4D"
    BY <1>3, <2>3 DEF Extended, TopHalf
  <2>4. QED  BY <2>1, <2>2, <2>3
<1>4. CASE Pressed(code)
  <2>1. (IF shift_down THEN Upper[code] ELSE code) \in Keys \/ code \notin Letters
    BY <1>1
  <2>2. Nothing \/ \E key \in Keys : KbPush(key)
    <3> HIDE DEF KbPush
    <3>1. QED  BY <1>2, <1>4, <2>1 DEF Pressed
  <2>3. QED  BY <2>2 DEF TopHalf
<1>5. CASE Modifier(code) \/ Nothing
  BY <1>5 DEF Modifier, TopHalf
<1>6. QED  BY <1>3, <1>4, <1>5 DEF TopHalf

(***************************************************************************)
(* What each key does to the bytes of the line.                            *)
(***************************************************************************)
Bytes == Chars \cup {Unset}
Buffers == [0 .. LINE_MAX - 1 -> Bytes]

LineTyped ==
    /\ LINE_MAX \in Nat \ {0} /\ CLIPBOARD_MAX \in Nat \ {0} /\ LINE_MAX <= CLIPBOARD_MAX
    /\ len \in 0 .. LINE_MAX - 1 /\ cursor \in 0 .. len
    /\ buf \in Buffers
    /\ clipboard_len \in 0 .. CLIPBOARD_MAX - 1
    /\ clipboard \in [0 .. CLIPBOARD_MAX - 1 -> Bytes]
    /\ CharsWritten

LEMMA LineIsTyped == TypeInv => LineTyped
BY KeyboardSizes DEF TypeInv, TypeOK, LineTyped, Buffers, Bytes

\* One byte is gone, those behind it are one place nearer.
LEMMA BackspaceGives ==
    ASSUME LineTyped, Backspace
    PROVE  /\ cursor > 0 /\ cursor' = cursor - 1 /\ len' = len - 1
           /\ buf' \in Buffers
           /\ \A i \in 0 .. len - 2 : buf'[i] = IF i < cursor - 1 THEN buf[i] ELSE buf[i + 1]
<1>1. /\ LINE_MAX \in Nat \ {0} /\ len \in 0 .. LINE_MAX - 1 /\ cursor \in 0 .. len
      /\ DOMAIN buf = 0 .. LINE_MAX - 1
      /\ \A i \in 0 .. LINE_MAX - 1 : buf[i] \in Bytes
      /\ cursor > 0 /\ cursor' = cursor - 1 /\ len' = len - 1
  BY DEF LineTyped, Buffers, Backspace
<1> DEFINE mem == Moved(buf, cursor - 1, buf, cursor, len - cursor)
<1>2. buf' = [i \in DOMAIN mem |-> IF i < len - 1 THEN mem[i] ELSE Unset]
  BY DEF Backspace, Cut
<1>3. /\ DOMAIN mem = 0 .. LINE_MAX - 1
      /\ \A i \in 0 .. LINE_MAX - 1 :
            mem[i] = IF cursor - 1 <= i /\ i < cursor - 1 + (len - cursor)
                     THEN buf[cursor + i - (cursor - 1)] ELSE buf[i]
  BY <1>1 DEF Moved
<1> HIDE DEF mem
<1>4. ASSUME NEW i \in 0 .. LINE_MAX - 1
      PROVE  /\ buf'[i] \in Bytes
             /\ i <= len - 2 => buf'[i] = IF i < cursor - 1 THEN buf[i] ELSE buf[i + 1]
  <2>1. buf'[i] = IF i < len - 1 THEN mem[i] ELSE Unset
    BY <1>2, <1>3
  <2>2. CASE i < len - 1 /\ i < cursor - 1
    BY <2>1, <2>2, <1>1, <1>3
  <2>3. CASE i < len - 1 /\ ~ (i < cursor - 1)
    <3>1. cursor + i - (cursor - 1) = i + 1 /\ i + 1 \in 0 .. LINE_MAX - 1
      BY <2>3, <1>1
    <3>2. mem[i] = buf[i + 1]
      BY <3>1, <2>3, <1>1, <1>3
    <3>3. QED  BY <3>1, <3>2, <2>1, <2>3, <1>1
  <2>4. CASE ~ (i < len - 1)
    BY <2>1, <2>4, <1>1 DEF Bytes
  <2>5. QED  BY <2>2, <2>3, <2>4
<1>5. buf' \in Buffers
  BY <1>2, <1>3, <1>4 DEF Buffers
<1>6. QED  BY <1>1, <1>4, <1>5

\* n bytes of src stand where the cursor was, the rest n places further.
LEMMA InsertGives ==
    ASSUME LineTyped, NEW src, NEW n \in Nat, len + n < LINE_MAX,
           \A i \in 0 .. n - 1 : src[i] \in Chars, Insert(src, n)
    PROVE  /\ cursor' = cursor + n /\ len' = len + n
           /\ buf' \in Buffers
           /\ \A i \in 0 .. len + n - 1 :
                 buf'[i] = IF i < cursor THEN buf[i]
                           ELSE IF i < cursor + n THEN src[i - cursor] ELSE buf[i - n]
<1>1. /\ LINE_MAX \in Nat \ {0} /\ len \in 0 .. LINE_MAX - 1 /\ cursor \in 0 .. len
      /\ DOMAIN buf = 0 .. LINE_MAX - 1
      /\ \A i \in 0 .. LINE_MAX - 1 : buf[i] \in Bytes
      /\ cursor' = cursor + n /\ len' = len + n
  BY DEF LineTyped, Buffers, Insert
<1> DEFINE mem == Moved(buf, cursor + n, buf, cursor, len - cursor)
<1>2. buf' = [i \in DOMAIN mem |-> IF cursor <= i /\ i < cursor + n THEN src[0 + i - cursor]
                                   ELSE mem[i]]
  BY DEF Insert, Moved
<1>3. /\ DOMAIN mem = 0 .. LINE_MAX - 1
      /\ \A i \in 0 .. LINE_MAX - 1 :
            mem[i] = IF cursor + n <= i /\ i < cursor + n + (len - cursor)
                     THEN buf[cursor + i - (cursor + n)] ELSE buf[i]
  BY <1>1 DEF Moved
<1> HIDE DEF mem
<1>4. ASSUME NEW i \in 0 .. LINE_MAX - 1
      PROVE  /\ buf'[i] \in Bytes
             /\ i < len + n =>
                   buf'[i] = IF i < cursor THEN buf[i]
                             ELSE IF i < cursor + n THEN src[i - cursor] ELSE buf[i - n]
  <2>1. buf'[i] = IF cursor <= i /\ i < cursor + n THEN src[0 + i - cursor] ELSE mem[i]
    BY <1>2, <1>3
  <2>2. CASE i < cursor
    BY <2>1, <2>2, <1>1, <1>3
  <2>3. CASE cursor <= i /\ i < cursor + n
    <3>1. 0 + i - cursor = i - cursor /\ i - cursor \in 0 .. n - 1
      BY <2>3, <1>1
    <3>2. QED  BY <3>1, <2>1, <2>3, <1>1 DEF Bytes
  <2>4. CASE cursor + n <= i /\ i < len + n
    <3>1. cursor + i - (cursor + n) = i - n /\ i - n \in 0 .. LINE_MAX - 1
      BY <2>4, <1>1
    <3>2. mem[i] = buf[i - n]
      BY <3>1, <2>4, <1>1, <1>3
    <3>3. QED  BY <3>1, <3>2, <2>1, <2>4, <1>1
  <2>5. CASE cursor + n <= i /\ ~ (i < len + n)
    BY <2>1, <2>5, <1>1, <1>3
  <2>6. QED  BY <2>2, <2>3, <2>4, <2>5, <1>1
<1>5. buf' \in Buffers
  BY <1>2, <1>3, <1>4 DEF Buffers
<1>6. QED  BY <1>1, <1>4, <1>5

\* The clipboard takes the whole line: it is not the shorter of the two.
LEMMA CopyGives ==
    ASSUME LineTyped, CopyLine
    PROVE  /\ clipboard_len' = len
           /\ clipboard' \in [0 .. CLIPBOARD_MAX - 1 -> Bytes]
           /\ \A i \in 0 .. len - 1 : clipboard'[i] = buf[i]
<1>1. /\ LINE_MAX \in Nat \ {0} /\ len \in 0 .. LINE_MAX - 1
      /\ CLIPBOARD_MAX \in Nat /\ LINE_MAX <= CLIPBOARD_MAX
      /\ DOMAIN buf = 0 .. LINE_MAX - 1 /\ DOMAIN clipboard = 0 .. CLIPBOARD_MAX - 1
      /\ \A i \in 0 .. LINE_MAX - 1 : buf[i] \in Bytes
  BY DEF LineTyped, Buffers
<1>2. (IF len < CLIPBOARD_MAX - 1 THEN len ELSE CLIPBOARD_MAX - 1) = len
  BY <1>1
<1> DEFINE mem == Moved(clipboard, 0, buf, 0, len)
<1>3. clipboard' = Cut(mem, len) /\ clipboard_len' = len
  BY <1>2 DEF CopyLine
<1>4. clipboard' = [i \in DOMAIN mem |-> IF i < len THEN mem[i] ELSE Unset]
  BY <1>3 DEF Cut
<1>5. /\ DOMAIN mem = 0 .. CLIPBOARD_MAX - 1
      /\ \A i \in 0 .. CLIPBOARD_MAX - 1 :
            mem[i] = IF 0 <= i /\ i < 0 + len THEN buf[0 + i - 0] ELSE clipboard[i]
  BY <1>1 DEF Moved
<1> HIDE DEF mem
<1>6. \A i \in 0 .. CLIPBOARD_MAX - 1 :
          clipboard'[i] = IF i < len THEN buf[i] ELSE Unset
  <2>1. SUFFICES ASSUME NEW i \in 0 .. CLIPBOARD_MAX - 1
                 PROVE  clipboard'[i] = IF i < len THEN buf[i] ELSE Unset
    OBVIOUS
  <2>2. 0 + i - 0 = i /\ 0 <= i /\ 0 + len = len
    BY <1>1
  <2>3. QED  BY <2>2, <1>4, <1>5
<1>7. clipboard' \in [0 .. CLIPBOARD_MAX - 1 -> Bytes]
  BY <1>1, <1>4, <1>5, <1>6 DEF Bytes
<1>8. \A i \in 0 .. len - 1 : clipboard'[i] = buf[i]
  <2>1. \A i \in 0 .. len - 1 : i \in 0 .. CLIPBOARD_MAX - 1 /\ i < len
    BY <1>1
  <2>2. QED  BY <2>1, <1>6
<1>9. QED  BY <1>3, <1>7, <1>8

\* What is pasted fits, and what is typed does.
LEMMA PasteSizeIs ==
    ASSUME LineTyped
    PROVE  /\ PasteSize \in 0 .. clipboard_len /\ len + PasteSize < LINE_MAX
           /\ PasteSize = IF clipboard_len < LINE_MAX - 1 - len THEN clipboard_len
                          ELSE LINE_MAX - 1 - len
           /\ \A i \in 0 .. PasteSize - 1 : clipboard[i] \in Chars
<1>1. PasteSize \in 0 .. clipboard_len /\ len + PasteSize < LINE_MAX
      /\ PasteSize = IF clipboard_len < LINE_MAX - 1 - len THEN clipboard_len
                     ELSE LINE_MAX - 1 - len
  BY DEF LineTyped, PasteSize
<1>2. \A i \in 0 .. PasteSize - 1 : i \in 0 .. clipboard_len - 1
  BY <1>1 DEF LineTyped
<1>3. QED  BY <1>1, <1>2 DEF LineTyped, CharsWritten

LEMMA PasteInserts ==
    ASSUME LineTyped, PasteLine
    PROVE  /\ PasteSize \in Nat /\ len + PasteSize < LINE_MAX
           /\ \A i \in 0 .. PasteSize - 1 : clipboard[i] \in Chars
           /\ Insert(clipboard, PasteSize)
BY PasteSizeIs DEF PasteLine

LEMMA TypeInserts ==
    ASSUME LineTyped, TypeChar
    PROVE  LET src == [i \in {0} |-> c] IN
           /\ len + 1 < LINE_MAX /\ \A i \in 0 .. 0 : src[i] \in Chars
           /\ \A i \in 0 .. 1 - 1 : src[i] \in Chars
           /\ Insert(src, 1)
<1>1. \A i \in 0 .. 0 : i \in {0}
  OBVIOUS
<1>2. 1 - 1 = 0
  OBVIOUS
<1> HIDE DEF Insert
<1>3. QED  BY <1>1, <1>2 DEF TypeChar

\* The key that is taken is one, and the others go on waiting.
LEMMA TakeTyped ==
    ASSUME TypeOK, KeysWait, head # tail, Advance, UNCHANGED head
    PROVE  /\ c \in Keys
           /\ tail' \in 0 .. RING_SIZE - 1 /\ ring' \in [0 .. RING_SIZE - 1 -> Keys \cup {Unset}]
           /\ KeysWait'
<1>1. /\ head \in 0 .. RING_SIZE - 1 /\ tail \in 0 .. RING_SIZE - 1
      /\ ring \in [0 .. RING_SIZE - 1 -> Keys \cup {Unset}]
  BY DEF TypeOK
<1> DEFINE t1 == (tail + 1) % RING_SIZE
<1>2. ring' = [ring EXCEPT ![tail] = Unset] /\ tail' = t1 /\ head' = head
  BY DEF Advance
<1>3. /\ t1 \in 0 .. RING_SIZE - 1
      /\ Count(head, tail) = Count(head, t1) + 1
      /\ Slot(tail, 1) = tail
      /\ \A k \in 1 .. Count(head, t1) : Slot(t1, k) = Slot(tail, k + 1) /\ Slot(tail, k + 1) # tail
  BY <1>1, TakenAt
<1>4. /\ Count(head, t1) \in 0 .. RING_SIZE - 1 /\ RING_SIZE \in Nat
      /\ \A k \in 1 .. RING_SIZE : Slot(t1, k) \in 0 .. RING_SIZE - 1
  BY <1>1, <1>3, WaitingIs
<1> HIDE DEF t1
<1>5. c \in Keys
  <2>1. 1 \in 1 .. Count(head, tail)
    BY <1>3, <1>4
  <2>2. QED  BY <2>1, <1>3 DEF KeysWait, c
<1>6. ASSUME NEW k \in 1 .. Count(head, t1)  PROVE ring'[Slot(t1, k)] \in Keys
  <2>1. k + 1 \in 1 .. Count(head, tail) /\ k \in 1 .. RING_SIZE
    BY <1>3, <1>4
  <2>2. Slot(t1, k) = Slot(tail, k + 1) /\ Slot(t1, k) # tail /\ Slot(t1, k) \in 0 .. RING_SIZE - 1
    BY <2>1, <1>3, <1>4
  <2>3. ring'[Slot(t1, k)] = ring[Slot(tail, k + 1)]
    BY <2>2, <1>1, <1>2
  <2>4. QED  BY <2>1, <2>3 DEF KeysWait
<1>7. KeysWait'
  BY <1>2, <1>6 DEF KeysWait
<1>8. QED  BY <1>1, <1>2, <1>3, <1>5, <1>7

InsertingKeys == TypeChar \/ PasteLine

LEMMA EditTyped ==
    ASSUME LineTyped,
           Backspace \/ MoveLeft \/ MoveRight \/ CopyLine \/ InsertingKeys \/ Ignored \/ EnterLine
    PROVE  LineTyped'
<1>1. /\ LINE_MAX \in Nat \ {0} /\ CLIPBOARD_MAX \in Nat \ {0} /\ LINE_MAX <= CLIPBOARD_MAX
      /\ len \in 0 .. LINE_MAX - 1 /\ cursor \in 0 .. len
      /\ buf \in Buffers
      /\ clipboard_len \in 0 .. CLIPBOARD_MAX - 1
      /\ clipboard \in [0 .. CLIPBOARD_MAX - 1 -> Bytes]
      /\ \A i \in 0 .. len - 1 : buf[i] \in Chars
      /\ \A i \in 0 .. clipboard_len - 1 : clipboard[i] \in Chars
  BY DEF LineTyped, CharsWritten
<1>2. CASE Backspace
  <2>1. /\ cursor > 0 /\ cursor' = cursor - 1 /\ len' = len - 1 /\ buf' \in Buffers
        /\ \A i \in 0 .. len - 2 : buf'[i] = IF i < cursor - 1 THEN buf[i] ELSE buf[i + 1]
    BY <1>2, BackspaceGives
  <2>2. UNCHANGED <<clipboard, clipboard_len>>
    BY <1>2 DEF Backspace, clip
  <2>3. ASSUME NEW i \in 0 .. len' - 1  PROVE buf'[i] \in Chars
    <3>1. i \in 0 .. len - 2 /\ i \in 0 .. len - 1 /\ i + 1 \in 0 .. len - 1
      BY <2>1, <1>1
    <3>2. QED  BY <3>1, <2>1, <1>1
  <2>4. QED  BY <2>1, <2>2, <2>3, <1>1 DEF LineTyped, CharsWritten
<1>3. CASE MoveLeft \/ MoveRight \/ Ignored
  <2>1. /\ UNCHANGED <<buf, len, clipboard, clipboard_len>>
        /\ cursor' \in 0 .. len
    BY <1>1, <1>3 DEF MoveLeft, MoveRight, Ignored, line, clip
  <2>2. QED  BY <2>1, <1>1 DEF LineTyped, CharsWritten
<1>4. CASE CopyLine
  <2>1. UNCHANGED <<buf, len, cursor>>
    BY <1>4 DEF CopyLine
  <2>2. /\ clipboard_len' = len
        /\ clipboard' \in [0 .. CLIPBOARD_MAX - 1 -> Bytes]
        /\ \A i \in 0 .. len - 1 : clipboard'[i] = buf[i]
    BY <1>4, CopyGives
  <2>3. len \in 0 .. CLIPBOARD_MAX - 1
    BY <1>1
  <2>4. QED  BY <2>1, <2>2, <2>3, <1>1 DEF LineTyped, CharsWritten
<1>5. ASSUME NEW src, NEW n \in Nat, len + n < LINE_MAX,
             \A i \in 0 .. n - 1 : src[i] \in Chars, Insert(src, n)
      PROVE  LineTyped'
  <2>1. /\ cursor' = cursor + n /\ len' = len + n /\ buf' \in Buffers
        /\ \A i \in 0 .. len + n - 1 :
              buf'[i] = IF i < cursor THEN buf[i]
                        ELSE IF i < cursor + n THEN src[i - cursor] ELSE buf[i - n]
    BY <1>5, InsertGives
  <2>2. UNCHANGED <<clipboard, clipboard_len>>
    BY <1>5 DEF Insert, clip
  <2>3. ASSUME NEW i \in 0 .. len' - 1  PROVE buf'[i] \in Chars
    <3>1. i \in 0 .. len + n - 1
      BY <2>1, <1>1
    <3>2. CASE i < cursor
      BY <3>1, <3>2, <2>1, <1>1
    <3>3. CASE cursor <= i /\ i < cursor + n
      <4>1. i - cursor \in 0 .. n - 1
        BY <3>1, <3>3, <1>1
      <4>2. QED  BY <4>1, <3>1, <3>3, <2>1, <1>1, <1>5
    <3>4. CASE cursor + n <= i
      <4>1. i - n \in 0 .. len - 1
        BY <3>1, <3>4, <1>1
      <4>2. QED  BY <4>1, <3>1, <3>4, <2>1, <1>1
    <3>5. QED  BY <3>1, <3>2, <3>3, <3>4, <1>1
  <2>4. QED  BY <2>1, <2>2, <2>3, <1>1, <1>5 DEF LineTyped, CharsWritten
<1>6. CASE TypeChar
  <2> DEFINE src == [i \in {0} |-> c]
  <2>1. /\ len + 1 < LINE_MAX /\ \A i \in 0 .. 1 - 1 : src[i] \in Chars
        /\ Insert(src, 1)
    BY <1>6, TypeInserts, Zenon
  <2> HIDE DEF src
  <2>2. QED  BY <2>1, <1>5
<1>7. CASE PasteLine
  BY <1>7, <1>5, PasteInserts
<1>8. CASE EnterLine
  <2>1. /\ buf' = [i \in DOMAIN buf |-> Unset] /\ len' = 0 /\ cursor' = 0
        /\ UNCHANGED <<clipboard, clipboard_len>>
    BY <1>8 DEF EnterLine, clip
  <2>2. QED  BY <2>1, <1>1 DEF LineTyped, CharsWritten, Buffers, Bytes
<1>9. QED  BY <1>2, <1>3, <1>4, <1>6, <1>7, <1>8 DEF InsertingKeys

LEMMA NextTyped == TypeInv /\ [Next]_vars => TypeInv'
<1> SUFFICES ASSUME TypeInv, [Next]_vars  PROVE TypeInv'
  OBVIOUS
<1>1. TypeOK /\ KeysWait /\ CharsWritten /\ LineTyped
  BY LineIsTyped DEF TypeInv
<1>2. head \in 0 .. RING_SIZE - 1 /\ tail \in 0 .. RING_SIZE - 1
      /\ ring \in [0 .. RING_SIZE - 1 -> Keys \cup {Unset}]
  BY <1>1 DEF TypeOK
<1>3. ASSUME LineTyped', head' \in 0 .. RING_SIZE - 1, tail' \in 0 .. RING_SIZE - 1,
             ring' \in [0 .. RING_SIZE - 1 -> Keys \cup {Unset}], KeysWait'
      PROVE  TypeInv'
  BY <1>3 DEF TypeInv, TypeOK, LineTyped, Buffers, Bytes
<1>4. ASSUME UNCHANGED line  PROVE LineTyped'
  <2>1. UNCHANGED <<buf, len, cursor, clipboard, clipboard_len>>
    BY <1>4 DEF line, clip
  <2>2. QED  BY <2>1, <1>1 DEF LineTyped, CharsWritten
<1>5. CASE UNCHANGED vars
  <2>1. UNCHANGED <<ring, head, tail, line>>
    BY <1>5 DEF vars
  <2>2. KeysWait'
    BY <2>1, <1>1 DEF KeysWait
  <2>3. QED  BY <2>1, <2>2, <1>2, <1>3, <1>4
<1>6. ASSUME NEW code \in Codes, TopHalf(code)  PROVE TypeInv'
  <2>1. UNCHANGED <<tail, line>> /\ (Nothing \/ \E key \in Keys : KbPush(key))
    BY <1>6, TopHalfPushes
  <2>2. CASE Nothing
    <3>1. UNCHANGED <<ring, head, tail>>
      BY <2>1, <2>2 DEF Nothing
    <3>2. KeysWait'
      BY <3>1, <1>1 DEF KeysWait
    <3>3. QED  BY <3>1, <3>2, <2>1, <1>2, <1>3, <1>4
  <2>3. ASSUME NEW key \in Keys, KbPush(key)  PROVE TypeInv'
    <3>1. head' \in 0 .. RING_SIZE - 1 /\ ring' \in [0 .. RING_SIZE - 1 -> Keys \cup {Unset}]
          /\ KeysWait'
      BY <2>1, <2>3, <1>1, PushTyped
    <3>2. QED  BY <3>1, <2>1, <1>2, <1>3, <1>4
  <2>4. QED  BY <2>1, <2>2, <2>3
<1>7. CASE Take
  <2>1. /\ tail' \in 0 .. RING_SIZE - 1 /\ ring' \in [0 .. RING_SIZE - 1 -> Keys \cup {Unset}]
        /\ KeysWait' /\ head' = head
    BY <1>1, <1>7, TakeTyped DEF Take
  <2>2. LineTyped'
    BY <1>1, <1>7, EditTyped DEF Take, InsertingKeys
  <2>3. QED  BY <2>1, <2>2, <1>2, <1>3
<1>8. QED  BY <1>5, <1>6, <1>7 DEF Next

LEMMA Typed == Spec => []TypeInv
BY InitTyped, NextTyped, PTL DEF Spec

(***************************************************************************)
(* The screen: the line begins at Start, and as long as it has not         *)
(* scrolled it ends before the text does.                                  *)
(***************************************************************************)
Start == Cell(row0) + col0

ScreenTyped ==
    /\ vga \in Screens
    /\ row0 \in 0 .. VGA_TEXT_ROWS - 1 /\ col0 \in 0 .. VGA_COLS - 1

Shown ==
    /\ Start + len < Cell(VGA_TEXT_ROWS)
    /\ \A i \in TextCells : i >= Start =>
          vga.mem[i] = IF i < Start + len THEN buf[i - Start] ELSE Blank
    /\ Place(vga) = Start + cursor

ScreenInv == ScreenTyped /\ StatusRowIsKept /\ (vga.disturbed \/ Shown)

LEMMA StartIs ==
    ASSUME ScreenTyped
    PROVE  Start \in Nat
<1>1. row0 \in Nat /\ col0 \in Nat
  BY CellsAre DEF ScreenTyped
<1>2. Cell(row0) \in Nat
  BY <1>1, CellsOfRow
<1>3. QED  BY <1>1, <1>2 DEF Start

\* A cell, from its row and its column.
LEMMA RowAndColumn ==
    ASSUME NEW m \in Nat
    PROVE  /\ m \div VGA_COLS \in Nat /\ m % VGA_COLS \in 0 .. VGA_COLS - 1
           /\ Cell(m \div VGA_COLS) + (m % VGA_COLS) = m
           /\ m < Cell(VGA_TEXT_ROWS) => m \div VGA_COLS < VGA_TEXT_ROWS
<1>1. VGA_COLS \in Nat \ {0} /\ VGA_TEXT_ROWS \in Nat
  BY CellsAre
<1> DEFINE q == m \div VGA_COLS
           r == m % VGA_COLS
<1>2. q \in Nat /\ r \in 0 .. VGA_COLS - 1 /\ (q * VGA_COLS) + r = m
  BY <1>1, SMT
<1> HIDE DEF q, r
<1>3. m < Cell(VGA_TEXT_ROWS) => q < VGA_TEXT_ROWS
  <2>1. SUFFICES ASSUME q >= VGA_TEXT_ROWS  PROVE ~ (m < Cell(VGA_TEXT_ROWS))
    BY <1>1, <1>2
  <2>2. VGA_TEXT_ROWS * VGA_COLS <= q * VGA_COLS /\ VGA_TEXT_ROWS * VGA_COLS \in Nat
        /\ q * VGA_COLS \in Nat
    BY <1>1, <1>2, <2>1, Products
  <2>3. QED  BY <2>2, <1>1, <1>2 DEF Cell
<1>4. QED  BY <1>2, <1>3 DEF Cell, q, r

\* set_cursor_at_index is right as long as the index is on the screen.
LEMMA CursorPlace ==
    ASSUME ScreenTyped, NEW s \in Screens, NEW idx \in Nat
    PROVE  /\ CursorAt(s, idx) \in Screens
           /\ CursorAt(s, idx).mem = s.mem /\ CursorAt(s, idx).disturbed = s.disturbed
           /\ Start + idx < Cell(VGA_TEXT_ROWS) => Place(CursorAt(s, idx)) = Start + idx
<1> DEFINE m == Start + idx
           row == m \div VGA_COLS
           col == m % VGA_COLS
<1>1. m \in Nat
  BY StartIs
<1>2. CursorAt(s, idx) = SetCursor(s, row, col)
  BY Zenon DEF CursorAt, Start, Cell
<1> HIDE DEF m
<1>3. /\ row \in Nat /\ col \in 0 .. VGA_COLS - 1 /\ Cell(row) + col = m
      /\ m < Cell(VGA_TEXT_ROWS) => row < VGA_TEXT_ROWS
      /\ VGA_TEXT_ROWS \in Nat \ {0} /\ VGA_COLS \in Nat \ {0}
  BY <1>1, RowAndColumn, CellsAre
<1> HIDE DEF row, col
<1> DEFINE row1 == IF row >= VGA_TEXT_ROWS THEN VGA_TEXT_ROWS - 1 ELSE row
<1>4. ~ (col >= VGA_COLS)
  BY <1>3
<1>5. SetCursor(s, row, col) = [s EXCEPT !.row = row1, !.col = col]
  BY <1>4, Zenon DEF SetCursor
<1>6. row1 \in 0 .. VGA_TEXT_ROWS - 1 /\ (m < Cell(VGA_TEXT_ROWS) => row1 = row)
  BY <1>3
<1> HIDE DEF row1
<1>7. /\ CursorAt(s, idx) \in Screens
      /\ CursorAt(s, idx).mem = s.mem /\ CursorAt(s, idx).disturbed = s.disturbed
      /\ CursorAt(s, idx).row = row1 /\ CursorAt(s, idx).col = col
  BY <1>2, <1>3, <1>5, <1>6 DEF Screens
<1>8. m < Cell(VGA_TEXT_ROWS) => Place(CursorAt(s, idx)) = m
  BY <1>3, <1>6, <1>7 DEF Place
<1>9. QED  BY <1>7, <1>8 DEF m

\* The bytes from lo on, up to hi, are of the set S.
BytesOf(S, mem, lo, hi) == \A i \in lo .. hi - 1 : mem[i] \in S

\* s has the same bytes.
SameBytes(s, mem, lo, hi) == \A k \in 1 .. hi - lo : s[k] = mem[lo + k - 1]

LEMMA SequenceIs ==
    ASSUME NEW S, NEW mem, NEW lo \in Nat, NEW hi \in Nat, lo <= hi, BytesOf(S, mem, lo, hi),
           NEW s, s = Sequence(mem, lo, hi)
    PROVE  s \in Seq(S) /\ Len(s) = hi - lo /\ SameBytes(s, mem, lo, hi)
<1>1. hi - lo \in Nat /\ \A k \in 1 .. hi - lo : lo + k - 1 \in lo .. hi - 1
  OBVIOUS
<1>2. s = [k \in 1 .. hi - lo |-> mem[lo + k - 1]]
  BY DEF Sequence
<1>3. s \in [1 .. hi - lo -> S]
  BY <1>1, <1>2 DEF BytesOf
<1>4. s \in Seq(S)
  BY <1>1, <1>3, SeqDef
<1>5. QED  BY <1>1, <1>2, <1>3, <1>4, LenProperties DEF SameBytes

\* redraw_from: behind the line are the characters of `behind`, here at most a
\* blank, and the cursor goes where it belongs.
Redrawn(s, b, n, from, behind, end) ==
    CursorAt(Puts(CursorAt(s, from), Sequence(b, from, n) \o behind), end)

\* s with the bytes of b up to n put down from the place of `from`, and extra blanks.
ShownFrom(s, r, b, n, from, extra, end) ==
    /\ r \in Screens
    /\ \A i \in StatusCells : r.mem[i] = s.mem[i]
    /\ s.disturbed => r.disturbed
    /\ ~ r.disturbed /\ Start + from < Cell(VGA_TEXT_ROWS) =>
          /\ Start + n + extra < Cell(VGA_TEXT_ROWS)
          /\ Place(r) = Start + end
          /\ \A i \in TextCells :
                r.mem[i] = IF Start + from <= i /\ i < Start + n THEN b[i - Start]
                           ELSE IF Start + n <= i /\ i < Start + n + extra
                                THEN Blank ELSE s.mem[i]

LEMMA LineText ==
    ASSUME NEW S, NEW b, NEW n \in Nat, NEW from \in 0 .. n, BytesOf(S, b, 0, n)
    PROVE  /\ Sequence(b, from, n) \in Seq(S) /\ Len(Sequence(b, from, n)) = n - from
           /\ SameBytes(Sequence(b, from, n), b, from, n)
<1>1. from \in Nat /\ from <= n
  OBVIOUS
<1>2. BytesOf(S, b, from, n)
  BY <1>1 DEF BytesOf
<1>3. QED  BY <1>1, <1>2, SequenceIs

\* s, then a blank or nothing.
BlankAfter(t, s, extra) ==
    /\ Len(t) = Len(s) + extra /\ extra \in 0 .. 1
    /\ \A k \in 1 .. Len(s) + extra : t[k] = IF k <= Len(s) THEN s[k] ELSE Blank

LEMMA TextAndBlank ==
    ASSUME NEW S, Blank \in S, NEW s \in Seq(S), NEW behind \in {<<>>, <<Blank>>}
    PROVE  s \o behind \in Seq(S) /\ BlankAfter(s \o behind, s, Len(behind))
<1>1. CASE behind = <<>>
  <2>1. s \o <<>> = s /\ Len(<<>>) = 0 /\ Len(s) \in Nat
    BY ConcatEmptySeq, EmptySeq, LenProperties
  <2>2. BlankAfter(s, s, 0)
    BY <2>1 DEF BlankAfter
  <2>3. QED  BY <1>1, <2>1, <2>2
<1>2. CASE behind = <<Blank>>
  <2>1. s \o <<Blank>> = Append(s, Blank) /\ Len(<<Blank>>) = 1 /\ Len(s) \in Nat
    BY AppendIsConcat, LenProperties
  <2>2. /\ Append(s, Blank) \in Seq(S) /\ Len(Append(s, Blank)) = Len(s) + 1
        /\ \A k \in 1 .. Len(s) : Append(s, Blank)[k] = s[k]
        /\ Append(s, Blank)[Len(s) + 1] = Blank
    BY AppendProperties
  <2>3. BlankAfter(Append(s, Blank), s, 1)
    <3>1. \A k \in 1 .. Len(s) + 1 : k \in 1 .. Len(s) \/ (k = Len(s) + 1 /\ ~ (k <= Len(s)))
      BY <2>1
    <3>2. QED  BY <2>1, <2>2, <3>1 DEF BlankAfter
  <2>4. QED  BY <1>2, <2>1, <2>2, <2>3
<1>3. QED  BY <1>1, <1>2

\* What redraw_from prints, and a blank behind it or none.
TextOf(S, text, b, from, n, extra) ==
    /\ text \in Seq(S) /\ Len(text) = n - from + extra /\ extra \in 0 .. 1
    /\ \A k \in 1 .. n - from + extra :
          text[k] = IF k <= n - from THEN b[from + k - 1] ELSE Blank

LEMMA RedrawnText ==
    ASSUME NEW S, NEW b, NEW n \in Nat, NEW from \in 0 .. n, BytesOf(S, b, 0, n), Blank \in S,
           NEW behind \in {<<>>, <<Blank>>}
    PROVE  TextOf(S, Sequence(b, from, n) \o behind, b, from, n, Len(behind))
<1>1. /\ Sequence(b, from, n) \in Seq(S) /\ Len(Sequence(b, from, n)) = n - from
      /\ SameBytes(Sequence(b, from, n), b, from, n)
  BY LineText, Zenon
<1>2. PICK s : s = Sequence(b, from, n)
  OBVIOUS
<1>3. s \in Seq(S) /\ Len(s) = n - from /\ SameBytes(s, b, from, n)
  BY <1>1, <1>2, Zenon
<1>4. PICK t : t = s \o behind
  OBVIOUS
<1>5. PICK m : m = Len(behind)
  OBVIOUS
<1>6. t \in Seq(S) /\ BlankAfter(t, s, m)
  BY <1>3, <1>4, <1>5, TextAndBlank
<1>7. /\ Len(t) = n - from + m /\ m \in 0 .. 1
      /\ \A k \in 1 .. n - from + m : t[k] = IF k <= n - from THEN s[k] ELSE Blank
  BY <1>3, <1>6, Zenon DEF BlankAfter
<1>8. ASSUME NEW k \in 1 .. n - from + m, k <= n - from  PROVE s[k] = b[from + k - 1]
  <2>1. k \in 1 .. n - from
    BY <1>7, <1>8
  <2>2. QED  BY <2>1, <1>3, Zenon DEF SameBytes
<1>9. TextOf(S, t, b, from, n, m)
  BY <1>6, <1>7, <1>8, Zenon DEF TextOf
<1>10. QED  BY <1>2, <1>4, <1>5, <1>9, Zenon

LEMMA RedrawShows ==
    ASSUME ScreenTyped, NEW s \in Screens, NEW b, NEW n \in Nat, NEW from \in 0 .. n,
           NEW end \in 0 .. n, BytesOf(Chars, b, 0, n),
           NEW behind \in {<<>>, <<Blank>>}, NEW r, r = Redrawn(s, b, n, from, behind, end)
    PROVE  ShownFrom(s, r, b, n, from, Len(behind), end)
<1> DEFINE plain == Values \ {NewLine}
           shown == Sequence(b, from, n)
           text == shown \o behind
           s0 == CursorAt(s, from)
           s1 == Puts(s0, text)
<1>1. s \in Screens /\ from \in Nat /\ end \in Nat /\ from <= n /\ end <= n /\ Start \in Nat
      /\ Cell(VGA_TEXT_ROWS) \in Nat
  BY StartIs, CellsAre DEF ScreenTyped
<1>2. /\ text \in Seq(plain) /\ Len(text) = n - from + Len(behind) /\ Len(behind) \in 0 .. 1
      /\ \A k \in 1 .. n - from + Len(behind) :
            text[k] = IF k <= n - from THEN b[from + k - 1] ELSE Blank
  <2>1. BytesOf(plain, b, 0, n) /\ Blank \in plain
    BY KeysAreDistinct DEF Values, BytesOf
  <2> HIDE DEF plain
  <2>2. TextOf(plain, text, b, from, n, Len(behind))
    BY <2>1, RedrawnText, Zenon
  <2>3. QED  BY <2>2, Zenon DEF TextOf
<1>3. text \in Seq(Values) /\ \A k \in 1 .. Len(text) : text[k] # NewLine
  <2> HIDE DEF text
  <2>1. plain \subseteq Values
    OBVIOUS
  <2>2. text \in Seq(Values)
    BY <1>2, <2>1, SeqMonotonic
  <2>3. QED  BY <1>2, <2>2, ElementOfSeq
<1> HIDE DEF text, shown, plain
<1>4. /\ s0 \in Screens /\ s0.mem = s.mem /\ s0.disturbed = s.disturbed
      /\ Start + from < Cell(VGA_TEXT_ROWS) => Place(s0) = Start + from
  BY <1>1, CursorPlace
<1> HIDE DEF s0
<1>5. Kept(s0, s1) /\ (~ s1.disturbed => PutDown(s0, s1, text, Len(text)))
  BY <1>3, <1>4, PutsKeeps, Zenon
<1> HIDE DEF s1
<1>6. r = CursorAt(s1, end)
  BY Zenon DEF Redrawn, text, shown, s0, s1
<1>7. /\ s1 \in Screens
      /\ CursorAt(s1, end) \in Screens
      /\ CursorAt(s1, end).mem = s1.mem /\ CursorAt(s1, end).disturbed = s1.disturbed
      /\ Start + end < Cell(VGA_TEXT_ROWS) => Place(CursorAt(s1, end)) = Start + end
  BY <1>1, <1>5, CursorPlace DEF Kept
<1>8. ASSUME ~ s1.disturbed, Start + from < Cell(VGA_TEXT_ROWS)
      PROVE  /\ Start + n + Len(behind) < Cell(VGA_TEXT_ROWS)
             /\ \A i \in TextCells :
                   s1.mem[i] = IF Start + from <= i /\ i < Start + n THEN b[i - Start]
                               ELSE IF Start + n <= i /\ i < Start + n + Len(behind)
                                    THEN Blank ELSE s.mem[i]
  <2>1. PutDown(s0, s1, text, Len(text)) /\ Place(s0) = Start + from
    BY <1>4, <1>5, <1>8
  <2>2. Place(s1) = Start + from + (n - from + Len(behind))
    BY <2>1, <1>2 DEF PutDown
  <2>3. Place(s1) \in TextCells
    BY <1>7, PlaceInText
  <2>4. Start + n + Len(behind) < Cell(VGA_TEXT_ROWS)
    BY <2>2, <2>3, <1>1, <1>2, CellsAre
  <2>5. ASSUME NEW i \in TextCells
        PROVE  s1.mem[i] = IF Start + from <= i /\ i < Start + n THEN b[i - Start]
                           ELSE IF Start + n <= i /\ i < Start + n + Len(behind)
                                THEN Blank ELSE s.mem[i]
    <3>1. i \in Nat /\ i \in Cells
      BY CellsAre DEF Cells
    <3>2. s1.mem[i] = IF Start + from <= i /\ i < Start + from + (n - from + Len(behind))
                      THEN text[i - (Start + from) + 1] ELSE s.mem[i]
      BY <3>1, <2>1, <1>2, <1>4 DEF PutDown
    <3>3. CASE Start + from <= i /\ i < Start + n
      <4>1. /\ i - (Start + from) + 1 \in 1 .. n - from + Len(behind)
            /\ i - (Start + from) + 1 <= n - from
            /\ from + (i - (Start + from) + 1) - 1 = i - Start
            /\ i < Start + from + (n - from + Len(behind))
        BY <3>1, <3>3, <1>1, <1>2
      <4>2. text[i - (Start + from) + 1] = b[i - Start]
        BY <4>1, <1>2
      <4>3. QED  BY <4>1, <4>2, <3>2, <3>3
    <3>4. CASE Start + n <= i /\ i < Start + n + Len(behind)
      <4>1. /\ i - (Start + from) + 1 \in 1 .. n - from + Len(behind)
            /\ ~ (i - (Start + from) + 1 <= n - from)
            /\ Start + from <= i /\ ~ (i < Start + n)
            /\ i < Start + from + (n - from + Len(behind))
        BY <3>1, <3>4, <1>1, <1>2
      <4>2. text[i - (Start + from) + 1] = Blank
        BY <4>1, <1>2
      <4>3. QED  BY <4>1, <4>2, <3>2, <3>4
    <3>5. CASE ~ (Start + from <= i) \/ ~ (i < Start + n + Len(behind))
      <4>1. /\ ~ (Start + from <= i /\ i < Start + from + (n - from + Len(behind)))
            /\ ~ (Start + from <= i /\ i < Start + n)
            /\ ~ (Start + n <= i /\ i < Start + n + Len(behind))
        BY <3>1, <3>5, <1>1, <1>2
      <4>2. QED  BY <4>1, <3>2, Zenon
    <3>6. QED  BY <3>1, <3>3, <3>4, <3>5, <1>1, <1>2
  <2>6. QED  BY <2>4, <2>5
<1>9. Start + end < Cell(VGA_TEXT_ROWS) \/ ~ (Start + n + Len(behind) < Cell(VGA_TEXT_ROWS))
  BY <1>1, <1>2
<1>10. /\ \A i \in StatusCells : s1.mem[i] = s.mem[i]
       /\ s.disturbed => s1.disturbed
  BY <1>4, <1>5 DEF Kept
<1>11. r.mem = s1.mem /\ r.disturbed = s1.disturbed /\ r \in Screens
       /\ (Start + end < Cell(VGA_TEXT_ROWS) => Place(r) = Start + end)
  BY <1>6, <1>7, Zenon
<1>12. QED  BY <1>8, <1>9, <1>10, <1>11, Zenon DEF ShownFrom

\* A screen with another history: the flag says nothing of the cells.
LEMMA Reflagged ==
    ASSUME NEW s \in Screens, NEW flag \in BOOLEAN,
           NEW r, r = [s EXCEPT !.disturbed = flag]
    PROVE  /\ r \in Screens /\ r.disturbed = flag
           /\ r.mem = s.mem /\ r.row = s.row /\ r.col = s.col /\ Place(r) = Place(s)
           /\ BlankBehind(s) => BlankBehind(r)
<1>1. /\ r \in Screens /\ r.disturbed = flag
      /\ r.mem = s.mem /\ r.row = s.row /\ r.col = s.col
  BY DEF Screens
<1>2. Place(r) = Place(s)
  BY <1>1 DEF Place
<1>3. QED  BY <1>1, <1>2 DEF BlankBehind

LEMMA Printable ==
    /\ Prompt \in Seq(Values)
    /\ \A out \in Outputs : out \in Seq(Values)
<1>1. Chars \cup {Other, Blank, NewLine} \subseteq Values
  BY DEF Values
<1>2. ASSUME NEW t \in {Prompt} \cup Outputs  PROVE t \in Seq(Values)
  <2>1. t \in Seq(Chars \cup {Other, Blank, NewLine})
    BY TextsArePrinted
  <2>2. QED  BY <1>1, <2>1, SeqMonotonic
<1>3. QED  BY <1>2

\* A line begins where the prompt ends.
LEMMA PromptedShows ==
    ASSUME NEW s \in Screens, NEW screen, NEW row, NEW col, Prompted(s, screen, row, col)
    PROVE  /\ screen \in Screens /\ screen.disturbed = s.disturbed
           /\ \A i \in StatusCells : screen.mem[i] = s.mem[i]
           /\ row = screen.row /\ col = screen.col
           /\ BlankBehind(s) => BlankBehind(screen)
<1> DEFINE p == Puts(s, Prompt)
<1>1. Kept(s, p)
  BY Printable, PutsKeeps, Zenon
<1> HIDE DEF p
<1>2. screen = [p EXCEPT !.disturbed = s.disturbed] /\ row = p.row /\ col = p.col
  BY Zenon DEF Prompted, p
<1>3. p \in Screens /\ s.disturbed \in BOOLEAN
  BY <1>1 DEF Kept, Screens
<1>4. /\ screen \in Screens /\ screen.disturbed = s.disturbed
      /\ screen.mem = p.mem /\ screen.row = p.row /\ screen.col = p.col
      /\ BlankBehind(p) => BlankBehind(screen)
  BY <1>2, <1>3, Reflagged
<1>5. QED  BY <1>1, <1>2, <1>4, Zenon DEF Kept

LEMMA StatusLineKeeps ==
    ASSUME NEW s \in Screens, NEW text \in {Bar, Copied}
    PROVE  /\ StatusLine(s, text) \in Screens
           /\ StatusLine(s, text).disturbed = s.disturbed
           /\ \A i \in TextCells : StatusLine(s, text).mem[i] = s.mem[i]
           /\ \A i \in StatusCells : StatusLine(s, text).mem[i] = text
           /\ Place(StatusLine(s, text)) = Place(s)
<1> DEFINE mem == [i \in DOMAIN s.mem |-> IF i \in StatusCells THEN text ELSE s.mem[i]]
<1>1. s.mem \in [Cells -> Values] /\ text \in Values
  BY DEF Screens, Values
<1>2. mem \in [Cells -> Values]
  BY <1>1
<1>3. /\ \A i \in TextCells : mem[i] = s.mem[i]
      /\ \A i \in StatusCells : mem[i] = text
  <2>1. DOMAIN s.mem = Cells
    BY <1>1
  <2>2. \A i \in TextCells : i \in Cells /\ i \notin StatusCells
    BY CellsAre
  <2>3. \A i \in StatusCells : i \in Cells
    BY DEF Cells
  <2>4. QED  BY <2>1, <2>2, <2>3
<1>4. StatusLine(s, text) = [s EXCEPT !.mem = mem]
  BY Zenon DEF StatusLine
<1> HIDE DEF mem
<1>5. /\ StatusLine(s, text) \in Screens /\ StatusLine(s, text).mem = mem
      /\ StatusLine(s, text).disturbed = s.disturbed
      /\ StatusLine(s, text).row = s.row /\ StatusLine(s, text).col = s.col
  BY <1>2, <1>4 DEF Screens
<1>6. QED  BY <1>3, <1>5 DEF Place

LEMMA ClearKeeps ==
    ASSUME NEW s \in Screens
    PROVE  /\ Clear(s) \in Screens /\ ~ Clear(s).disturbed
           /\ \A i \in StatusCells : Clear(s).mem[i] = s.mem[i]
           /\ BlankBehind(Clear(s))
<1> DEFINE mem == [i \in DOMAIN s.mem |-> IF i \in TextCells THEN Blank ELSE s.mem[i]]
<1>1. s.mem \in [Cells -> Values] /\ Blank \in Values
  BY DEF Screens, Values
<1>2. mem \in [Cells -> Values]
  BY <1>1
<1>3. /\ \A i \in StatusCells : mem[i] = s.mem[i]
      /\ \A i \in TextCells : mem[i] = Blank
  BY <1>1, CellsAre DEF Cells
<1>4. Clear(s) = [s EXCEPT !.mem = mem, !.row = 0, !.col = 0, !.disturbed = FALSE]
  BY Zenon DEF Clear
<1> HIDE DEF mem
<1>5. Clear(s) \in Screens /\ Clear(s).mem = mem /\ Clear(s).disturbed = FALSE
  <2>1. 0 \in 0 .. VGA_TEXT_ROWS - 1 /\ 0 \in 0 .. VGA_COLS - 1
    BY CellsAre
  <2>2. Clear(s) = [mem |-> mem, row |-> 0, col |-> 0, disturbed |-> FALSE]
    BY <1>4 DEF Screens
  <2>3. QED  BY <1>2, <2>1, <2>2 DEF Screens
<1>6. QED  BY <1>3, <1>5 DEF BlankBehind

\* The screen where a line begins.
Fresh ==
    /\ ScreenTyped /\ BlankBehind(vga) /\ Place(vga) = Start
    /\ len = 0 /\ cursor = 0

LEMMA FreshShown == Fresh => Shown
<1> SUFFICES ASSUME Fresh  PROVE Shown
  OBVIOUS
<1>1. Place(vga) \in TextCells
  BY PlaceInText DEF Fresh, ScreenTyped
<1>2. Start \in Nat /\ Start < Cell(VGA_TEXT_ROWS) /\ Start + 0 = Start
  BY <1>1, StartIs, CellsAre DEF Fresh
<1>3. \A i \in TextCells : i >= Start => vga.mem[i] = Blank /\ ~ (i < Start + 0)
  BY <1>2, CellsAre DEF Fresh, BlankBehind
<1>4. QED  BY <1>2, <1>3 DEF Fresh, Shown

LEMMA InitScreen == Init => ScreenInv
<1> SUFFICES ASSUME Init  PROVE ScreenInv
  OBVIOUS
<1> DEFINE s == [mem |-> [i \in TextCells \cup StatusCells |-> Blank], row |-> 0, col |-> 0,
                 disturbed |-> FALSE]
<1>1. s \in Screens /\ BlankBehind(s)
  <2>1. Blank \in Values /\ 0 \in 0 .. VGA_TEXT_ROWS - 1 /\ 0 \in 0 .. VGA_COLS - 1
    BY CellsAre DEF Values
  <2>2. s \in Screens
    BY <2>1 DEF Screens, Cells
  <2>3. QED  BY <2>2 DEF BlankBehind
<1>2. BootScreen = StatusLine(s, Bar)
  BY Zenon DEF BootScreen, StatusBar
<1> HIDE DEF s
<1>3. /\ BootScreen \in Screens
      /\ \A i \in StatusCells : BootScreen.mem[i] = Bar
      /\ BlankBehind(BootScreen)
  BY <1>1, <1>2, StatusLineKeeps DEF BlankBehind
<1>4. Prompted(BootScreen, vga, row0, col0) /\ len = 0 /\ cursor = 0
  BY DEF Init
<1>5. /\ vga \in Screens /\ row0 = vga.row /\ col0 = vga.col
      /\ \A i \in StatusCells : vga.mem[i] = Bar
      /\ BlankBehind(vga)
  BY <1>3, <1>4, PromptedShows
<1>6. ScreenTyped /\ Place(vga) = Start
  BY <1>5, PlaceInText DEF ScreenTyped, Place, Start
<1>7. Shown
  BY <1>4, <1>5, <1>6, FreshShown DEF Fresh
<1>8. QED  BY <1>5, <1>6, <1>7 DEF ScreenInv, StatusRowIsKept

LEMMA EnterScreen ==
    ASSUME LineTyped, ScreenInv, EnterLine
    PROVE  ScreenInv'
<1> DEFINE s0 == CursorAt(vga, len)
           below == Putc(s0, NewLine)
<1>1. /\ ScreenTyped /\ vga \in Screens /\ vga.disturbed \in BOOLEAN
      /\ \A i \in StatusCells : vga.mem[i] \in {Bar, Copied}
      /\ len \in Nat /\ Start \in Nat
  BY StartIs DEF ScreenInv, ScreenTyped, StatusRowIsKept, LineTyped, Screens
<1>2. /\ s0 \in Screens /\ s0.mem = vga.mem /\ s0.disturbed = vga.disturbed
      /\ Start + len < Cell(VGA_TEXT_ROWS) => Place(s0) = Start + len
  BY <1>1, CursorPlace
<1> HIDE DEF s0
<1>3. Kept(s0, below)
  <2>1. NewLine \in Values
    BY DEF Values
  <2>2. QED  BY <1>2, <2>1, PutcKeeps, Zenon
<1> HIDE DEF below
<1>4. /\ below \in Screens
      /\ \A i \in StatusCells : below.mem[i] = vga.mem[i]
  BY <1>2, <1>3 DEF Kept
<1>5. ASSUME Shown  PROVE BlankBehind(below)
  <2>1. ASSUME NEW i \in TextCells, i >= Start + len  PROVE vga.mem[i] = Blank
    <3>1. i >= Start /\ ~ (i < Start + len)
      BY <1>1, <2>1, CellsAre
    <3>2. QED  BY <3>1, <1>5 DEF Shown
  <2>2. BlankBehind(s0)
    BY <2>1, <1>2, <1>5 DEF BlankBehind, Shown
  <2>3. QED  BY <2>2, <1>3 DEF Kept
<1>6. ASSUME NEW t \in Screens, Prompted(t, vga', row0', col0'),
             \A i \in StatusCells : t.mem[i] = vga.mem[i],
             t.disturbed \/ BlankBehind(t)
      PROVE  ScreenInv'
  <2>1. /\ vga' \in Screens /\ vga'.disturbed = t.disturbed
        /\ \A i \in StatusCells : vga'.mem[i] = t.mem[i]
        /\ row0' = vga'.row /\ col0' = vga'.col
        /\ BlankBehind(t) => BlankBehind(vga')
    BY <1>6, PromptedShows
  <2>2. row0' \in 0 .. VGA_TEXT_ROWS - 1 /\ col0' \in 0 .. VGA_COLS - 1
    BY <2>1, PlaceInText
  <2>3. ScreenTyped' /\ StatusRowIsKept' /\ Place(vga)' = Start'
    BY <2>1, <2>2, <1>1, <1>6 DEF ScreenTyped, StatusRowIsKept, Place, Start
  <2>4. ASSUME ~ vga'.disturbed  PROVE Shown'
    <3>1. BlankBehind(vga)'
      BY <2>1, <2>4, <1>6 DEF BlankBehind, Place
    <3>2. len' = 0 /\ cursor' = 0
      BY DEF EnterLine
    <3>3. Fresh'
      BY <3>1, <3>2, <2>3 DEF Fresh
    <3>4. QED  BY <3>3, FreshShown, PTL
  <2>5. QED  BY <2>3, <2>4 DEF ScreenInv
<1>7. ASSUME NEW out \in Outputs,
             Prompted([Puts(below, out) EXCEPT !.disturbed = vga.disturbed], vga', row0', col0')
      PROVE  ScreenInv'
  <2> DEFINE t1 == Puts(below, out)
             t == [t1 EXCEPT !.disturbed = vga.disturbed]
  <2>1. Kept(below, t1)
    BY <1>4, Printable, PutsKeeps, Zenon
  <2>2. Prompted(t, vga', row0', col0')
    BY <1>7
  <2> HIDE DEF t1
  <2>3. t1 \in Screens
    BY <2>1 DEF Kept
  <2>4. /\ t \in Screens /\ t.disturbed = vga.disturbed /\ t.mem = t1.mem
        /\ BlankBehind(t1) => BlankBehind(t)
    BY <1>1, <2>3, Reflagged
  <2> HIDE DEF t
  <2>5. \A i \in StatusCells : t.mem[i] = vga.mem[i]
    BY <1>4, <2>1, <2>4 DEF Kept
  <2>6. t.disturbed \/ BlankBehind(t)
    BY <1>5, <2>1, <2>4 DEF ScreenInv, Kept
  <2>7. QED  BY <1>6, <2>2, <2>4, <2>5, <2>6
<1>8. ASSUME Prompted(Clear(below), vga', row0', col0')  PROVE ScreenInv'
  <2>1. /\ Clear(below) \in Screens /\ BlankBehind(Clear(below))
        /\ \A i \in StatusCells : Clear(below).mem[i] = below.mem[i]
    BY <1>4, ClearKeeps
  <2>2. QED  BY <1>4, <1>6, <1>8, <2>1
<1>9. QED  BY <1>7, <1>8 DEF EnterLine, below, s0

\* The cursor moves, or the status row changes: the line is shown as it was.
LEMMA CursorScreen ==
    ASSUME LineTyped, ScreenInv, LineTyped', UNCHANGED <<buf, len, row0, col0>>,
           NEW s \in Screens, s.disturbed = vga.disturbed,
           \A i \in TextCells : s.mem[i] = vga.mem[i],
           \A i \in StatusCells : s.mem[i] \in {Bar, Copied},
           vga' = CursorAt(s, cursor')
    PROVE  ScreenInv'
<1>1. ScreenTyped /\ cursor' \in 0 .. len /\ cursor' \in Nat /\ len \in Nat /\ Start \in Nat
  BY StartIs DEF ScreenInv, LineTyped
<1>2. /\ vga' \in Screens /\ vga'.mem = s.mem /\ vga'.disturbed = s.disturbed
      /\ Start + cursor' < Cell(VGA_TEXT_ROWS) => Place(vga') = Start + cursor'
  BY <1>1, CursorPlace
<1>3. Start' = Start
  BY DEF Start
<1>4. ScreenTyped' /\ StatusRowIsKept'
  BY <1>1, <1>2 DEF ScreenTyped, StatusRowIsKept
<1>5. ASSUME ~ vga'.disturbed  PROVE Shown'
  <2>1. Shown
    BY <1>2, <1>5 DEF ScreenInv
  <2>2. Start + cursor' < Cell(VGA_TEXT_ROWS)
    BY <2>1, <1>1, CellsAre DEF Shown
  <2>3. Place(vga)' = Start' + cursor'
    BY <1>2, <1>3, <2>2 DEF Place
  <2>4. ASSUME NEW i \in TextCells, i >= Start
        PROVE  vga'.mem[i] = IF i < Start + len THEN buf[i - Start] ELSE Blank
    <3>1. vga'.mem[i] = vga.mem[i]
      BY <1>2
    <3>2. QED  BY <2>1, <2>4, <3>1 DEF Shown
  <2>5. QED  BY <2>1, <2>3, <2>4, <1>3 DEF Shown
<1>6. QED  BY <1>4, <1>5 DEF ScreenInv

LEMMA BackspaceScreen ==
    ASSUME LineTyped, LineTyped', ScreenInv, Backspace
    PROVE  ScreenInv'
<1>1. /\ cursor > 0 /\ cursor' = cursor - 1 /\ len' = len - 1
      /\ \A i \in 0 .. len - 2 : buf'[i] = IF i < cursor - 1 THEN buf[i] ELSE buf[i + 1]
      /\ UNCHANGED <<row0, col0>>
      /\ Redraw(buf', len', cursor', <<Blank>>, cursor')
  BY BackspaceGives DEF Backspace
<1>2. len' \in Nat /\ cursor' \in 0 .. len' /\ \A i \in 0 .. len' - 1 : buf'[i] \in Chars
  <2>1. len' \in 0 .. LINE_MAX - 1 /\ cursor' \in 0 .. len' /\ LINE_MAX \in Nat
    BY DEF LineTyped
  <2>2. len' \in Nat
    BY <2>1
  <2>3. \A i \in 0 .. len' - 1 : buf'[i] \in Chars
    BY DEF LineTyped, CharsWritten
  <2>4. QED  BY <2>1, <2>2, <2>3, Zenon
<1>3. PICK n1 \in Nat, k1 \in Nat : n1 = len' /\ k1 = cursor' /\ k1 <= n1
  <2>1. cursor' \in Nat /\ cursor' <= len'
    BY <1>2
  <2>2. QED  BY <2>1, <1>2, Zenon
<1>4. /\ n1 = len' /\ k1 = cursor' /\ k1 \in 0 .. n1 /\ n1 = len - 1 /\ k1 = cursor - 1 /\ cursor > 0
      /\ len \in Nat /\ cursor \in 0 .. len
      /\ \A i \in 0 .. n1 - 1 : buf'[i] \in Chars
      /\ Redraw(buf', n1, k1, <<Blank>>, k1)
  <2>1. len \in Nat /\ cursor \in 0 .. len
    BY DEF LineTyped
  <2>2. n1 = len' /\ k1 = cursor'
    BY <1>3
  <2> HIDE DEF Redraw
  <2>3. k1 \in 0 .. n1
    BY <1>3
  <2>4. QED  BY <2>1, <2>2, <2>3, <1>1, <1>2, Zenon
<1>5. ScreenTyped /\ Start \in Nat /\ Cell(VGA_TEXT_ROWS) \in Nat
  BY StartIs, CellsAre DEF ScreenInv
<1>6. 1 = Len(<<Blank>>) /\ <<Blank>> \in {<<>>, <<Blank>>}
  OBVIOUS
<1>7. /\ vga' \in Screens
      /\ \A i \in StatusCells : vga'.mem[i] = vga.mem[i]
      /\ vga.disturbed => vga'.disturbed
      /\ ~ vga'.disturbed /\ Start + k1 < Cell(VGA_TEXT_ROWS) =>
            /\ Start + n1 + 1 < Cell(VGA_TEXT_ROWS)
            /\ Place(vga') = Start + k1
            /\ \A i \in TextCells :
                  vga'.mem[i] = IF Start + k1 <= i /\ i < Start + n1 THEN buf'[i - Start]
                                ELSE IF Start + n1 <= i /\ i < Start + n1 + 1
                                     THEN Blank ELSE vga.mem[i]
  <2>1. PICK b : b = buf'
    OBVIOUS
  <2>2. PICK r : r = Redrawn(vga, b, n1, k1, <<Blank>>, k1)
    OBVIOUS
  <2>3. vga' = r /\ vga \in Screens
    BY <1>4, <1>5, <2>1, <2>2, Zenon DEF Redraw, Redrawn, ScreenTyped
  <2>4. BytesOf(Chars, b, 0, n1)
    BY <1>4, <2>1 DEF BytesOf
  <2>5. ShownFrom(vga, r, b, n1, k1, 1, k1)
    BY <1>3, <1>4, <1>5, <1>6, <2>2, <2>3, <2>4, RedrawShows, Zenon
  <2>6. QED  BY <2>1, <2>3, <2>5, Zenon DEF ShownFrom
<1>8. Start' = Start /\ ScreenTyped' /\ StatusRowIsKept'
  BY <1>1, <1>5, <1>7 DEF Start, ScreenTyped, ScreenInv, StatusRowIsKept
<1>9. ASSUME ~ vga'.disturbed  PROVE Shown'
  <2>1. Shown
    BY <1>7, <1>9 DEF ScreenInv
  <2>2. Start + k1 < Cell(VGA_TEXT_ROWS)
    BY <2>1, <1>1, <1>4, <1>5 DEF Shown
  <2>3. Start + n1 < Cell(VGA_TEXT_ROWS) /\ Place(vga') = Start + k1
    BY <2>2, <1>4, <1>5, <1>7, <1>9
  <2>4. ASSUME NEW i \in TextCells, i >= Start
        PROVE  vga'.mem[i] = IF i < Start + n1 THEN buf'[i - Start] ELSE Blank
    <3>1. i \in Nat
      BY CellsAre
    <3>2. vga'.mem[i] = IF Start + k1 <= i /\ i < Start + n1 THEN buf'[i - Start]
                        ELSE IF Start + n1 <= i /\ i < Start + n1 + 1
                             THEN Blank ELSE vga.mem[i]
      BY <2>2, <1>7, <1>9
    <3>3. vga.mem[i] = IF i < Start + len THEN buf[i - Start] ELSE Blank
      BY <2>1, <2>4 DEF Shown
    <3>4. CASE i < Start + k1
      <4>1. /\ i - Start \in 0 .. len - 2 /\ i - Start < cursor - 1
            /\ i < Start + n1 /\ i < Start + len
            /\ ~ (Start + k1 <= i) /\ ~ (Start + n1 <= i)
        BY <3>1, <3>4, <2>4, <1>1, <1>4, <1>5
      <4>2. buf'[i - Start] = buf[i - Start]
        BY <4>1, <1>1
      <4>3. QED  BY <4>1, <4>2, <3>2, <3>3
    <3>5. CASE Start + k1 <= i /\ i < Start + n1
      BY <3>2, <3>5
    <3>6. CASE Start + n1 <= i /\ i < Start + n1 + 1
      <4>1. ~ (i < Start + n1)
        BY <3>1, <3>6, <1>4, <1>5
      <4>2. QED  BY <4>1, <3>2, <3>6
    <3>7. CASE ~ (i < Start + n1 + 1)
      <4>1. ~ (i < Start + len) /\ ~ (i < Start + n1)
        BY <3>1, <3>7, <1>1, <1>4, <1>5
      <4>2. QED  BY <4>1, <3>2, <3>3, <3>7
    <3>8. QED  BY <3>1, <3>4, <3>5, <3>7, <3>6, <1>4, <1>5
  <2>5. /\ Start' + len' < Cell(VGA_TEXT_ROWS) /\ Place(vga') = Start' + cursor'
        /\ \A i \in TextCells : i >= Start' =>
              vga'.mem[i] = IF i < Start' + len' THEN buf'[i - Start'] ELSE Blank
    BY <2>3, <2>4, <1>8, <1>4, Zenon
  <2>6. QED  BY <2>5 DEF Shown, Place
<1>10. QED  BY <1>8, <1>9 DEF ScreenInv

LEMMA InsertScreen ==
    ASSUME LineTyped, LineTyped', ScreenInv, NEW src, NEW n \in Nat, len + n < LINE_MAX,
           \A i \in 0 .. n - 1 : src[i] \in Chars, Insert(src, n)
    PROVE  ScreenInv'
<1>1. /\ cursor' = cursor + n /\ len' = len + n
      /\ \A i \in 0 .. len + n - 1 :
            buf'[i] = IF i < cursor THEN buf[i]
                      ELSE IF i < cursor + n THEN src[i - cursor] ELSE buf[i - n]
  BY InsertGives
<1>2. UNCHANGED <<row0, col0>> /\ vga' = Redrawn(vga, buf', len', cursor, <<>>, cursor')
  BY DEF Insert, Redraw, Redrawn
<1>3. len' \in Nat /\ cursor' \in 0 .. len' /\ \A i \in 0 .. len' - 1 : buf'[i] \in Chars
  <2>1. len' \in 0 .. LINE_MAX - 1 /\ cursor' \in 0 .. len' /\ LINE_MAX \in Nat
    BY DEF LineTyped
  <2>2. len' \in Nat
    BY <2>1
  <2>3. \A i \in 0 .. len' - 1 : buf'[i] \in Chars
    BY DEF LineTyped, CharsWritten
  <2>4. QED  BY <2>1, <2>2, <2>3, Zenon
<1>4. PICK n1 \in Nat, k1 \in Nat : n1 = len' /\ k1 = cursor' /\ k1 <= n1
  <2>1. cursor' \in Nat /\ cursor' <= len'
    BY <1>3
  <2>2. QED  BY <2>1, <1>3, Zenon
<1>5. /\ n1 = len' /\ k1 = cursor' /\ k1 \in 0 .. n1 /\ n1 = len + n /\ k1 = cursor + n
       /\ len \in Nat /\ cursor \in 0 .. len
       /\ \A i \in 0 .. n1 - 1 : buf'[i] \in Chars
  <2>1. len \in Nat /\ cursor \in 0 .. len
    BY DEF LineTyped
  <2>2. n1 = len' /\ k1 = cursor'
    BY <1>4
  <2>3. k1 \in 0 .. n1
    BY <1>4
  <2>4. QED  BY <2>1, <2>2, <2>3, <1>1, <1>2, <1>3, Zenon
<1>6. vga' = Redrawn(vga, buf', n1, cursor, <<>>, k1)
  BY <1>2, <1>4, Zenon
<1>7. ScreenTyped /\ Start \in Nat /\ Cell(VGA_TEXT_ROWS) \in Nat
  BY StartIs, CellsAre DEF ScreenInv
<1>8. 0 = Len(<<>>) /\ <<>> \in {<<>>, <<Blank>>} /\ cursor \in 0 .. n1
  BY <1>1, <1>5
<1>9. /\ vga' \in Screens
      /\ \A i \in StatusCells : vga'.mem[i] = vga.mem[i]
      /\ vga.disturbed => vga'.disturbed
      /\ ~ vga'.disturbed /\ Start + cursor < Cell(VGA_TEXT_ROWS) =>
            /\ Start + n1 + 0 < Cell(VGA_TEXT_ROWS)
            /\ Place(vga') = Start + k1
            /\ \A i \in TextCells :
                  vga'.mem[i] = IF Start + cursor <= i /\ i < Start + n1 THEN buf'[i - Start]
                                ELSE IF Start + n1 <= i /\ i < Start + n1 + 0
                                     THEN Blank ELSE vga.mem[i]
  <2>1. PICK b : b = buf'
    OBVIOUS
  <2>2. PICK r : r = Redrawn(vga, b, n1, cursor, <<>>, k1)
    OBVIOUS
  <2>3. vga' = r /\ vga \in Screens
    <3>1. vga' = Redrawn(vga, buf', n1, cursor, <<>>, k1)
      BY <1>6
    <3>2. vga' = Redrawn(vga, b, n1, cursor, <<>>, k1)
      BY <3>1, <2>1, Zenon
    <3>3. vga \in Screens
      BY <1>7 DEF ScreenTyped
    <3>4. QED  BY <3>2, <3>3, <2>2, Zenon
  <2>4. BytesOf(Chars, b, 0, n1)
    BY <1>5, <2>1 DEF BytesOf
  <2>5. ShownFrom(vga, r, b, n1, cursor, 0, k1)
    BY <1>4, <1>5, <1>7, <1>8, <2>2, <2>3, <2>4, RedrawShows, Zenon
  <2>6. QED  BY <2>1, <2>3, <2>5, Zenon DEF ShownFrom
<1>10. Start' = Start /\ ScreenTyped' /\ StatusRowIsKept'
  BY <1>2, <1>7, <1>9 DEF Start, ScreenTyped, ScreenInv, StatusRowIsKept
<1>11. ASSUME ~ vga'.disturbed  PROVE Shown'
  <2>1. Shown
    BY <1>9, <1>11 DEF ScreenInv
  <2>2. Start + cursor < Cell(VGA_TEXT_ROWS)
    BY <2>1, <1>5, <1>7 DEF Shown
  <2>3. Start + n1 < Cell(VGA_TEXT_ROWS) /\ Place(vga') = Start + k1
    BY <2>2, <1>5, <1>7, <1>9, <1>11
  <2>4. ASSUME NEW i \in TextCells, i >= Start
        PROVE  vga'.mem[i] = IF i < Start + n1 THEN buf'[i - Start] ELSE Blank
    <3>1. i \in Nat
      BY CellsAre
    <3>2. vga'.mem[i] = IF Start + cursor <= i /\ i < Start + n1 THEN buf'[i - Start]
                        ELSE IF Start + n1 <= i /\ i < Start + n1 + 0
                             THEN Blank ELSE vga.mem[i]
      BY <2>2, <1>9, <1>11
    <3>3. vga.mem[i] = IF i < Start + len THEN buf[i - Start] ELSE Blank
      BY <2>1, <2>4 DEF Shown
    <3>4. CASE i < Start + cursor
      <4>1. /\ i - Start \in 0 .. len + n - 1 /\ i - Start < cursor
            /\ i < Start + n1 /\ i < Start + len
            /\ ~ (Start + cursor <= i) /\ ~ (Start + n1 <= i)
        BY <3>1, <3>4, <2>4, <1>1, <1>5, <1>7
      <4>2. buf'[i - Start] = buf[i - Start]
        BY <4>1, <1>1
      <4>3. QED  BY <4>1, <4>2, <3>2, <3>3
    <3>5. CASE Start + cursor <= i /\ i < Start + n1
      BY <3>2, <3>5
    <3>6. CASE ~ (i < Start + n1)
      <4>1. ~ (i < Start + len) /\ ~ (i < Start + n1 + 0)
        BY <3>1, <3>6, <1>1, <1>5, <1>7
      <4>2. QED  BY <4>1, <3>2, <3>3, <3>6
    <3>7. QED  BY <3>1, <3>4, <3>5, <3>6, <1>5, <1>7
  <2>5. /\ Start' + len' < Cell(VGA_TEXT_ROWS) /\ Place(vga') = Start' + cursor'
        /\ \A i \in TextCells : i >= Start' =>
              vga'.mem[i] = IF i < Start' + len' THEN buf'[i - Start'] ELSE Blank
    BY <2>3, <2>4, <1>10, <1>5, Zenon
  <2>6. QED  BY <2>5 DEF Shown, Place
<1>12. QED  BY <1>10, <1>11 DEF ScreenInv

LEMMA NextScreen == ASSUME TypeInv, TypeInv', ScreenInv, [Next]_vars  PROVE ScreenInv'
<1>1. LineTyped
  BY LineIsTyped
<1>2. LineTyped'
  BY LineIsTyped, PTL
<1>3. /\ ScreenTyped /\ vga \in Screens
      /\ \A i \in StatusCells : vga.mem[i] \in {Bar, Copied}
  BY DEF ScreenInv, ScreenTyped, StatusRowIsKept
<1>4. CASE UNCHANGED <<line, vga>>
  <2>1. UNCHANGED <<buf, len, cursor, row0, col0, vga>>
    BY <1>4 DEF line
  <2>2. ScreenTyped' /\ StatusRowIsKept' /\ (Shown => Shown')
    BY <2>1, <1>3 DEF ScreenTyped, StatusRowIsKept, ScreenInv, Shown, Start, Place
  <2>3. QED  BY <2>1, <2>2 DEF ScreenInv
<1>5. CASE Backspace
  BY <1>1, <1>2, <1>5, BackspaceScreen
<1>6. CASE MoveLeft \/ MoveRight
  <2>1. vga' = CursorAt(vga, cursor') /\ UNCHANGED <<buf, len, row0, col0>>
    BY <1>6 DEF MoveLeft, MoveRight
  <2>2. QED  BY <2>1, <1>1, <1>2, <1>3, CursorScreen
<1>7. CASE CopyLine
  <2> DEFINE s == StatusLine(vga, Copied)
  <2>1. vga' = CursorAt(s, cursor) /\ UNCHANGED <<buf, len, cursor, row0, col0>>
    BY <1>7 DEF CopyLine
  <2>2. /\ s \in Screens /\ s.disturbed = vga.disturbed
        /\ \A i \in TextCells : s.mem[i] = vga.mem[i]
        /\ \A i \in StatusCells : s.mem[i] \in {Bar, Copied}
    BY <1>3, StatusLineKeeps
  <2> HIDE DEF s
  <2>3. vga' = CursorAt(s, cursor')
    BY <2>1
  <2>4. QED  BY <2>1, <2>2, <2>3, <1>1, <1>2, CursorScreen
<1>8. CASE PasteLine
  BY <1>1, <1>2, <1>8, PasteInserts, InsertScreen
<1>9. CASE TypeChar
  <2> DEFINE src == [i \in {0} |-> c]
  <2>1. /\ len + 1 < LINE_MAX /\ \A i \in 0 .. 1 - 1 : src[i] \in Chars
        /\ Insert(src, 1)
    BY <1>1, <1>9, TypeInserts, Zenon
  <2> HIDE DEF src
  <2>2. QED  BY <2>1, <1>1, <1>2, InsertScreen
<1>10. CASE EnterLine
  BY <1>1, <1>10, EnterScreen
<1>11. CASE Ignored
  BY <1>4, <1>11 DEF Ignored
<1>12. CASE Take
  BY <1>5, <1>6, <1>7, <1>8, <1>9, <1>10, <1>11, <1>12 DEF Take
<1>13. CASE \E code \in Codes : TopHalf(code)
  BY <1>4, <1>13, TopHalfPushes
<1>14. CASE UNCHANGED vars
  BY <1>4, <1>14 DEF vars
<1>15. QED  BY <1>12, <1>13, <1>14 DEF Next

LEMMA ScreenInvariant == Spec => []ScreenInv
BY Typed, InitScreen, NextScreen, PTL DEF Spec

\* Whatever is printed, typed and scrolled, only vga_status_line writes to the
\* status row ("esta fila nunca se toca").
THEOREM StatusRow == Spec => []StatusRowIsKept
<1>1. ScreenInv => StatusRowIsKept
  BY DEF ScreenInv
<1>2. QED  BY <1>1, ScreenInvariant, PTL

\* As long as the text has not scrolled under it, kb_readline's line is on the
\* screen from where it began, nothing of an older one is behind it, and the
\* cursor stands where the next character goes.
THEOREM LineIsOnScreen == Spec => []ScreenShowsLine
<1>1. ScreenInv => ScreenShowsLine
  BY DEF ScreenInv, Shown, ScreenShowsLine, Start, Place
<1>2. QED  BY <1>1, ScreenInvariant, PTL

(***************************************************************************)
(* Stretches of bytes as sequences.                                        *)
(***************************************************************************)
\* No byte, one, and two stretches one behind the other.
LEMMA NoBytes ==
    ASSUME NEW p, NEW a \in Nat
    PROVE  Sequence(p, a, a) = <<>>
BY DEF Sequence

LEMMA OneByte ==
    ASSUME NEW p, NEW a \in Nat
    PROVE  Sequence(p, a, a + 1) = <<p[a]>>
<1>1. Sequence(p, a, a + 1) = [k \in 1 .. 1 |-> p[a]]
  BY DEF Sequence
<1>2. QED  BY <1>1

LEMMA Joined ==
    ASSUME NEW p, NEW a \in Nat, NEW b \in Nat, NEW d \in Nat, a <= b, b <= d,
           BytesOf(Chars, p, a, d)
    PROVE  Sequence(p, a, b) \o Sequence(p, b, d) = Sequence(p, a, d)
<1> DEFINE s == Sequence(p, a, b)
           t == Sequence(p, b, d)
           u == Sequence(p, a, d)
<1>1. BytesOf(Chars, p, a, b) /\ BytesOf(Chars, p, b, d)
  BY DEF BytesOf
<1>2. s \in Seq(Chars) /\ Len(s) = b - a /\ SameBytes(s, p, a, b)
  BY <1>1, SequenceIs
<1>3. t \in Seq(Chars) /\ Len(t) = d - b /\ SameBytes(t, p, b, d)
  BY <1>1, SequenceIs
<1>4. u \in Seq(Chars) /\ Len(u) = d - a /\ SameBytes(u, p, a, d)
  BY SequenceIs
<1> HIDE DEF s, t, u
<1>5. s \o t \in Seq(Chars) /\ Len(s \o t) = Len(s) + Len(t)
  BY <1>2, <1>3
<1>6. ASSUME NEW k \in 1 .. Len(u)  PROVE (s \o t)[k] = u[k]
  <2>1. u[k] = p[a + k - 1]
    BY <1>4 DEF SameBytes
  <2>2. CASE k <= b - a
    BY <2>1, <2>2, <1>2, <1>3, <1>4 DEF SameBytes
  <2>3. CASE k > b - a
    <3>1. (s \o t)[k] = t[k - (b - a)] /\ k - (b - a) \in 1 .. d - b
      BY <2>3, <1>2, <1>3, <1>4
    <3>2. t[k - (b - a)] = p[b + (k - (b - a)) - 1] /\ b + (k - (b - a)) - 1 = a + k - 1
      BY <3>1, <1>3 DEF SameBytes
    <3>3. QED  BY <2>1, <3>1, <3>2
  <2>4. k <= b - a \/ k > b - a
    BY <1>4
  <2>5. QED  BY <2>2, <2>3, <2>4, Zenon
<1>7. Len(s \o t) = Len(u)
  BY <1>2, <1>3, <1>4, <1>5
<1>8. s \o t = u
  BY <1>4, <1>5, <1>6, <1>7, SeqEqual
<1>9. QED  BY <1>8 DEF s, t, u

\* A stretch of a stretch.
LEMMA Shortened ==
    ASSUME NEW p, NEW a \in Nat, NEW b \in Nat, NEW n \in 0 .. b - a,
           BytesOf(Chars, p, a, b)
    PROVE  SubSeq(Sequence(p, a, b), 1, n) = Sequence(p, a, a + n)
<1> DEFINE s == Sequence(p, a, b)
           u == Sequence(p, a, a + n)
<1>1. a <= b /\ a + n \in Nat /\ BytesOf(Chars, p, a, a + n)
  BY DEF BytesOf
<1>2. s \in Seq(Chars) /\ Len(s) = b - a /\ SameBytes(s, p, a, b)
  BY <1>1, SequenceIs
<1>3. u \in Seq(Chars) /\ Len(u) = a + n - a /\ SameBytes(u, p, a, a + n)
  BY <1>1, SequenceIs
<1> HIDE DEF s, u
<1>4. SubSeq(s, 1, n) \in Seq(Chars) /\ Len(SubSeq(s, 1, n)) = n
      /\ \A k \in 1 .. n : SubSeq(s, 1, n)[k] = s[k]
  BY <1>2
<1>5. \A k \in 1 .. n : u[k] = s[k]
  BY <1>2, <1>3 DEF SameBytes
<1>6. Len(u) = n
  BY <1>3
<1>7. SubSeq(s, 1, n) = u
  BY <1>3, <1>4, <1>5, <1>6, SeqEqual
<1>8. QED  BY <1>7 DEF s, u

\* The last and the first byte of a stretch, and what is left without it.
EndOf(s, p, a, b) ==
    /\ s # <<>> /\ s[Len(s)] = p[b - 1]
    /\ SubSeq(s, 1, Len(s) - 1) = Sequence(p, a, b - 1)
    /\ s = Append(Sequence(p, a, b - 1), p[b - 1])

StartOf(s, p, a, b) ==
    /\ s # <<>> /\ Head(s) = p[a]
    /\ Tail(s) = Sequence(p, a + 1, b)
    /\ s = <<p[a]>> \o Sequence(p, a + 1, b)

LEMMA Ends ==
    ASSUME NEW p, NEW a \in Nat, NEW b \in Nat, a < b, BytesOf(Chars, p, a, b),
           NEW s, s = Sequence(p, a, b)
    PROVE  EndOf(s, p, a, b) /\ StartOf(s, p, a, b)
<1>1. s \in Seq(Chars) /\ Len(s) = b - a /\ SameBytes(s, p, a, b)
  BY SequenceIs
<1>2. SubSeq(s, 1, b - a - 1) = Sequence(p, a, b - 1)
  <2>1. b - a - 1 \in 0 .. b - a /\ a + (b - a - 1) = b - 1
    OBVIOUS
  <2>2. QED  BY <2>1, Shortened
<1>3. Sequence(p, a, b - 1) \o Sequence(p, b - 1, b) = s
  <2>1. b - 1 \in Nat /\ a <= b - 1 /\ b - 1 <= b
    OBVIOUS
  <2>2. QED  BY <2>1, Joined
<1>4. Sequence(p, a, a + 1) \o Sequence(p, a + 1, b) = s
  <2>1. a + 1 \in Nat /\ a <= a + 1 /\ a + 1 <= b
    OBVIOUS
  <2>2. QED  BY <2>1, Joined
<1>5. Sequence(p, b - 1, b) = <<p[b - 1]>> /\ Sequence(p, a, a + 1) = <<p[a]>>
  <2>1. b - 1 \in Nat /\ b - 1 + 1 = b
    OBVIOUS
  <2>2. Sequence(p, b - 1, b - 1 + 1) = <<p[b - 1]>>
    BY <2>1, OneByte
  <2>3. QED  BY <2>1, <2>2, OneByte
<1>6. s[b - a] = p[b - 1] /\ s[1] = p[a]
  BY <1>1 DEF SameBytes
<1> DEFINE u == Sequence(p, a, b - 1)
           v == Sequence(p, a + 1, b)
<1>7. u \in Seq(Chars) /\ v \in Seq(Chars)
  <2>1. /\ b - 1 \in Nat /\ a + 1 \in Nat /\ a <= b - 1 /\ a + 1 <= b
        /\ BytesOf(Chars, p, a, b - 1) /\ BytesOf(Chars, p, a + 1, b)
    BY DEF BytesOf
  <2>2. QED  BY <2>1, SequenceIs
<1>8. p[b - 1] \in Chars /\ p[a] \in Chars
  BY DEF BytesOf
<1> HIDE DEF u, v
<1>9. s = Append(u, p[b - 1])
  <2>1. s = u \o <<p[b - 1]>>
    BY <1>3, <1>5 DEF u
  <2>2. QED  BY <2>1, <1>7, <1>8
<1>10. s = <<p[a]>> \o v
  BY <1>4, <1>5 DEF v
<1>11. Tail(s) = v
  BY <1>10, <1>7, <1>8
<1>12. s # <<>> /\ Head(s) = s[1]
  BY <1>1
<1>13. Len(s) - 1 = b - a - 1
  BY <1>1
<1>14. EndOf(s, p, a, b)
  BY <1>1, <1>2, <1>6, <1>9, <1>12, <1>13 DEF EndOf, u
<1>15. StartOf(s, p, a, b)
  BY <1>6, <1>10, <1>11, <1>12 DEF StartOf, v
<1>16. QED  BY <1>14, <1>15

(***************************************************************************)
(* The ring is a queue.                                                    *)
(***************************************************************************)
\* What waits, without the remainders.
Queue(r, h, t) == [k \in 1 .. Count(h, t) |-> r[Slot(t, k)]]

LEMMA WaitingQueue == TypeOK => Waiting = Queue(ring, head, tail)
<1> SUFFICES ASSUME TypeOK  PROVE Waiting = Queue(ring, head, tail)
  OBVIOUS
<1>1. head \in 0 .. RING_SIZE - 1 /\ tail \in 0 .. RING_SIZE - 1
  BY DEF TypeOK
<1>2. /\ (head - tail) % RING_SIZE = Count(head, tail) /\ Count(head, tail) \in 0 .. RING_SIZE - 1
      /\ \A k \in 1 .. RING_SIZE : (tail + k - 1) % RING_SIZE = Slot(tail, k)
      /\ RING_SIZE \in Nat
  BY <1>1, WaitingIs
<1>3. \A k \in 1 .. Count(head, tail) : (tail + k - 1) % RING_SIZE = Slot(tail, k)
  BY <1>2
<1>4. QED  BY <1>2, <1>3 DEF Waiting, Queue

\* The keys that wait between t and h are keys.
Waits(r, h, t) == \A k \in 1 .. Count(h, t) : r[Slot(t, k)] \in Keys

SameKeys(q, r, h, t) == \A k \in 1 .. Count(h, t) : q[k] = r[Slot(t, k)]

LEMMA QueueIs ==
    ASSUME NEW r, NEW h \in 0 .. RING_SIZE - 1, NEW t \in 0 .. RING_SIZE - 1, Waits(r, h, t),
           NEW q, q = Queue(r, h, t)
    PROVE  q \in Seq(Keys) /\ Len(q) = Count(h, t) /\ SameKeys(q, r, h, t)
<1>1. Count(h, t) \in Nat
  BY WaitingIs
<1>2. q \in [1 .. Count(h, t) -> Keys]
  BY DEF Queue, Waits
<1>3. q \in Seq(Keys)
  BY <1>1, <1>2, SeqDef
<1>4. QED  BY <1>1, <1>2, <1>3, LenProperties DEF Queue, SameKeys

Put(r, i, key) == [r EXCEPT ![i] = key]

\* A push appends the key, and there was room for it.
LEMMA QueuePushed ==
    ASSUME NEW r \in [0 .. RING_SIZE - 1 -> Keys \cup {Unset}], NEW key \in Keys,
           NEW h \in 0 .. RING_SIZE - 1, NEW t \in 0 .. RING_SIZE - 1, Waits(r, h, t),
           NEW h1, h1 = (h + 1) % RING_SIZE, h1 # t,
           NEW r1, r1 = Put(r, h, key)
    PROVE  /\ Len(Queue(r, h, t)) < RING_SIZE - 1
           /\ Queue(r1, h1, t) = Append(Queue(r, h, t), key)
<1>1. /\ h1 \in 0 .. RING_SIZE - 1
      /\ Count(h1, t) = Count(h, t) + 1
      /\ Slot(t, Count(h, t) + 1) = h
      /\ \A k \in 1 .. Count(h, t) : Slot(t, k) # h
  BY PushedAt
<1>2. /\ Count(h, t) \in Nat /\ RING_SIZE \in Nat /\ Count(h1, t) \in 0 .. RING_SIZE - 1
      /\ \A k \in 1 .. RING_SIZE : Slot(t, k) \in 0 .. RING_SIZE - 1
  BY <1>1, WaitingIs
<1>3. PICK q : q = Queue(r, h, t)
  OBVIOUS
<1>4. q \in Seq(Keys) /\ Len(q) = Count(h, t) /\ \A k \in 1 .. Count(h, t) : q[k] = r[Slot(t, k)]
  <2>1. q \in Seq(Keys) /\ Len(q) = Count(h, t) /\ SameKeys(q, r, h, t)
    BY <1>3, QueueIs, Zenon
  <2>2. QED  BY <2>1 DEF SameKeys
<1>5. PICK q1 : q1 = Queue(r1, h1, t)
  OBVIOUS
<1>6. /\ \A k \in 1 .. Count(h, t) : r1[Slot(t, k)] = q[k]
      /\ r1[Slot(t, Count(h, t) + 1)] = key
  <2>1. \A k \in 1 .. Count(h, t) : k \in 1 .. RING_SIZE
    BY <1>1, <1>2
  <2>2. QED  BY <2>1, <1>1, <1>2, <1>4 DEF Put
<1>7. Waits(r1, h1, t)
  <2>1. \A k \in 1 .. Count(h, t) : q[k] \in Keys
    BY <1>4
  <2>2. \A k \in 1 .. Count(h1, t) : k \in 1 .. Count(h, t) \/ k = Count(h, t) + 1
    BY <1>1, <1>2
  <2>3. QED  BY <2>1, <2>2, <1>6 DEF Waits
<1>8. q1 \in Seq(Keys) /\ Len(q1) = Count(h1, t) /\ \A k \in 1 .. Count(h1, t) : q1[k] = r1[Slot(t, k)]
  <2>1. h1 \in 0 .. RING_SIZE - 1
    BY <1>1
  <2>2. q1 \in Seq(Keys) /\ Len(q1) = Count(h1, t) /\ SameKeys(q1, r1, h1, t)
    BY <2>1, <1>5, <1>7, QueueIs
  <2>3. QED  BY <2>2 DEF SameKeys
<1>9. \A k \in 1 .. Len(q) : q1[k] = q[k]
  <2>1. Len(q) = Count(h, t) /\ \A k \in 1 .. Len(q) : k \in 1 .. Count(h1, t)
    BY <1>1, <1>2, <1>4
  <2>2. QED  BY <2>1, <1>6, <1>8
<1>10. q1[Len(q) + 1] = key
  <2>1. Len(q) + 1 = Count(h, t) + 1 /\ Len(q) + 1 \in 1 .. Count(h1, t)
    BY <1>1, <1>2, <1>4
  <2>2. q1[Len(q) + 1] = r1[Slot(t, Len(q) + 1)]
    BY <2>1, <1>8
  <2>3. QED  BY <2>1, <2>2, <1>6
<1>11. q1 = Append(q, key)
  <2>1. Append(q, key) \in Seq(Keys) /\ Len(Append(q, key)) = Len(q) + 1
        /\ Append(q, key)[Len(q) + 1] = key
        /\ \A k \in 1 .. Len(q) : Append(q, key)[k] = q[k]
    BY <1>4
  <2>2. Len(q1) = Len(q) + 1
    BY <1>1, <1>4, <1>8
  <2>3. \A k \in 1 .. Len(q1) : k \in 1 .. Len(q) \/ k = Len(q) + 1
    BY <2>2, <1>2, <1>4
  <2>4. \A k \in 1 .. Len(q1) : q1[k] = Append(q, key)[k]
    BY <2>1, <2>3, <1>9, <1>10
  <2>5. QED  BY <2>1, <2>2, <2>4, <1>8, SeqEqual
<1>12. Len(q) < RING_SIZE - 1
  BY <1>1, <1>2, <1>4
<1>13. QED  BY <1>3, <1>5, <1>11, <1>12

\* q1 is q without its first key.
WithoutFirst(q, key, q1) == q # <<>> /\ Head(q) = key /\ q1 = Tail(q)

\* The first key is taken, and the others stay in their order.
LEMMA QueueTaken ==
    ASSUME NEW r \in [0 .. RING_SIZE - 1 -> Keys \cup {Unset}],
           NEW h \in 0 .. RING_SIZE - 1, NEW t \in 0 .. RING_SIZE - 1, Waits(r, h, t),
           h # t, NEW t1, t1 = (t + 1) % RING_SIZE,
           NEW r1, r1 = Put(r, t, Unset)
    PROVE  WithoutFirst(Queue(r, h, t), r[t], Queue(r1, h, t1))
<1>1. /\ t1 \in 0 .. RING_SIZE - 1
      /\ Count(h, t) = Count(h, t1) + 1
      /\ Slot(t, 1) = t
      /\ \A k \in 1 .. Count(h, t1) : Slot(t1, k) = Slot(t, k + 1) /\ Slot(t, k + 1) # t
  BY TakenAt
<1>2. /\ Count(h, t1) \in Nat /\ RING_SIZE \in Nat /\ Count(h, t) \in 0 .. RING_SIZE - 1
      /\ \A k \in 1 .. RING_SIZE : Slot(t, k) \in 0 .. RING_SIZE - 1
  BY <1>1, WaitingIs
<1>3. PICK q : q = Queue(r, h, t)
  OBVIOUS
<1>4. q \in Seq(Keys) /\ Len(q) = Count(h, t) /\ \A k \in 1 .. Count(h, t) : q[k] = r[Slot(t, k)]
  <2>1. q \in Seq(Keys) /\ Len(q) = Count(h, t) /\ SameKeys(q, r, h, t)
    BY <1>3, QueueIs, Zenon
  <2>2. QED  BY <2>1 DEF SameKeys
<1>5. PICK q1 : q1 = Queue(r1, h, t1)
  OBVIOUS
<1>6. ASSUME NEW k \in 1 .. Count(h, t1)
      PROVE  r1[Slot(t1, k)] = q[k + 1] /\ k + 1 \in 1 .. Count(h, t)
  <2>1. k + 1 \in 1 .. Count(h, t) /\ k + 1 \in 1 .. RING_SIZE
    BY <1>1, <1>2
  <2>2. Slot(t1, k) = Slot(t, k + 1) /\ Slot(t1, k) # t /\ Slot(t1, k) \in 0 .. RING_SIZE - 1
    BY <2>1, <1>1, <1>2
  <2>3. r1[Slot(t1, k)] = r[Slot(t, k + 1)]
    BY <2>2 DEF Put
  <2>4. QED  BY <2>1, <2>3, <1>4
<1>7. Waits(r1, h, t1)
  BY <1>4, <1>6 DEF Waits
<1>8. q1 \in Seq(Keys) /\ Len(q1) = Count(h, t1) /\ \A k \in 1 .. Count(h, t1) : q1[k] = r1[Slot(t1, k)]
  <2>1. t1 \in 0 .. RING_SIZE - 1
    BY <1>1
  <2>2. q1 \in Seq(Keys) /\ Len(q1) = Count(h, t1) /\ SameKeys(q1, r1, h, t1)
    BY <2>1, <1>5, <1>7, QueueIs
  <2>3. QED  BY <2>2 DEF SameKeys
<1>9. q # <<>> /\ Head(q) = r[t]
  <2>1. 1 \in 1 .. Count(h, t) /\ Len(q) # 0
    BY <1>1, <1>2, <1>4
  <2>2. q[1] = r[t]
    BY <2>1, <1>1, <1>4
  <2>3. QED  BY <2>1, <2>2, <1>4
<1>10. q1 = Tail(q)
  <2>1. Tail(q) \in Seq(Keys) /\ Len(Tail(q)) = Len(q) - 1
        /\ \A k \in 1 .. Len(q) - 1 : Tail(q)[k] = q[k + 1]
    BY <1>4, <1>9
  <2>2. Len(q1) = Len(q) - 1 /\ Len(q1) = Count(h, t1)
    BY <1>1, <1>2, <1>4, <1>8
  <2>3. \A k \in 1 .. Len(q1) : q1[k] = Tail(q)[k]
    BY <2>1, <2>2, <1>6, <1>8
  <2>4. QED  BY <2>1, <2>2, <2>3, <1>8, SeqEqual
<1>11. QED  BY <1>3, <1>5, <1>9, <1>10 DEF WithoutFirst

(***************************************************************************)
(* What each key does to the line, in terms of the simple terminal.        *)
(***************************************************************************)
LEMMA LineBytes ==
    ASSUME LineTyped
    PROVE  /\ len \in Nat /\ cursor \in 0 .. len /\ len <= LINE_MAX - 1 /\ LINE_MAX \in Nat
           /\ BytesOf(Chars, buf, 0, len) /\ BytesOf(Chars, buf, 0, cursor)
           /\ BytesOf(Chars, buf, cursor, len)
           /\ clipboard_len \in Nat /\ BytesOf(Chars, clipboard, 0, clipboard_len)
<1>1. /\ len \in Nat /\ cursor \in 0 .. len /\ len <= LINE_MAX - 1 /\ LINE_MAX \in Nat
      /\ clipboard_len \in Nat
  BY DEF LineTyped
<1>2. BytesOf(Chars, buf, 0, len) /\ BytesOf(Chars, clipboard, 0, clipboard_len)
  BY DEF LineTyped, CharsWritten, BytesOf
<1>3. BytesOf(Chars, buf, 0, cursor) /\ BytesOf(Chars, buf, cursor, len)
  BY <1>1, <1>2 DEF BytesOf
<1>4. QED  BY <1>1, <1>2, <1>3

\* The bytes up to the cursor, from it on, and of the clipboard.
Before == Sequence(buf, 0, cursor)
After == Sequence(buf, cursor, len)
Clip == Sequence(clipboard, 0, clipboard_len)

LEMMA BackspaceEdits == ASSUME LineTyped, Backspace  PROVE Term!Edit(c)
<1>1. PICK b, n, k : b = buf' /\ n = len' /\ k = cursor'
  OBVIOUS
<1>2. /\ cursor > 0 /\ k = cursor - 1 /\ n = len - 1
      /\ \A i \in 0 .. len - 2 : b[i] = IF i < cursor - 1 THEN buf[i] ELSE buf[i + 1]
  BY <1>1, BackspaceGives
<1>3. len \in Nat /\ cursor \in 0 .. len /\ BytesOf(Chars, buf, 0, cursor)
  BY LineBytes
<1>4. Sequence(b, 0, k) = Sequence(buf, 0, k)
  <2>1. 0 \in Nat /\ k \in Nat /\ k - 0 = k
    BY <1>2, <1>3
  <2>2. \A i \in 1 .. k - 0 : b[0 + i - 1] = buf[0 + i - 1]
    BY <1>2, <1>3
  <2>3. QED  BY <2>1, <2>2 DEF Sequence
<1>5. Sequence(b, k, n) = Sequence(buf, cursor, len)
  <2>1. k \in Nat /\ n \in Nat /\ n - k = len - cursor /\ len - cursor \in Nat /\ cursor \in Nat
    BY <1>2, <1>3
  <2>2. ASSUME NEW i \in 1 .. len - cursor  PROVE b[k + i - 1] = buf[cursor + i - 1]
    <3>1. k + i - 1 \in 0 .. len - 2 /\ ~ (k + i - 1 < cursor - 1)
          /\ k + i - 1 + 1 = cursor + i - 1
      BY <1>2, <1>3
    <3>2. QED  BY <3>1, <1>2
  <2>3. QED  BY <2>1, <2>2 DEF Sequence
<1>6. PICK s : s = Sequence(buf, 0, cursor)
  OBVIOUS
<1>7. s # <<>> /\ SubSeq(s, 1, Len(s) - 1) = Sequence(buf, 0, k)
  <2>1. 0 \in Nat /\ cursor \in Nat /\ 0 < cursor
    BY <1>2, <1>3
  <2>2. EndOf(s, buf, 0, cursor)
    BY <2>1, <1>3, <1>6, Ends
  <2>3. QED  BY <2>2, <1>2 DEF EndOf
<1>8. UNCHANGED <<clipboard, clipboard_len>> /\ c = KB_BACK
  BY DEF Backspace, clip
<1>9. s # <<>> /\ Sequence(b, 0, k) = SubSeq(s, 1, Len(s) - 1)
  BY <1>4, <1>7
<1>10. Before = s /\ Before' = Sequence(b, 0, k) /\ After' = Sequence(b, k, n)
       /\ Clip' = Clip
  BY <1>1, <1>6, <1>8, Zenon DEF Before, After, Clip
<1>11. /\ c = KB_BACK /\ Before # <<>>
       /\ Before' = SubSeq(Before, 1, Len(Before) - 1) /\ After' = After /\ Clip' = Clip
  BY <1>5, <1>8, <1>9, <1>10, Zenon DEF After
<1>12. QED
  BY <1>11 DEF Term!Edit, Term!Butlast, Before, After, Clip

LEMMA MovesEdit == ASSUME LineTyped, MoveLeft \/ MoveRight  PROVE Term!Edit(c)
<1>1. PICK k : k = cursor'
  OBVIOUS
<1>2. PICK s, t : s = Before /\ t = After
  OBVIOUS
<1>3. len \in Nat /\ cursor \in 0 .. len /\ BytesOf(Chars, buf, 0, len)
  BY LineBytes
<1>4. UNCHANGED <<buf, len, clipboard, clipboard_len>>
  BY DEF MoveLeft, MoveRight, clip
<1>5. Before' = Sequence(buf, 0, k) /\ After' = Sequence(buf, k, len) /\ Clip' = Clip
  BY <1>1, <1>4, Zenon DEF Before, After, Clip
<1>6. CASE MoveLeft
  <2>1. c = KB_LEFT /\ 0 < cursor /\ k = cursor - 1
    BY <1>1, <1>3, <1>6 DEF MoveLeft
  <2>2. EndOf(s, buf, 0, cursor)
    <3>1. 0 \in Nat /\ cursor \in Nat /\ BytesOf(Chars, buf, 0, cursor)
      BY <1>3 DEF BytesOf
    <3>2. QED  BY <3>1, <2>1, <1>2, Ends DEF Before
  <2>3. PICK u : u = Sequence(buf, k, len)
    OBVIOUS
  <2>4. StartOf(u, buf, k, len) /\ k + 1 = cursor
    <3>1. k \in Nat /\ k < len /\ BytesOf(Chars, buf, k, len)
      BY <1>3, <2>1 DEF BytesOf
    <3>2. QED  BY <3>1, <2>1, <2>3, <1>3, Ends
  <2>5. u = <<buf[k]>> \o t
    BY <2>4, <1>2 DEF StartOf, After
  <2>6. s # <<>> /\ Sequence(buf, 0, k) = SubSeq(s, 1, Len(s) - 1) /\ s[Len(s)] = buf[k]
    BY <2>1, <2>2 DEF EndOf
  <2>7. /\ c = KB_LEFT /\ Before # <<>> /\ Before' = SubSeq(Before, 1, Len(Before) - 1)
        /\ After' = <<Before[Len(Before)]>> \o After /\ Clip' = Clip
    BY <2>1, <2>3, <2>5, <2>6, <1>2, <1>5, Zenon
  <2>8. QED
    BY <2>7 DEF Term!Edit, Term!Butlast, Term!Last, Before, After, Clip
<1>7. CASE MoveRight
  <2>1. c = KB_RIGHT /\ cursor < len /\ k = cursor + 1 /\ k - 1 = cursor
    BY <1>1, <1>3, <1>7 DEF MoveRight
  <2>2. StartOf(t, buf, cursor, len)
    <3>1. cursor \in Nat /\ BytesOf(Chars, buf, cursor, len)
      BY <1>3 DEF BytesOf
    <3>2. QED  BY <3>1, <2>1, <1>2, <1>3, Ends DEF After
  <2>3. PICK u : u = Sequence(buf, 0, k)
    OBVIOUS
  <2>4. EndOf(u, buf, 0, k)
    <3>1. 0 \in Nat /\ k \in Nat /\ 0 < k /\ BytesOf(Chars, buf, 0, k)
      BY <1>3, <2>1 DEF BytesOf
    <3>2. QED  BY <3>1, <2>3, Ends
  <2>5. u = Append(s, buf[cursor])
    BY <2>1, <2>4, <1>2 DEF EndOf, Before
  <2>6. t # <<>> /\ Tail(t) = Sequence(buf, k, len) /\ Head(t) = buf[cursor]
    BY <2>1, <2>2 DEF StartOf
  <2>7. /\ c = KB_RIGHT /\ After # <<>> /\ Before' = Append(Before, Head(After))
        /\ After' = Tail(After) /\ Clip' = Clip
    BY <2>1, <2>3, <2>5, <2>6, <1>2, <1>5, Zenon
  <2>8. QED
    BY <2>7 DEF Term!Edit, Before, After, Clip
<1>8. QED  BY <1>6, <1>7

LEMMA CopyEdits == ASSUME LineTyped, CopyLine  PROVE Term!Edit(c)
<1>1. PICK m, n : m = clipboard' /\ n = clipboard_len'
  OBVIOUS
<1>2. n = len /\ \A i \in 0 .. len - 1 : m[i] = buf[i]
  BY <1>1, CopyGives
<1>3. len \in Nat /\ cursor \in 0 .. len /\ BytesOf(Chars, buf, 0, len)
  BY LineBytes
<1>4. Sequence(m, 0, n) = Sequence(buf, 0, len)
  <2>1. n - 0 = len - 0 /\ \A i \in 1 .. len - 0 : m[0 + i - 1] = buf[0 + i - 1]
    BY <1>2, <1>3
  <2>2. QED  BY <2>1 DEF Sequence
<1>5. Sequence(buf, 0, cursor) \o Sequence(buf, cursor, len) = Sequence(buf, 0, len)
  <2>1. 0 \in Nat /\ cursor \in Nat /\ 0 <= cursor /\ cursor <= len
    BY <1>3
  <2>2. QED  BY <2>1, <1>3, Joined
<1>6. UNCHANGED <<buf, len, cursor>> /\ c = KB_CTRL_C
  BY DEF CopyLine
<1>7. Before' = Before /\ After' = After /\ Clip' = Sequence(m, 0, n)
  BY <1>1, <1>6, Zenon DEF Before, After, Clip
<1>8. c = KB_CTRL_C /\ Clip' = Before \o After /\ Before' = Before /\ After' = After
  BY <1>4, <1>5, <1>6, <1>7 DEF Before, After
<1>9. QED
  BY <1>8 DEF Term!Edit, Before, After, Clip

LEMMA EnterEdits == ASSUME LineTyped, EnterLine  PROVE Term!Edit(c)
<1>1. c = KB_ENTER /\ len' = 0 /\ cursor' = 0 /\ UNCHANGED <<clipboard, clipboard_len>>
  BY DEF EnterLine, clip
<1>2. PICK b : b = buf'
  OBVIOUS
<1>3. Sequence(b, 0, 0) = <<>>
  BY NoBytes
<1>4. Before' = Sequence(b, 0, 0) /\ After' = Sequence(b, 0, 0) /\ Clip' = Clip
  BY <1>1, <1>2, Zenon DEF Before, After, Clip
<1>5. c = KB_ENTER /\ Before' = <<>> /\ After' = <<>> /\ Clip' = Clip
  BY <1>1, <1>3, <1>4, Zenon
<1>6. QED
  BY <1>5 DEF Term!Edit, Before, After, Clip

\* What is inserted is joined to the line before the cursor.
LEMMA InsertEdits ==
    ASSUME LineTyped, NEW src, NEW n \in Nat, len + n < LINE_MAX,
           BytesOf(Chars, src, 0, n), Insert(src, n)
    PROVE  Before' = Before \o Sequence(src, 0, n) /\ After' = After /\ Clip' = Clip
<1>1. PICK b, m, k : b = buf' /\ m = len' /\ k = cursor'
  OBVIOUS
<1>2. /\ k = cursor + n /\ m = len + n
      /\ \A i \in 0 .. len + n - 1 :
            b[i] = IF i < cursor THEN buf[i]
                   ELSE IF i < cursor + n THEN src[i - cursor] ELSE buf[i - n]
  <2>1. \A i \in 0 .. n - 1 : src[i] \in Chars
    BY DEF BytesOf
  <2>2. QED  BY <2>1, <1>1, InsertGives
<1>3. /\ len \in Nat /\ cursor \in 0 .. len /\ BytesOf(Chars, buf, 0, len)
  BY LineBytes
<1>4. Sequence(b, 0, cursor) = Sequence(buf, 0, cursor)
  <2>1. \A i \in 1 .. cursor - 0 : b[0 + i - 1] = buf[0 + i - 1]
    BY <1>2, <1>3
  <2>2. QED  BY <2>1 DEF Sequence
<1>5. Sequence(b, cursor, k) = Sequence(src, 0, n)
  <2>1. k - cursor = n /\ n - 0 = n
    BY <1>2, <1>3
  <2>2. ASSUME NEW i \in 1 .. n  PROVE b[cursor + i - 1] = src[0 + i - 1]
    <3>1. PICK j : j = cursor + i - 1
      OBVIOUS
    <3>2. j \in 0 .. len + n - 1 /\ ~ (j < cursor)
          /\ j < cursor + n /\ j - cursor = 0 + i - 1
      BY <3>1, <1>3
    <3>3. b[j] = src[j - cursor]
      BY <3>2, <1>2
    <3>4. QED  BY <3>1, <3>2, <3>3
  <2>3. QED  BY <2>1, <2>2 DEF Sequence
<1>6. Sequence(b, k, m) = Sequence(buf, cursor, len)
  <2>1. m - k = len - cursor
    BY <1>2, <1>3
  <2>2. ASSUME NEW i \in 1 .. len - cursor  PROVE b[k + i - 1] = buf[cursor + i - 1]
    <3>1. PICK j : j = k + i - 1
      OBVIOUS
    <3>2. j \in 0 .. len + n - 1 /\ ~ (j < cursor)
          /\ ~ (j < cursor + n) /\ j - n = cursor + i - 1
      BY <3>1, <1>2, <1>3
    <3>3. b[j] = buf[j - n]
      BY <3>2, <1>2
    <3>4. QED  BY <3>1, <3>2, <3>3
  <2>3. QED  BY <2>1, <2>2 DEF Sequence
<1>7. Sequence(b, 0, cursor) \o Sequence(b, cursor, k) = Sequence(b, 0, k)
  <2>1. ASSUME NEW i \in 0 .. k - 1  PROVE b[i] \in Chars
    <3>1. i \in 0 .. len + n - 1
      BY <1>2, <1>3
    <3>2. CASE i < cursor
      BY <3>1, <3>2, <1>2, <1>3 DEF BytesOf
    <3>3. CASE ~ (i < cursor)
      <4>1. i - cursor \in 0 .. n - 1 /\ i < cursor + n
        BY <3>1, <3>3, <1>2, <1>3
      <4>2. QED  BY <4>1, <3>1, <3>3, <1>2 DEF BytesOf
    <3>4. QED  BY <3>2, <3>3
  <2>2. BytesOf(Chars, b, 0, k)
    BY <2>1 DEF BytesOf
  <2>3. cursor \in Nat /\ k \in Nat /\ 0 <= cursor /\ cursor <= k
    BY <1>2, <1>3
  <2>4. QED  BY <2>2, <2>3, Joined
<1>8. UNCHANGED <<clipboard, clipboard_len>>
  BY DEF Insert, clip
<1>9. Before' = Sequence(b, 0, k) /\ After' = Sequence(b, k, m) /\ Clip' = Clip
  BY <1>1, <1>8, Zenon DEF Before, After, Clip
<1>10. QED  BY <1>4, <1>5, <1>6, <1>7, <1>9, Zenon DEF Before, After

\* The room for characters, in terms of the abstract terminal.
LEMMA RoomIs ==
    ASSUME LineTyped
    PROVE  Term!Free = LINE_MAX - 1 - len /\ Len(Clip) = clipboard_len
<1>1. /\ len \in Nat /\ cursor \in 0 .. len /\ len <= LINE_MAX - 1 /\ LINE_MAX \in Nat
      /\ BytesOf(Chars, buf, 0, cursor) /\ BytesOf(Chars, buf, cursor, len)
      /\ clipboard_len \in Nat /\ BytesOf(Chars, clipboard, 0, clipboard_len)
  BY LineBytes
<1>2. PICK s, t, u : s = Before /\ t = After /\ u = Clip
  OBVIOUS
<1>3. Len(s) = cursor - 0
  <2>1. 0 \in Nat /\ cursor \in Nat /\ 0 <= cursor
    BY <1>1
  <2>2. QED  BY <2>1, <1>1, <1>2, SequenceIs DEF Before
<1>4. Len(t) = len - cursor
  <2>1. cursor \in Nat /\ cursor <= len
    BY <1>1
  <2>2. t = Sequence(buf, cursor, len) /\ len \in Nat
    BY <1>1, <1>2 DEF After
  <2>3. BytesOf(Chars, buf, cursor, len)
    BY <1>1
  <2>4. QED  BY <2>1, <2>2, <2>3, SequenceIs
<1>5. Len(u) = clipboard_len - 0
  <2>1. 0 \in Nat /\ 0 <= clipboard_len
    BY <1>1
  <2>2. QED  BY <2>1, <1>1, <1>2, SequenceIs DEF Clip
<1>6. Term!Free = LINE_MAX - 1 - Len(s) - Len(t)
  BY <1>2, Zenon DEF Term!Free, Before, After
<1>7. QED  BY <1>1, <1>2, <1>3, <1>4, <1>5, <1>6

\* What is pasted is what fits.
LEMMA FittingIs == ASSUME LineTyped  PROVE Term!Fitting = Sequence(clipboard, 0, PasteSize)
<1>1. /\ PasteSize \in 0 .. clipboard_len
      /\ PasteSize = IF clipboard_len < LINE_MAX - 1 - len THEN clipboard_len
                     ELSE LINE_MAX - 1 - len
  BY PasteSizeIs
<1>2. /\ len \in Nat /\ LINE_MAX \in Nat
      /\ clipboard_len \in Nat /\ BytesOf(Chars, clipboard, 0, clipboard_len)
  BY LineBytes
<1>3. PICK n : n = PasteSize
  OBVIOUS
<1>4. (IF Len(Clip) < Term!Free THEN Len(Clip) ELSE Term!Free) = n
  BY <1>1, <1>3, RoomIs
<1>5. Term!Fitting = SubSeq(Clip, 1, n)
  BY <1>4 DEF Term!Fitting, Clip
<1>6. SubSeq(Sequence(clipboard, 0, clipboard_len), 1, n) = Sequence(clipboard, 0, 0 + n)
  <2>1. 0 \in Nat /\ n \in 0 .. clipboard_len - 0
    BY <1>1, <1>2, <1>3
  <2>2. QED  BY <2>1, <1>2, Shortened
<1>7. 0 + n = n
  BY <1>1, <1>2, <1>3
<1>8. QED  BY <1>3, <1>5, <1>6, <1>7 DEF Clip

LEMMA CharactersAre == Term!Characters = Chars
BY KeysAreDistinct DEF Term!Characters, Keys, Controls

LEMMA PasteEdits == ASSUME LineTyped, PasteLine  PROVE Term!Edit(c)
<1>1. /\ PasteSize \in Nat /\ len + PasteSize < LINE_MAX
      /\ \A i \in 0 .. PasteSize - 1 : clipboard[i] \in Chars
      /\ Insert(clipboard, PasteSize)
  BY PasteInserts
<1>2. BytesOf(Chars, clipboard, 0, PasteSize)
  BY <1>1 DEF BytesOf
<1>3. /\ Before' = Before \o Sequence(clipboard, 0, PasteSize)
      /\ After' = After /\ Clip' = Clip
  BY <1>1, <1>2, InsertEdits
<1>4. c = KB_CTRL_V
  BY DEF PasteLine
<1>5. Term!Fitting = Sequence(clipboard, 0, PasteSize)
  BY FittingIs
<1>6. QED
  BY <1>3, <1>4, <1>5 DEF Term!Edit, Before, After, Clip

LEMMA TypeEdits == ASSUME LineTyped, TypeChar  PROVE Term!Edit(c)
<1> DEFINE src == [i \in {0} |-> c]
<1>1. /\ len + 1 < LINE_MAX /\ \A i \in 0 .. 1 - 1 : src[i] \in Chars
      /\ Insert(src, 1)
  BY TypeInserts, Zenon
<1>2. src[0] = c
  OBVIOUS
<1> HIDE DEF src
<1>3. BytesOf(Chars, src, 0, 1)
  BY <1>1 DEF BytesOf
<1>4. /\ Before' = Before \o Sequence(src, 0, 1) /\ After' = After /\ Clip' = Clip
  BY <1>1, <1>3, InsertEdits
<1>5. Sequence(src, 0, 1) = <<c>>
  <2>1. Sequence(src, 0, 0 + 1) = <<src[0]>>
    BY OneByte
  <2>2. QED  BY <2>1, <1>2
<1>6. c \in Chars
  BY DEF TypeChar
<1>7. Before' = Append(Before, c)
  <2>1. cursor \in Nat /\ BytesOf(Chars, buf, 0, cursor)
    BY LineBytes
  <2>2. PICK s : s = Before
    OBVIOUS
  <2>3. s \in Seq(Chars)
    BY <2>1, <2>2, SequenceIs DEF Before
  <2>4. s \o <<c>> = Append(s, c)
    BY <2>3, <1>6
  <2>5. QED  BY <2>2, <2>4, <1>4, <1>5, Zenon
<1>8. c \in Term!Characters
  BY <1>6, CharactersAre
<1>9. Term!Free > 0
  <2>1. len \in Nat /\ LINE_MAX \in Nat
    BY LineBytes
  <2>2. QED  BY <2>1, <1>1, RoomIs
<1>10. QED
  BY <1>4, <1>7, <1>8, <1>9 DEF Term!Edit, Before, After, Clip

LEMMA IgnoredEdits == ASSUME LineTyped, Ignored  PROVE Term!Edit(c)
<1>1. UNCHANGED <<buf, len, cursor, clipboard, clipboard_len>>
  BY DEF Ignored, line, clip
<1>2. Before' = Before /\ After' = After /\ Clip' = Clip
  BY <1>1, Zenon DEF Before, After, Clip
<1>3. /\ cursor = 0 => Before = <<>>
      /\ cursor = len => After = <<>>
  <2>1. len \in Nat
    BY LineBytes
  <2>2. QED  BY <2>1, NoBytes DEF Before, After
<1>4. CASE c \in {KB_BACK, KB_LEFT} /\ cursor = 0
  BY <1>2, <1>3, <1>4 DEF Term!Edit, Before, After, Clip
<1>5. CASE c = KB_RIGHT /\ cursor = len
  BY <1>2, <1>3, <1>5 DEF Term!Edit, Before, After, Clip
<1>6. CASE c = KB_CTRL_V /\ PasteSize = 0
  <2>1. Term!Fitting = <<>>
    BY <1>6, FittingIs, NoBytes
  <2>2. PICK s : s = Before
    OBVIOUS
  <2>3. s \in Seq(Chars)
    <3>1. cursor \in Nat /\ BytesOf(Chars, buf, 0, cursor)
      BY LineBytes
    <3>2. QED  BY <3>1, <2>2, SequenceIs DEF Before
  <2>4. s \o <<>> = s
    BY <2>3
  <2>5. Before' = Before \o Term!Fitting
    BY <2>1, <2>2, <2>4, <1>2, Zenon
  <2>6. QED  BY <2>5, <1>2, <1>6 DEF Term!Edit, Before, After, Clip
<1>7. CASE c \in Chars /\ len + 1 >= LINE_MAX
  <2>1. len \in Nat /\ LINE_MAX \in Nat /\ len <= LINE_MAX - 1
    BY LineBytes
  <2>2. Term!Free = 0
    BY <2>1, <1>7, RoomIs
  <2>3. c \in Term!Characters
    BY <1>7, CharactersAre
  <2>4. QED  BY <2>2, <2>3, <1>2 DEF Term!Edit, Before, After, Clip
<1>8. QED  BY <1>4, <1>5, <1>6, <1>7 DEF Ignored

LEMMA InitTerminal == Init => Term!Init
<1> SUFFICES ASSUME Init  PROVE Term!Init
  OBVIOUS
<1>1. head = 0 /\ tail = 0 /\ len = 0 /\ cursor = 0 /\ clipboard_len = 0
  BY DEF Init
<1>2. Before = <<>> /\ After = <<>> /\ Clip = <<>>
  BY <1>1, NoBytes DEF Before, After, Clip
<1>3. Waiting = <<>>
  <2>1. RING_SIZE \in Nat \ {0}
    BY KeyboardSizes
  <2>2. TypeOK /\ Count(0, 0) = 0
    BY <2>1, InitTyped DEF Init, TypeInv, Count
  <2>3. Queue(ring, 0, 0) = <<>>
    BY <2>2 DEF Queue
  <2>4. QED  BY <2>2, <2>3, <1>1, WaitingQueue
<1>4. QED
  BY <1>2, <1>3 DEF Term!Init, Before, After, Clip

\* Every step is one of the terminal's, or changes nothing that it shows.
LEMMA NextTerminal ==
    ASSUME TypeInv, TypeInv', [Next]_vars
    PROVE  [Term!Next]_<<Waiting, Before, After, Clip>>
<1>1. TypeOK /\ LineTyped /\ Waits(ring, head, tail) /\ TypeOK'
  BY LineIsTyped DEF TypeInv, KeysWait, Waits
<1>2. /\ head \in 0 .. RING_SIZE - 1 /\ tail \in 0 .. RING_SIZE - 1
      /\ ring \in [0 .. RING_SIZE - 1 -> Keys \cup {Unset}]
  BY <1>1 DEF TypeOK
<1>3. Waiting = Queue(ring, head, tail)
  BY <1>1, WaitingQueue
<1>4. PICK r1, h1, t1 : r1 = ring' /\ h1 = head' /\ t1 = tail'
  OBVIOUS
<1>5. Waiting' = Queue(r1, h1, t1)
  <2>1. TypeOK' => (Waiting = Queue(ring, head, tail))'
    BY WaitingQueue, PTL
  <2>2. (Waiting = Queue(ring, head, tail))'
    BY <2>1, <1>1
  <2>3. QED  BY <2>2, <1>4
<1>6. ASSUME UNCHANGED line
      PROVE  Before' = Before /\ After' = After /\ Clip' = Clip
  BY <1>6 DEF line, clip, Before, After, Clip
<1>7. CASE UNCHANGED <<ring, head, tail, line>>
  <2>1. Waiting' = Waiting
    BY <1>3, <1>4, <1>5, <1>7
  <2>2. QED  BY <2>1, <1>6, <1>7
<1>8. ASSUME NEW code \in Codes, TopHalf(code)
      PROVE  [Term!Next]_<<Waiting, Before, After, Clip>>
  <2>1. UNCHANGED <<tail, line>> /\ (Nothing \/ \E key \in Keys : KbPush(key))
    BY <1>8, TopHalfPushes
  <2>2. CASE Nothing
    BY <2>1, <2>2, <1>7 DEF Nothing
  <2>3. ASSUME NEW key \in Keys, KbPush(key)
        PROVE  [Term!Next]_<<Waiting, Before, After, Clip>>
    <3>1. CASE (head + 1) % RING_SIZE = tail
      <4>1. UNCHANGED <<ring, head>>
        BY <2>3, <3>1 DEF KbPush
      <4>2. QED  BY <4>1, <2>1, <1>7
    <3>2. CASE (head + 1) % RING_SIZE # tail
      <4>1. r1 = [ring EXCEPT ![head] = key] /\ h1 = (head + 1) % RING_SIZE /\ t1 = tail
        BY <2>1, <2>3, <3>2, <1>4 DEF KbPush
      <4>2. h1 # tail
        BY <4>1, <3>2
      <4>3. /\ Len(Waiting) < RING_SIZE - 1
            /\ Waiting' = Append(Waiting, key)
        <5>1. Waits(ring, head, tail) /\ r1 = Put(ring, head, key)
              /\ h1 = (head + 1) % RING_SIZE
          BY <4>1, <1>1 DEF Put
        <5>2. /\ Len(Queue(ring, head, tail)) < RING_SIZE - 1
              /\ Queue(r1, h1, tail) = Append(Queue(ring, head, tail), key)
          BY <5>1, <4>2, <1>2, QueuePushed
        <5>3. QED  BY <5>2, <4>1, <1>3, <1>5
      <4>4. Term!Type
        BY <4>3, <2>1, <1>6 DEF Term!Type, Before, After, Clip
      <4>5. QED  BY <4>4 DEF Term!Next
    <3>3. QED  BY <3>1, <3>2
  <2>4. QED  BY <2>1, <2>2, <2>3
<1>9. CASE Take
  <2>1. head # tail /\ Advance /\ UNCHANGED head
    BY <1>9 DEF Take
  <2>2. r1 = [ring EXCEPT ![tail] = Unset] /\ h1 = head /\ t1 = (tail + 1) % RING_SIZE
    BY <2>1, <1>4 DEF Advance
  <2>3. /\ Queue(ring, head, tail) # <<>> /\ Head(Queue(ring, head, tail)) = ring[tail]
        /\ Queue(r1, head, t1) = Tail(Queue(ring, head, tail))
    <3>1. Waits(ring, head, tail) /\ t1 = (tail + 1) % RING_SIZE
          /\ r1 = Put(ring, tail, Unset) /\ head # tail
      BY <2>1, <2>2, <1>1 DEF Put
    <3>2. WithoutFirst(Queue(ring, head, tail), ring[tail], Queue(r1, head, t1))
      BY <3>1, <1>2, QueueTaken
    <3>3. QED  BY <3>2, Zenon DEF WithoutFirst
  <2>4. Waiting # <<>> /\ Head(Waiting) = c /\ Waiting' = Tail(Waiting)
    BY <2>2, <2>3, <1>3, <1>5 DEF c
  <2>5. Term!Edit(c)
    BY <1>1, <1>9, BackspaceEdits, MovesEdit, CopyEdits, PasteEdits, TypeEdits, IgnoredEdits,
       EnterEdits, Zenon DEF Take
  <2>6. Term!Take
    BY <2>4, <2>5, Zenon DEF Term!Take
  <2>7. QED  BY <2>6, Zenon DEF Term!Next
<1>10. QED  BY <1>7, <1>8, <1>9 DEF Next, vars

\* Scancodes, ring, interrupts and buffers together are the simple terminal:
\* every key that found room is taken once and in order, and does to the line
\* what its name says.
THEOREM KeyboardIsTerminal == Spec => ImplementsTerminal
<1>1. TypeInv /\ TypeInv' /\ [Next]_vars => [Term!Next]_<<Waiting, Before, After, Clip>>
  BY NextTerminal
<1>2. QED
  BY <1>1, InitTerminal, Typed, PTL DEF Spec, ImplementsTerminal, Term!Spec, Before, After, Clip
==============================================================================
