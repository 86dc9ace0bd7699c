--------------------------------- MODULE Vga ---------------------------------
(***************************************************************************)
(* The text screen of vga.c: rows that scroll and, below them, the row of  *)
(* the status bar.  A screen is a record, and what vga.c does to it are    *)
(* functions, since one step of a process prints as much as it likes.      *)
(* Colours, the serial port and the registers of the cursor are left out.  *)
(***************************************************************************)
EXTENDS Integers, Sequences

CONSTANTS
    VGA_COLS,       \* 80
    VGA_TEXT_ROWS,  \* 24
    Blank,          \* a space
    NewLine

ASSUME ScreenSizes == {VGA_COLS, VGA_TEXT_ROWS} \subseteq Nat \ {0}

VGA_STATUS_ROW == VGA_TEXT_ROWS

\* Index of the first cell of a row.
Cell(row) == row * VGA_COLS
TextCells == 0 .. Cell(VGA_TEXT_ROWS) - 1
StatusCells == Cell(VGA_STATUS_ROW) .. Cell(VGA_STATUS_ROW + 1) - 1

\* [mem |-> the cells, row, col |-> the cursor,
\*  disturbed |-> history: the text has scrolled since it was cleared]
VARIABLE vga

\* vga_clear; the status row is kept.
Clear(s) ==
    [s EXCEPT !.mem = [i \in DOMAIN s.mem |-> IF i \in TextCells THEN Blank ELSE s.mem[i]],
              !.row = 0, !.col = 0, !.disturbed = FALSE]

Scroll(s) ==
    [s EXCEPT !.mem = [i \in DOMAIN s.mem |->
                           IF i \notin TextCells THEN s.mem[i]
                           ELSE IF i + VGA_COLS \in TextCells THEN s.mem[i + VGA_COLS]
                           ELSE Blank],
              !.row = VGA_TEXT_ROWS - 1,
              !.disturbed = TRUE]

\* Where the cursor goes after a character, before the screen scrolls.
Advanced(s, ch) ==
    IF ch = NewLine THEN [s EXCEPT !.col = 0, !.row = @ + 1]
    ELSE LET put == [s EXCEPT !.mem[Cell(s.row) + s.col] = ch] IN
         IF s.col + 1 >= VGA_COLS THEN [put EXCEPT !.col = 0, !.row = @ + 1]
         ELSE [put EXCEPT !.col = @ + 1]

Putc_LateScroll(s, ch) ==       \* mutant: the limit is the whole screen
    LET n == Advanced(s, ch) IN IF n.row > VGA_TEXT_ROWS THEN Scroll(n) ELSE n
Putc(s, ch) ==
    LET n == Advanced(s, ch) IN IF n.row >= VGA_TEXT_ROWS THEN Scroll(n) ELSE n

\* The screen after each character, and the last of them.
Puts(s, text) ==
    LET after[n \in 0 .. Len(text)] == IF n = 0 THEN s ELSE Putc(after[n - 1], text[n])
    IN  after[Len(text)]

\* vga_set_cursor, of rows and columns that are never negative here.
SetCursor(s, row, col) ==
    [s EXCEPT !.row = IF row >= VGA_TEXT_ROWS THEN VGA_TEXT_ROWS - 1 ELSE row,
              !.col = IF col >= VGA_COLS THEN VGA_COLS - 1 ELSE col]

\* vga_status_line; which text it is, not its characters.
StatusLine(s, text) ==
    [s EXCEPT !.mem = [i \in DOMAIN s.mem |-> IF i \in StatusCells THEN text ELSE s.mem[i]]]
==============================================================================
