------------------------------ MODULE Keyboard ------------------------------
(***************************************************************************)
(* keyboard.c from the scancodes to the line that kb_readline returns: the *)
(* top half turns bytes into keys and puts them in a ring; the shell takes *)
(* them out one by one and edits a line in its buffer and on the screen.   *)
(* The top half may run between any two steps of the shell.                *)
(*                                                                         *)
(* The line is shown on the screen of module Vga.  What other processes    *)
(* print meanwhile is left out: it spoils the line on the screen, as the   *)
(* comment of keyboard.c says of a scroll.                                 *)
(***************************************************************************)
EXTENDS Vga

CONSTANTS
    Letters,        \* keys that give a character, "c" and "v" among them
    Upper,          \* the character that each gives with shift
    RING_SIZE,      \* slots of the ring (256); one stays free
    LINE_MAX,       \* bytes of the shell's buffer (128)
    CLIPBOARD_MAX,  \* bytes of the clipboard (128)
    Unset,          \* a byte that nobody wrote, or that is stale
    Prompt,         \* what the shell prints before it reads a line
    Outputs,        \* what a command may print before that
    Other,          \* a character that is printed and never typed
    Bar, Copied     \* texts of the status row: statusbar.c's, and a notice

ASSUME KeyboardSizes ==
    /\ {RING_SIZE, LINE_MAX, CLIPBOARD_MAX} \subseteq Nat \ {0}
    /\ {"c", "v"} \subseteq Letters
    /\ LINE_MAX <= CLIPBOARD_MAX

KB_CTRL_C == "^C"
KB_CTRL_V == "^V"
KB_LEFT == "left"
KB_RIGHT == "right"

KB_ENTER == "enter"
KB_BACK == "back"

\* The characters of the two tables.
Chars == Letters \cup {Upper[k] : k \in Letters}
Controls == {KB_ENTER, KB_BACK, KB_CTRL_C, KB_CTRL_V, KB_LEFT, KB_RIGHT}
Keys == Chars \cup Controls

\* The tables give a new line for Enter only, and no code of a KB_ key.
ASSUME KeysAreDistinct == Controls \cap Chars = {} /\ NewLine \notin Chars \cup {Blank}

ASSUME TextsArePrinted ==
    {Prompt} \cup Outputs \subseteq Seq(Chars \cup {Other, Blank, NewLine})

\* Bytes that the controller gives: 0x2A or 0x36, the same | 0x80, 0x1D, 0x9D,
\* 0xE0, 0x4B and 0x4D, 0x1C, 0x0E, the letters and other break codes.
Codes == {"shift", "shift up", "ctrl", "ctrl up", "E0", "4B", "4D", "enter", "back", "up"}
         \cup Letters

VARIABLES
    shift_down, ctrl_down, extended_prefix,     \* what the last bytes were
    ring, head, tail,                           \* the ring
    buf, len, cursor,                           \* kb_readline
    row0, col0,                                 \* where the line begins on the screen
    clipboard, clipboard_len

decoder == <<shift_down, ctrl_down, extended_prefix>>
clip == <<clipboard, clipboard_len>>
line == <<buf, len, cursor, row0, col0, clip>>
vars == <<decoder, ring, head, tail, line, vga>>

\* statusbar_update.  The timer repeats it; since it writes the whole row and
\* nothing else, only the first one is modelled.
StatusBar(s) == StatusLine(s, Bar)

\* vga_init, then the first status bar.
BootScreen ==
    LET s == [mem |-> [i \in TextCells \cup StatusCells |-> Blank], row |-> 0, col |-> 0,
              disturbed |-> FALSE]
    IN StatusBar(s)

\* The shell prints its prompt, and kb_readline notes where the line begins.
\* A scroll between two lines does the next one no harm.
Prompted(s, screen, row, col) ==
    LET p == Puts(s, Prompt) IN
    /\ screen = [p EXCEPT !.disturbed = s.disturbed]
    /\ row = p.row /\ col = p.col

Init ==
    /\ shift_down = FALSE /\ ctrl_down = FALSE /\ extended_prefix = FALSE
    /\ ring = [i \in 0 .. RING_SIZE - 1 |-> Unset]
    /\ head = 0 /\ tail = 0
    /\ buf = [i \in 0 .. LINE_MAX - 1 |-> Unset] /\ len = 0 /\ cursor = 0
    /\ clipboard = [i \in 0 .. CLIPBOARD_MAX - 1 |-> Unset] /\ clipboard_len = 0
    /\ Prompted(BootScreen, vga, row0, col0)

------------------------------------------------------------------------------
(* The top half                                                             *)

\* kb_push
KbPush_NoFullTest(key) ==       \* mutant: head runs over tail
    /\ ring' = [ring EXCEPT ![head] = key]
    /\ head' = (head + 1) % RING_SIZE

KbPush(key) ==
    LET next == (head + 1) % RING_SIZE IN
    IF next = tail THEN UNCHANGED <<ring, head>>
    ELSE ring' = [ring EXCEPT ![head] = key] /\ head' = next

Nothing == UNCHANGED <<ring, head>>

\* A byte after 0xE0: the arrows, and keys that are ignored.
Extended(code) ==
    /\ extended_prefix
    /\ extended_prefix' = FALSE
    /\ CASE code = "4B" -> KbPush(KB_LEFT)
         [] code = "4D" -> KbPush(KB_RIGHT)
         [] OTHER -> Nothing
    /\ UNCHANGED <<shift_down, ctrl_down>>

Modifier(code) ==
    /\ code \in {"shift", "shift up", "ctrl", "ctrl up"}
    /\ shift_down' = IF code \in {"shift", "shift up"} THEN code = "shift" ELSE shift_down
    /\ ctrl_down' = IF code \in {"ctrl", "ctrl up"} THEN code = "ctrl" ELSE ctrl_down
    /\ Nothing
    /\ UNCHANGED extended_prefix

\* Without the prefix 0x4B and 0x4D are beyond the tables.
Pressed(code) ==
    /\ CASE code = "c" /\ ctrl_down -> KbPush(KB_CTRL_C)
         [] code = "v" /\ ctrl_down -> KbPush(KB_CTRL_V)
         [] code = "enter" -> KbPush(KB_ENTER)
         [] code = "back" -> KbPush(KB_BACK)
         [] code \in Letters /\ ~(ctrl_down /\ code \in {"c", "v"}) ->
                KbPush(IF shift_down THEN Upper[code] ELSE code)
         [] OTHER -> Nothing
    /\ UNCHANGED decoder

TopHalf(code) ==
    /\ \/ code = "E0" /\ extended_prefix' = TRUE /\ Nothing /\ UNCHANGED <<shift_down, ctrl_down>>
       \/ code # "E0" /\ Extended(code)
       \/ code # "E0" /\ ~extended_prefix /\ Modifier(code)
       \/ /\ code \notin {"E0", "shift", "shift up", "ctrl", "ctrl up"}
          /\ ~extended_prefix /\ Pressed(code)
    /\ UNCHANGED <<tail, line, vga>>

------------------------------------------------------------------------------
(* kb_getchar; an interrupt before tail has moved finds the slot taken, as  *)
(* one before the read does                                                 *)

c == ring[tail]

\* The slot is free again; ring keeps what nobody reads any more.
Advance == tail' = (tail + 1) % RING_SIZE /\ ring' = [ring EXCEPT ![tail] = Unset]

------------------------------------------------------------------------------
(* kb_readline, one key                                                     *)

\* memmove within mem, or memcpy into it from another array.
Moved(mem, to, src, from, n) ==
    [i \in DOMAIN mem |-> IF to <= i /\ i < to + n THEN src[from + i - to] ELSE mem[i]]

\* The bytes from n on are stale.
Cut(mem, n) == [i \in DOMAIN mem |-> IF i < n THEN mem[i] ELSE Unset]

\* set_cursor_at_index
CursorAt(s, idx) ==
    LET linear == row0 * VGA_COLS + col0 + idx IN
    SetCursor(s, linear \div VGA_COLS, linear % VGA_COLS)

Sequence(mem, from, to) == [k \in 1 .. to - from |-> mem[from + k - 1]]

Redraw_NoBlank(b, n, from, behind, end) ==      \* mutant: the old last cell stays
    vga' = CursorAt(Puts(CursorAt(vga, from), Sequence(b, from, n)), end)

\* redraw_from, what is printed behind it, then the cursor on the index `end`.
Redraw(b, n, from, behind, end) ==
    vga' = CursorAt(Puts(CursorAt(vga, from), Sequence(b, from, n) \o behind), end)

Backspace ==
    /\ c = KB_BACK /\ cursor > 0
    /\ buf' = Cut(Moved(buf, cursor - 1, buf, cursor, len - cursor), len - 1)
    /\ len' = len - 1 /\ cursor' = cursor - 1
    /\ Redraw(buf', len', cursor', <<Blank>>, cursor')
    /\ UNCHANGED <<row0, col0, clip>>

MoveLeft ==
    /\ c = KB_LEFT /\ cursor > 0
    /\ cursor' = cursor - 1 /\ vga' = CursorAt(vga, cursor')
    /\ UNCHANGED <<buf, len, row0, col0, clip>>

MoveRight ==
    /\ c = KB_RIGHT /\ cursor < len
    /\ cursor' = cursor + 1 /\ vga' = CursorAt(vga, cursor')
    /\ UNCHANGED <<buf, len, row0, col0, clip>>

CopyLine ==
    /\ c = KB_CTRL_C
    /\ LET n == IF len < CLIPBOARD_MAX - 1 THEN len ELSE CLIPBOARD_MAX - 1 IN
       /\ clipboard' = Cut(Moved(clipboard, 0, buf, 0, n), n)
       /\ clipboard_len' = n
    /\ vga' = CursorAt(StatusLine(vga, Copied), cursor)
    /\ UNCHANGED <<buf, len, cursor, row0, col0>>

\* Opens a gap of n bytes at the cursor for those of src.
Insert(src, n) ==
    /\ buf' = Moved(Moved(buf, cursor + n, buf, cursor, len - cursor), cursor, src, 0, n)
    /\ len' = len + n /\ cursor' = cursor + n
    /\ Redraw(buf', len', cursor, <<>>, cursor')
    /\ UNCHANGED <<row0, col0, clip>>

PasteSize == IF len + clipboard_len >= LINE_MAX THEN LINE_MAX - 1 - len ELSE clipboard_len

PasteLine ==
    /\ c = KB_CTRL_V /\ PasteSize > 0
    /\ Insert(clipboard, PasteSize)

TypeChar ==
    /\ c \in Chars /\ len + 1 < LINE_MAX
    /\ Insert([i \in {0} |-> c], 1)

Ignored ==
    /\ \/ c \in {KB_BACK, KB_LEFT} /\ cursor = 0
       \/ c = KB_RIGHT /\ cursor = len
       \/ c = KB_CTRL_V /\ PasteSize = 0
       \/ c \in Chars /\ len + 1 >= LINE_MAX
    /\ UNCHANGED <<line, vga>>

\* The line is returned and carried out; the next one begins after what that
\* prints and the prompt.
EnterLine ==
    /\ c = KB_ENTER
    /\ buf' = [i \in DOMAIN buf |-> Unset] /\ len' = 0 /\ cursor' = 0
    /\ LET below == Putc(CursorAt(vga, len), NewLine) IN
       \/ \E out \in Outputs :
             Prompted([Puts(below, out) EXCEPT !.disturbed = vga.disturbed], vga', row0', col0')
       \/ Prompted(Clear(below), vga', row0', col0')
    /\ UNCHANGED clip

Take ==
    /\ head # tail
    /\ Advance
    /\ Backspace \/ MoveLeft \/ MoveRight \/ CopyLine \/ PasteLine \/ TypeChar
       \/ Ignored \/ EnterLine
    /\ UNCHANGED <<decoder, head>>

Next == Take \/ \E code \in Codes : TopHalf(code)

Spec == Init /\ [][Next]_vars

------------------------------------------------------------------------------
(* Properties                                                               *)

TypeOK ==
    /\ head \in 0 .. RING_SIZE - 1 /\ tail \in 0 .. RING_SIZE - 1
    /\ ring \in [0 .. RING_SIZE - 1 -> Keys \cup {Unset}]
    /\ len \in 0 .. LINE_MAX - 1 /\ cursor \in 0 .. len
    /\ buf \in [0 .. LINE_MAX - 1 -> Chars \cup {Unset}]
    /\ clipboard_len \in 0 .. CLIPBOARD_MAX - 1
    /\ clipboard \in [0 .. CLIPBOARD_MAX - 1 -> Chars \cup {Unset}]

\* Until the text scrolls under a line that is being edited, and again from the
\* next `clear` on, the screen shows the line from where it began, with nothing
\* of an older one behind it, and the cursor is where the next character goes.
ScreenShowsLine ==
    vga.disturbed \/
    LET start == Cell(row0) + col0 IN
    /\ \A i \in TextCells : i >= start =>
          vga.mem[i] = IF i < start + len THEN buf[i - start] ELSE Blank
    /\ Cell(vga.row) + vga.col = start + cursor

\* Whatever is printed, typed and scrolled, the status row holds what was last
\* put there with vga_status_line ("esta fila nunca se toca").
StatusRowIsKept == \A i \in StatusCells : vga.mem[i] \in {Bar, Copied}

Waiting == [k \in 1 .. (head - tail) % RING_SIZE |-> ring[(tail + k - 1) % RING_SIZE]]

Term == INSTANCE Terminal WITH
    MAX_KEYS <- RING_SIZE - 1, MAX_LINE <- LINE_MAX - 1,
    Enter <- KB_ENTER, Back <- KB_BACK, Left <- KB_LEFT, Right <- KB_RIGHT,
    Copy <- KB_CTRL_C, Paste <- KB_CTRL_V,
    typed <- Waiting, before <- Sequence(buf, 0, cursor), after <- Sequence(buf, cursor, len),
    clip <- Sequence(clipboard, 0, clipboard_len)

\* Scancodes, ring, interrupts and buffers together are the simple terminal:
\* no key is lost but for a full ring, none is taken twice or out of order,
\* and none changes the line but where the cursor is.
ImplementsTerminal == Term!Spec
==============================================================================
