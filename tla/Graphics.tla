------------------------------- MODULE Graphics -------------------------------
(***************************************************************************)
(* The graphics mode of graphics.c: how gfx_set_mode programs the VGA, and  *)
(* which bytes the drawing functions write.                                 *)
(***************************************************************************)
EXTENDS Integers

GFX_MODE_TEXT_80x25 == 0
GFX_MODE_VGA_320x200 == 1

\* The tables: the miscellaneous register, 5 of the sequencer, 25 of the CRT
\* controller, 9 of the graphics controller and 21 of the attributes.
REGISTERS == 61

RegsText == <<
    103,   3, 0, 3, 0, 2,
    95, 79, 80, 130, 85, 129, 191, 31, 0, 79, 13, 14, 0, 0, 0, 80,
    156, 14, 143, 40, 31, 150, 185, 163, 255,
    0, 0, 0, 0, 0, 16, 14, 0, 255,
    0, 1, 2, 3, 4, 5, 6, 7, 8, 9, 10, 11, 12, 13, 14, 15, 12, 0, 15, 8, 0>>

RegsMode13h == <<
    99,   3, 1, 15, 0, 14,
    95, 79, 80, 130, 84, 128, 191, 31, 0, 65, 0, 0, 0, 0, 0, 0,
    156, 14, 143, 40, 64, 150, 185, 163, 255,
    0, 0, 0, 0, 0, 64, 5, 15, 255,
    0, 1, 2, 3, 4, 5, 6, 7, 8, 9, 10, 11, 12, 13, 14, 15, 65, 0, 15, 0, 0>>

\* Bit 7 of a byte.
WithBit7(v) == IF v >= 128 THEN v ELSE v + 128
WithoutBit7(v) == v % 128

------------------------------------------------------------------------------
(* The CRT controller: while bit 7 of its register 17 is set, writes to its *)
(* first eight registers are lost.                                          *)

Protected(crtc) == crtc[17] >= 128

WriteCrtc(crtc, i, v) ==
    IF i <= 7 /\ Protected(crtc) THEN crtc ELSE [crtc EXCEPT ![i] = v]

\* vga_write_registers unlocks the first eight ...
Unlocked(crtc) ==
    LET retraced == WriteCrtc(crtc, 3, WithBit7(crtc[3]))
    IN WriteCrtc(retraced, 17, WithoutBit7(retraced[17]))

\* ... and writes all of them in order, those of the table but for two bits.
\* The lock is in a register that comes after the eight it guards.
CrtcOf(regs) ==
    [i \in 0 .. 24 |-> IF i = 3 THEN WithBit7(regs[i + 7])
                       ELSE IF i = 17 THEN WithoutBit7(regs[i + 7]) ELSE regs[i + 7]]

CrtcWritten(crtc, regs) ==
    [i \in 0 .. 24 |-> IF i <= 7 /\ Protected(crtc) THEN crtc[i] ELSE CrtcOf(regs)[i]]

WriteRegisters(vga, regs) ==
    [misc |-> regs[1],
     seq |-> [i \in 0 .. 4 |-> regs[i + 2]],
     crtc |-> CrtcWritten(Unlocked(vga.crtc), regs),
     gc |-> [i \in 0 .. 8 |-> regs[i + 32]],
     ac |-> [i \in 0 .. 20 |-> regs[i + 41]],
     lit |-> TRUE]

\* gfx_set_mode: every number but one means text.
RegsOf(mode) == IF mode = GFX_MODE_VGA_320x200 THEN RegsMode13h ELSE RegsText
SetMode(vga, mode) == [regs |-> WriteRegisters(vga, RegsOf(mode)), current_mode |-> mode]

------------------------------------------------------------------------------
(* Drawing.  A function is given by the bytes of the frame buffer it writes. *)

WIDTH == 320
HEIGHT == 200
Frame == {n \in Nat : n < WIDTH * HEIGHT}

OnScreen(x, y) == x \in 0 .. WIDTH - 1 /\ y \in 0 .. HEIGHT - 1

\* gfx_putpixel
PixelAt(x, y) == IF OnScreen(x, y) THEN {y * WIDTH + x} ELSE {}

\* gfx_hline and gfx_rect put their pixels one by one.
Hline(x, y, w) == UNION {PixelAt(x + i, y) : i \in 0 .. w - 1}
Rect(x, y, w, h) == UNION {Hline(x, y + j, w) : j \in 0 .. h - 1}

\* What the frame buffer holds afterwards; in text mode nothing is drawn.
Painted(mode, frame, bytes, color) ==
    IF mode = GFX_MODE_VGA_320x200
    THEN [n \in Frame |-> IF n \in bytes THEN color ELSE frame[n]]
    ELSE frame

\* gfx_clear
ClearFrame(mode, frame, color) == Painted(mode, frame, Frame, color)
==============================================================================
