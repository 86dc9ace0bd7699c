--------------------------------- MODULE Irq ---------------------------------
(***************************************************************************)
(* Interrupts as interrupt.c, idt.c and the stubs of isr.s handle them: a  *)
(* line raised by a device waits in the controller until the CPU runs with *)
(* interrupts enabled; the top half then runs to its end with them         *)
(* disabled and marks the line pending; the scheduler runs the bottom half *)
(* of the pending lines and wakes the sleepers.                            *)
(*                                                                         *)
(* Only the two lines that a driver registers exist: the timer (event      *)
(* 1000) and the keyboard (event 2000).  The keyboard's ring buffer is     *)
(* abstracted to the number of characters in it.                           *)
(***************************************************************************)
EXTENDS Integers

CONSTANT RING_SIZE      \* slots of the keyboard ring (256); one stays free

ASSUME RingHasRoom == RING_SIZE \in Nat \ {0, 1}

TIMER == 0
KEYBOARD == 1
Lines == {TIMER, KEYBOARD}

VARIABLES
    irr,        \* lines raised by their device and not yet taken by the CPU
    pending,    \* irq_table[i].pending
    kb,         \* characters in the keyboard ring
    iflag       \* EFLAGS.IF of the CPU

irqVars == <<irr, pending, kb, iflag>>

IrqTypeOK ==
    /\ irr \in SUBSET Lines
    /\ pending \in SUBSET Lines
    /\ kb \in 0 .. RING_SIZE - 1
    /\ iflag \in BOOLEAN

(* kernel_main turns interrupts on before it starts the scheduler.         *)
IrqInit ==
    /\ irr = {}
    /\ pending = {}
    /\ kb = 0
    /\ iflag = TRUE

(* A device raises its line; while the line waits it cannot be raised again. *)
Raise(i) ==
    /\ i \notin irr
    /\ irr' = irr \cup {i}
    /\ UNCHANGED <<pending, kb, iflag>>

(* kb_push: a full ring drops the character.                               *)
KbPush_NoFullTest == kb' = kb + 1       \* mutant: head runs over tail
KbPush == kb' = IF kb = RING_SIZE - 1 THEN kb ELSE kb + 1

(* The top half of the keyboard pushes a character or, for a shift, a      *)
(* break code or a prefix, none; the timer's only counts jiffies.          *)
TopHalf(i) ==
    \/ i = KEYBOARD /\ KbPush
    \/ UNCHANGED kb

(* irq_handler on line i: top half, pending, end of interrupt; iret gives  *)
(* IF back as it was.                                                      *)
IrqDispatch(i) ==
    /\ iflag
    /\ i \in irr
    /\ irr' = irr \ {i}
    /\ TopHalf(i)
    /\ pending' = pending \cup {i}
    /\ UNCHANGED iflag
==============================================================================
