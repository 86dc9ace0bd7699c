------------------------------- MODULE Segments -------------------------------
(* The descriptors that gdt.c and idt.c pack, and what the CPU reads in them.   *)
(* Module Trap has the selectors and the gates by their meaning; here are the   *)
(* fields they are spread over.                                                 *)
EXTENDS Words

-----------------------------------------------------------------------------
(* gdt_set_entry: base and limit go to three and two fields; of gran only the *)
(* upper half is kept, beside the upper bits of the limit.                    *)
GdtEntry(base, limit, access, gran) ==
    [base_low |-> base % HALF, base_mid |-> (base \div HALF) % BYTE,
     base_high |-> (base \div BYTE3) % BYTE,
     limit_low |-> limit % HALF,
     granularity |-> ((limit \div HALF) % 16) + 16 * (gran \div 16),
     access |-> access]

(* The CPU: the first byte of a segment, and the last, counted from there.    *)
(* Bit 7 of granularity makes the limit one of pages.                         *)
Base(e) == e.base_low + e.base_mid * HALF + e.base_high * BYTE3
Limit(e) ==
    LET raw == e.limit_low + (e.granularity % 16) * HALF
    IN IF e.granularity \div 128 = 1 THEN raw * 4096 + 4095 ELSE raw

(* gdt_init and tss_init: what entry 1 .. 5 of the table is made of.          *)
FLAT_LIMIT == 4294967295
FLAT_GRAN == 207
Flat(access) == GdtEntry(0, FLAT_LIMIT, access, FLAT_GRAN)

TSS_SIZE == 25 * 4 + 2 * 2
TssEntry(tss) == GdtEntry(tss, TSS_SIZE - 1, 137, 0)
IOMAP_BASE == TSS_SIZE

(* gdtp.limit, and the CPU: a selector must lie within it.                    *)
GDT_LIMIT == 6 * 8 - 1
InTable(selector) == (selector - (selector % 8)) + 7 <= GDT_LIMIT

(* The CPU: code of ring 3, whose eflags have no I/O privilege, may use a     *)
(* port only if its bit, and the byte after it, lie within the TSS.           *)
PortIsOpen(port, tss) == IOMAP_BASE + (port \div 8) + 1 <= Limit(TssEntry(tss))

-----------------------------------------------------------------------------
(* idt_set_gate, and the CPU: where a gate leads.                             *)
IdtGate(handler, sel, flags) ==
    [offset_low |-> handler % HALF, offset_high |-> (handler \div HALF) % HALF,
     selector |-> sel, zero |-> 0, type_attr |-> flags]

Offset(gate) == gate.offset_low + gate.offset_high * HALF

(* The kinds of gates that idt_init sets, and the CPU: the level that may use *)
(* a gate by `int`, and whether it clears IF.                                 *)
KERNEL_GATE == 142
USER_GATE == 238
LevelOfGate(gate) == (gate.type_attr \div 32) % 4
IsInterruptGate(gate) == gate.type_attr % 16 = 14 /\ gate.type_attr \div 128 = 1

=============================================================================
