--------------------------------- MODULE Trap ---------------------------------
(***************************************************************************)
(* How an exception, an interrupt or a system call gets from the program   *)
(* it stops to the code in C that handles it, and back: the gates of       *)
(* idt.c, the segments of gdt.c, the stubs of isr.s, the controllers as    *)
(* idt.c programs them, isr_handler, irq_handler and syscall_dispatch.     *)
(*                                                                         *)
(* Nothing here has a state of its own.  A context is what the CPU has of  *)
(* the code it runs; a trap turns it into a stack, a handler changes words *)
(* of that stack, and the way out of the stub turns it into a context.     *)
(* Words are left abstract, but for the ones that the code compares.  es,  *)
(* fs and gs follow ds everywhere and are left out.                        *)
(***************************************************************************)
EXTENDS Integers, Sequences

CONSTANT REAP       \* the address of kernel_reap_current_process

-----------------------------------------------------------------------------
(* The segments of gdt.c: a selector is 8 * index + the level asked for.   *)

Access == <<0, 154, 146, 250, 242, 137>>    \* the access bytes of gdt[0 .. 5]

KERNEL_CODE == 8
KERNEL_DATA == 16
USER_CODE == 27
USER_DATA == 35
TSS_SELECTOR == 40

Level(selector) == selector % 4
AccessOf(selector) == Access[(selector \div 8) + 1]
LevelOfSegment(selector) == (AccessOf(selector) \div 32) % 4
IsCode(selector) == (AccessOf(selector) \div 8) % 4 = 3
IsData(selector) == (AccessOf(selector) \div 8) % 4 = 2

-----------------------------------------------------------------------------
(* The gates of idt_init: all are interrupt gates to KERNEL_CODE.          *)

Vectors == 0 .. 255
Exceptions == 0 .. 31
Irqs == 0 .. 15
SYSCALL == 128
GENERAL_PROTECTION == 13

Present(n) == n \in Exceptions \/ n - 32 \in Irqs \/ n = SYSCALL
GateLevel(n) == IF n = SYSCALL THEN 3 ELSE 0

(* The CPU: the vector that `int n` raises, run at a level.                *)
RaisedBySoftware(n, level) ==
    IF Present(n) /\ level <= GateLevel(n) THEN n ELSE GENERAL_PROTECTION

(* The exceptions for which the CPU pushes an error code, and the stubs    *)
(* that count on it (ISR_ERR).                                             *)
PushesError == {8, 10, 11, 12, 13, 14, 17, 21, 29, 30}
ExpectsError == {8, 10, 11, 12, 13, 14}

-----------------------------------------------------------------------------
(* A stack: word 0 is on top.                                              *)

Stacks(Word) == [Nat -> Word]
Push(words, s) ==
    [k \in Nat |-> IF k < Len(words) THEN words[k + 1] ELSE s[k - Len(words)]]
Drop(n, s) == [k \in Nat |-> s[k + n]]

(* A context.  user is <<esp, ss>> of ring 3, and empty in ring 0, where   *)
(* the code runs on the stack of the kernel.  For ring 3, stack is what    *)
(* lies above the esp0 of the TSS.                                         *)
General == {"edi", "esi", "ebp", "ebx", "edx", "ecx", "eax"}

Contexts(Word) ==
    [eip : Word, cs : {KERNEL_CODE, USER_CODE}, iflag : BOOLEAN,
     user : {<<>>} \cup (Word \X Word), stack : Stacks(Word),
     ds : Word, general : [General -> Word]]

Ring3(c) == Level(c.cs) = 3

(* Code of ring 3 has a stack of its own, and only it.                     *)
IsContext(c, Word) == c \in Contexts(Word) /\ (Ring3(c) <=> c.user # <<>>)

(* The CPU, on its way to the stub of vector n.                            *)
CpuPushes(n, c, error) ==
    LET place == Push(<<c.eip, c.cs, c.iflag>>, Push(c.user, c.stack))
    IN IF n \in PushesError THEN Push(<<error>>, place) ELSE place

StubPushes(n, s) == Push(IF n \in ExpectsError THEN <<n>> ELSE <<n, 0>>, s)

(* popa skips the word that pusha has for esp: any word does for it.       *)
CommonWords(c) ==
    <<c.ds, c.general.edi, c.general.esi, c.general.ebp, 0,
      c.general.ebx, c.general.edx, c.general.ecx, c.general.eax>>

Entered(n, c, error) == Push(CommonWords(c), StubPushes(n, CpuPushes(n, c, error)))

(* struct registers: where the handler finds a field.                      *)
DS == 0
EAX == 8
INT_NO == 9
ERR_CODE == 10
EIP == 11
CS == 12
EFLAGS == 13

(* The end of the stubs: pop ds, popa, drop two words, iret.  Only an iret *)
(* to ring 3 pops a stack pointer.                                         *)
Returned(s) ==
    LET toRing3 == Level(s[CS]) = 3
    IN [eip |-> s[EIP], cs |-> s[CS], iflag |-> s[EFLAGS],
        user |-> IF toRing3 THEN <<s[EFLAGS + 1], s[EFLAGS + 2]>> ELSE <<>>,
        stack |-> Drop(EFLAGS + (IF toRing3 THEN 3 ELSE 1), s),
        ds |-> s[DS],
        general |-> [edi |-> s[1], esi |-> s[2], ebp |-> s[3],
                     ebx |-> s[5], edx |-> s[6], ecx |-> s[7], eax |-> s[EAX]]]

(* isr_handler: a system call leaves its result in eax; an exception of    *)
(* ring 3 goes on in the kernel, to end the process; one of ring 0 stops   *)
(* the machine.                                                            *)
Halts(s) == s[INT_NO] # SYSCALL /\ Level(s[CS]) # 3

IsrHandler(s, result) ==
    IF s[INT_NO] = SYSCALL THEN [s EXCEPT ![EAX] = result]
    ELSE [s EXCEPT ![EIP] = REAP, ![CS] = KERNEL_CODE]

(* enter_ring3: the iret that starts a program, with interrupts enabled.   *)
EnteredRing3(c, entry, esp) ==
    [c EXCEPT !.eip = entry, !.cs = USER_CODE, !.iflag = TRUE,
              !.user = <<esp, USER_DATA>>, !.ds = USER_DATA]

-----------------------------------------------------------------------------
(* The controllers: pic_remap gives the lines of the first the vectors     *)
(* from 0x20, and those of the second, which hangs on line 2, from 0x28.   *)

CASCADE == 2
ControllersOf(line) == IF line < 8 THEN {1} ELSE {1, 2}
VectorOf(line) == IF line < 8 THEN 32 + line ELSE 40 + (line - 8)

(* irq_handler: the line it dispatches, and the controllers it tells.      *)
DispatchedLine(s) == s[INT_NO] - 32
Acknowledged(line) == IF line >= 8 THEN {2, 1} ELSE {1}

(* idt_init masks every line, and irq_register opens the one it is given.  *)
OpenLines(registered) == Irqs \ (Irqs \ registered)

(* The controllers: a line of the second gets through the first.           *)
GetsThrough(line, registered) ==
    /\ line \in OpenLines(registered)
    /\ line >= 8 => CASCADE \in OpenLines(registered)

-----------------------------------------------------------------------------
(* timer_init: the divisor goes to the PIT in two bytes; the PIT counts from  *)
(* 65536 when it is told 0.                                                   *)
PIT_FREQ == 1193182
PitBytes(hz) == <<(PIT_FREQ \div hz) % 256, ((PIT_FREQ \div hz) \div 256) % 256>>
PitDivisor(bytes) == IF bytes = <<0, 0>> THEN 65536 ELSE bytes[1] + bytes[2] * 256

-----------------------------------------------------------------------------
(* syscall_dispatch: what may come back in eax of call num, a, b and count *)
(* being its first arguments; the calls that do not come back have none.   *)

EINVAL == 1
ENOSYS == 5

SysRead(fd, count) == IF fd = 0 THEN 0 .. count ELSE {EINVAL}
SysWrite(fd, count) == IF fd \in {1, 2} THEN {count} ELSE {EINVAL}

(* sys_ioctl: video mode, pixel, clear; the clock; an argument for tests.  *)
SysIoctl(request, arg1, Word) ==
    CASE request \in {1, 2, 3} -> {0}
      [] request = 4 -> IF arg1 = 0 THEN {EINVAL} ELSE {0}
      [] request = 5 -> Word
      [] OTHER -> {ENOSYS}

NotImplemented == {1, 4, 6, 7, 8, 12}   \* fork open socket send recv mmap
AlwaysZero == {5, 10, 13, 14}           \* close free munmap yield

SyscallResults(num, a, b, count, Word) ==
    CASE num = 0 -> {}                              \* exit
      [] num = 2 -> SysRead(a, count)
      [] num = 3 -> SysWrite(a, count)
      [] num \in AlwaysZero -> {0}
      [] num = 9 -> Word                            \* malloc
      [] num = 11 -> SysIoctl(a, b, Word)
      [] num \in NotImplemented -> {ENOSYS}
      [] OTHER -> {EINVAL}
==============================================================================
