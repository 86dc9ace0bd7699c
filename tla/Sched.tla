-------------------------------- MODULE Sched --------------------------------
(***************************************************************************)
(* The running kernel: one CPU, the cooperative scheduler of process.c,    *)
(* context_switch and the interrupt stubs of isr.s, and the programs that  *)
(* call into them.  It composes the process table (module ProcTable) and   *)
(* the interrupts (module Irq).                                            *)
(*                                                                         *)
(* One step is one stretch of kernel code between two points where an      *)
(* interrupt can change what the next stretch sees; an interrupt (top half *)
(* to its end) can come before any of them while IF is set.                *)
(***************************************************************************)
EXTENDS ProcTable, Irq

CONSTANTS
    Commands,       \* the shell commands of this instance
    GOPHERD_TICKS   \* how often gopherd_main yields before it exits (3)

ASSUME ProgramConstants ==
    /\ Commands \subseteq {"exec", "ring3demo", "gopherserve", "gopherpy", "kill",
                           "demo", "ping", "exit"}
    /\ GOPHERD_TICKS \in Nat \ {0}

NoProc == -1        \* current = NULL
SHELL == 1          \* the slot kernel_main gives the shell

VARIABLES
    at,     \* at[s]: the call site where process s really is
    cur,    \* current, as a slot
    pc,     \* what the CPU is executing, see Points
    hi,     \* i in the loop of irq_run_bottom_halves
    cr3,    \* the address space the CPU translates with
    tss,    \* the slot whose kernel stack is in the TSS
    ticks   \* yields gopherd still has to do

vars == <<tableVars, irqVars, at, cur, pc, hi, cr3, tss, ticks>>

Points == {"boot",      \* kernel_main, about to call scheduler_run
           "run",       \* code of process cur, at the site at[cur]
           "sleep",     \* kb_getchar has seen the ring empty
           "halves",    \* irq_run_bottom_halves, about to test line hi
           "wakeup",    \* ... has cleared line hi, about to wake its sleepers
           "scan",      \* proc_yield, about to look for a READY process
           "hlt",       \* ... found none: about to execute sti; hlt
           "asleep",    \* halted until an interrupt
           "dead"}      \* halted for good

CpuTypeOK ==
    /\ at \in [Slots -> Sites]
    /\ cur \in Slots \cup {NoProc}
    /\ pc \in Points
    /\ hi \in Lines
    /\ cr3 \in Spaces \cup {KERNEL_SPACE, 0}
    /\ tss \in Slots \cup {NoProc}
    /\ ticks \in 0 .. GOPHERD_TICKS

TypeOK == TableTypeOK /\ IrqTypeOK /\ CpuTypeOK

Init ==
    /\ TableInit
    /\ IrqInit
    /\ at = [s \in Slots |-> "entry"]
    /\ cur = NoProc
    /\ pc = "boot"
    /\ hi = TIMER
    /\ cr3 = KERNEL_SPACE
    /\ tss = NoProc
    /\ ticks = GOPHERD_TICKS

-----------------------------------------------------------------------------
(* proc_yield.                                                             *)

(* The current process calls proc_yield from the given call site.          *)
YieldAt(site) ==
    /\ at' = [at EXCEPT ![cur] = site]
    /\ pc' = "halves"
    /\ hi' = TIMER
    /\ UNCHANGED <<cur, cr3, tss>>

(* The loop of irq_run_bottom_halves moves on to the next line.            *)
NextLine ==
    /\ pc' = IF hi = KEYBOARD THEN "scan" ELSE "halves"
    /\ hi' = IF hi = KEYBOARD THEN TIMER ELSE hi + 1
    /\ UNCHANGED <<at, cur, cr3, tss, ticks>>

SkipLine ==
    /\ pc = "halves"
    /\ hi \notin pending
    /\ NextLine
    /\ UNCHANGED <<tableVars, irqVars>>

(* The line is cleared first, then its bottom half runs (the status bar or *)
(* nothing) ...                                                            *)
BottomHalf ==
    /\ pc = "halves"
    /\ hi \in pending
    /\ pending' = pending \ {hi}
    /\ pc' = "wakeup"
    /\ UNCHANGED <<tableVars, irr, kb, iflag, at, cur, hi, cr3, tss, ticks>>

(* ... and then the processes that sleep on its event are woken.           *)
Wakeup ==
    /\ pc = "wakeup"
    /\ ProcWakeup(hi)
    /\ NextLine
    /\ UNCHANGED irqVars

(* How far slot n is behind the current one in the round-robin scan, which *)
(* ends with the current slot itself.                                      *)
Distance_FromZero(n) == n       \* mutant: every scan starts at slot 0
Distance(n) == (n - cur - 1) % MAX_PROCESSES

NextReady(n) ==
    /\ state[n] = "READY"
    /\ \A m \in WithState("READY") : Distance(n) <= Distance(m)

(* context_switch(&prev->esp, current->esp).  The second argument is read  *)
(* before the call, so a process that switches to itself gets the esp of   *)
(* its switch before this one.  When that depth is not the one it is at,   *)
(* the frame there is stale: the CPU either resumes from it, at the older  *)
(* call site, or pops what was overwritten and ends in the panic of        *)
(* isr_handler with interrupts off.                                        *)
ContextSwitch(n) ==
    /\ saved' = IF cur = NoProc THEN saved ELSE [saved EXCEPT ![cur] = at[cur]]
    /\ \/ /\ at' = [at EXCEPT ![n] = saved[n]]
          /\ pc' = "run"
          /\ UNCHANGED iflag
       \/ /\ n = cur
          /\ saved[n] # at[n]
          /\ pc' = "dead"
          /\ iflag' = FALSE
          /\ UNCHANGED at

(* The states after slot n got the CPU: the previous process is READY again *)
(* only if it was running and is not n itself.                             *)
Handover_NoSelfTest(n) ==       \* mutant: the comparison prev != current is missing
    [s \in Slots |-> IF s = cur /\ state[s] \in {"RUNNING", "READY"} THEN "READY"
                     ELSE IF s = n THEN "RUNNING"
                     ELSE state[s]]
Handover(n) ==
    [s \in Slots |-> IF s = n THEN "RUNNING"
                     ELSE IF s = cur /\ state[s] = "RUNNING" THEN "READY"
                     ELSE state[s]]

(* The page directory of slot n, and its kernel stack if it needs one.     *)
LoadContext_LazyCr3(n) ==       \* mutant: a ring-0 process keeps the last CR3
    /\ cr3' = IF IsRing3(n) THEN space[n] ELSE cr3
    /\ tss' = IF IsRing3(n) THEN n ELSE tss
LoadContext_NoTss(n) ==         \* mutant: esp0 is loaded only for the first ring-3 process
    /\ cr3' = space[n]
    /\ tss' = IF IsRing3(n) /\ tss = NoProc THEN n ELSE tss
LoadContext(n) ==
    /\ cr3' = space[n]
    /\ tss' = IF IsRing3(n) THEN n ELSE tss

(* The branch of the scan that found slot n; scheduler_run does the same   *)
(* from its boot context, whose esp nobody loads again.                    *)
SwitchTo(n) ==
    /\ NextReady(n)
    /\ state' = Handover(n)
    /\ cur' = n
    /\ LoadContext(n)
    /\ ContextSwitch(n)
    /\ UNCHANGED <<prog, region, space, blockedOn, inUse,
                   irr, pending, kb, hi, ticks>>

SchedulerRun == pc = "boot" /\ \E n \in Slots : SwitchTo(n)

Switch == pc = "scan" /\ \E n \in Slots : SwitchTo(n)

(* The three exits of a scan that found nobody READY.                      *)
NobodyReady == pc = "scan" /\ \A n \in Slots : ~NextReady(n)

SomebodyLeft == WithState("BLOCKED") \cup WithState("READY") # {}

StopScanning(point) ==
    /\ pc' = point
    /\ UNCHANGED <<tableVars, irqVars, at, cur, hi, cr3, tss, ticks>>

YieldReturns ==
    /\ NobodyReady
    /\ state[cur] = "RUNNING"
    /\ StopScanning("run")

SystemStopped ==
    /\ NobodyReady
    /\ state[cur] # "RUNNING"
    /\ ~SomebodyLeft
    /\ StopScanning("dead")

GoIdle ==
    /\ NobodyReady
    /\ state[cur] # "RUNNING"
    /\ SomebodyLeft
    /\ StopScanning("hlt")

StiHlt ==
    /\ pc = "hlt"
    /\ iflag' = TRUE
    /\ pc' = "asleep"
    /\ UNCHANGED <<tableVars, irr, pending, kb, at, cur, hi, cr3, tss, ticks>>

(* An interrupt, from any code; it ends the hlt of proc_yield.             *)
Interrupt(i) ==
    /\ IrqDispatch(i)
    /\ pc' = IF pc = "asleep" THEN "halves" ELSE pc
    /\ UNCHANGED <<tableVars, at, cur, hi, cr3, tss, ticks>>

DeviceRaises(i) ==
    /\ Raise(i)
    /\ UNCHANGED <<tableVars, at, cur, pc, hi, cr3, tss, ticks>>

-----------------------------------------------------------------------------
(* The programs.                                                           *)

At(site) == pc = "run" /\ at[cur] = site

GoTo(site) ==
    /\ at' = [at EXCEPT ![cur] = site]
    /\ UNCHANGED <<cur, pc, hi, cr3, tss>>

(* The first stretch of each program.  ring3_trampoline enters CPL3 with   *)
(* IF set; gopherd creates its file under a spin lock, whose unlock sets   *)
(* IF; the three others touch no lock.                                     *)
Start ==
    /\ At("entry")
    /\ GoTo(CASE prog[cur] = "gopherd"    -> "tick"
              [] prog[cur] = "shell"      -> "readline"
              [] prog[cur] = "gopher_srv" -> "poll"
              [] prog[cur] = "gopherpy"   -> "py"
              [] prog[cur] = "user"       -> "cpl3")
    /\ iflag' = (iflag \/ prog[cur] \in {"gopherd", "user"})
    /\ UNCHANGED <<tableVars, irr, pending, kb, ticks>>

GopherdTick ==
    /\ At("tick")
    /\ ticks > 0
    /\ ticks' = ticks - 1
    /\ YieldAt("tick")
    /\ UNCHANGED <<tableVars, irqVars>>

GopherdExit ==
    /\ At("tick")
    /\ ticks = 0
    /\ ProcExit(cur)
    /\ YieldAt("exit")
    /\ UNCHANGED <<irqVars, ticks>>

(* The server yields once in every 1000 polls of the network.              *)
ServerPoll ==
    /\ At("poll")
    /\ YieldAt("poll")
    /\ UNCHANGED <<tableVars, irqVars, ticks>>

(* kb_getchar, called by kb_readline and by the demo command: the test of  *)
(* the ring and the sleep are two steps, an interrupt may fall between.    *)
Reading == At("readline") \/ At("demo")

GetcharEmpty ==
    /\ Reading
    /\ kb = 0
    /\ pc' = "sleep"
    /\ UNCHANGED <<tableVars, irqVars, at, cur, hi, cr3, tss, ticks>>

GetcharSleep_ClearsPending ==   \* mutant: the sleeper forgets earlier interrupts
    /\ pc = "sleep"
    /\ SleepOn(cur, KEYBOARD)
    /\ YieldAt(at[cur])
    /\ pending' = pending \ {KEYBOARD}
    /\ UNCHANGED <<irr, kb, iflag, ticks>>
GetcharSleep ==
    /\ pc = "sleep"
    /\ SleepOn(cur, KEYBOARD)
    /\ YieldAt(at[cur])
    /\ UNCHANGED <<irqVars, ticks>>

(* A character: the line goes on or is complete; the demo is over.         *)
Getchar ==
    /\ Reading
    /\ kb > 0
    /\ kb' = kb - 1
    /\ \/ GoTo("readline")
       \/ At("readline") /\ GoTo("command")
    /\ UNCHANGED <<tableVars, irr, pending, iflag, ticks>>

(* A command that neither creates or ends a process nor gives up the CPU;  *)
(* those that take a spin lock come back with IF set.                      *)
OtherCommand ==
    /\ At("command")
    /\ GoTo("readline")
    /\ \/ UNCHANGED iflag
       \/ iflag' = TRUE
    /\ UNCHANGED <<tableVars, irr, pending, kb, ticks>>

Command(c) == c \in Commands /\ At("command")

Gopherserve ==
    /\ Command("gopherserve")
    /\ ProcCreate("gopher_srv")
    /\ GoTo("readline")
    /\ UNCHANGED <<irqVars, ticks>>

Gopherpy ==
    /\ Command("gopherpy")
    /\ ProcCreate("gopherpy")
    /\ GoTo("readline")
    /\ UNCHANGED <<irqVars, ticks>>

Ring3Demo ==
    /\ Command("ring3demo")
    /\ ProcCreateRing3
    /\ GoTo("readline")
    /\ UNCHANGED <<irqVars, ticks>>

Exec ==
    /\ Command("exec")
    /\ ProcLoadElf
    /\ GoTo("readline")
    /\ UNCHANGED <<irqVars, ticks>>

(* kill <pid>: a slot that is given back keeps nothing of its process.     *)
Kill(t) ==
    /\ Command("kill")
    /\ state[t] # "UNUSED"
    /\ ProcKill(t)
    /\ at' = [at EXCEPT ![t] = "entry", ![cur] = "readline"]
    /\ UNCHANGED <<irqVars, cur, pc, hi, cr3, tss, ticks>>

Demo ==
    /\ Command("demo")
    /\ GoTo("demo")
    /\ UNCHANGED <<tableVars, irqVars, ticks>>

Exit ==
    /\ Command("exit")
    /\ ProcExit(cur)
    /\ YieldAt("exit")
    /\ UNCHANGED <<irqVars, ticks>>

(* ping polls the network a bounded number of times and yields in between. *)
Ping ==
    /\ Command("ping")
    /\ GoTo("ping")
    /\ UNCHANGED <<tableVars, irqVars, ticks>>

PingYield ==
    /\ At("ping")
    /\ YieldAt("ping")
    /\ UNCHANGED <<tableVars, irqVars, ticks>>

PingEnd ==
    /\ At("ping")
    /\ GoTo("readline")
    /\ UNCHANGED <<tableVars, irqVars, ticks>>

-----------------------------------------------------------------------------
(* gopherpy_demo: a ring-0 process that calls the kernel as a ring-3       *)
(* program does, by int 0x80.  The gate clears IF for as long as the call  *)
(* yields and the iret restores the IF of the caller, which its frame      *)
(* holds meanwhile: the two sites of the one yield differ in that flag.    *)

GopherpyYield ==
    /\ At("py")
    /\ \/ iflag /\ YieldAt("py_yield_if")
       \/ ~iflag /\ YieldAt("py_yield")
    /\ iflag' = FALSE
    /\ UNCHANGED <<tableVars, irr, pending, kb, ticks>>

GopherpyReturns ==
    /\ At("py_yield") \/ At("py_yield_if")
    /\ iflag' = At("py_yield_if")
    /\ GoTo("py_end")
    /\ UNCHANGED <<tableVars, irr, pending, kb, ticks>>

GopherpyExit ==
    /\ At("py_end")
    /\ ProcExit(cur)
    /\ iflag' = FALSE
    /\ YieldAt("exit")
    /\ UNCHANGED <<irr, pending, kb, ticks>>

-----------------------------------------------------------------------------
(* A ring-3 program: the system calls that reach the scheduler or the      *)
(* keyboard, and a fault.  The gate clears IF, iret sets it again.         *)

SysYield ==
    /\ At("cpl3")
    /\ iflag' = FALSE
    /\ YieldAt("sys_yield")
    /\ UNCHANGED <<tableVars, irr, pending, kb, ticks>>

SysYieldReturns_NoIret ==       \* mutant: the flags of the program are not restored
    /\ At("sys_yield")
    /\ GoTo("cpl3")
    /\ UNCHANGED <<tableVars, irqVars, ticks>>
SysYieldReturns ==
    /\ At("sys_yield")
    /\ iflag' = TRUE
    /\ GoTo("cpl3")
    /\ UNCHANGED <<tableVars, irr, pending, kb, ticks>>

(* sys_read takes what is there, up to the count asked for, and never      *)
(* sleeps.                                                                 *)
SysRead ==
    /\ At("cpl3")
    /\ \E left \in 0 .. kb : kb' = left
    /\ UNCHANGED <<tableVars, irr, pending, iflag, at, cur, pc, hi, cr3, tss, ticks>>

SysExit ==
    /\ At("cpl3")
    /\ ProcExit(cur)
    /\ iflag' = FALSE
    /\ YieldAt("exit")
    /\ UNCHANGED <<irr, pending, kb, ticks>>

(* isr_handler returns into kernel_reap_current_process with the EFLAGS of *)
(* the program, so IF stays set.                                           *)
Ring3Fault ==
    /\ At("cpl3")
    /\ ProcExit(cur)
    /\ YieldAt("exit")
    /\ UNCHANGED <<irqVars, ticks>>

-----------------------------------------------------------------------------
Scheduler ==
    \/ SchedulerRun
    \/ SkipLine \/ BottomHalf \/ Wakeup
    \/ Switch \/ YieldReturns \/ SystemStopped \/ GoIdle \/ StiHlt

Kernel0 ==
    \/ Start
    \/ GopherdTick \/ GopherdExit
    \/ ServerPoll
    \/ GopherpyYield \/ GopherpyReturns \/ GopherpyExit
    \/ GetcharEmpty \/ GetcharSleep \/ Getchar

ShellCommand ==
    \/ OtherCommand
    \/ Gopherserve \/ Gopherpy \/ Ring3Demo \/ Exec
    \/ \E t \in Slots : Kill(t)
    \/ Demo \/ Exit
    \/ Ping

Ring3Leaves == SysYield \/ SysExit \/ Ring3Fault

Next ==
    \/ Scheduler
    \/ Kernel0
    \/ ShellCommand
    \/ PingYield \/ PingEnd
    \/ Ring3Leaves \/ SysYieldReturns \/ SysRead
    \/ \E i \in Lines : Interrupt(i) \/ DeviceRaises(i)

Spec == Init /\ [][Next]_vars

(* Fairness.  The CPU never stops between two instructions of the kernel;  *)
(* it takes an interrupt at the first instruction boundary with IF set, so *)
(* one that is deliverable again and again is delivered; the PIT ticks for *)
(* ever; ping's loops are bounded.  Two assumptions are about the world    *)
(* outside the kernel: nobody types so fast that the shell, reading a      *)
(* character in microseconds, never finds the ring empty; and, which a     *)
(* cooperative scheduler cannot do without, a ring-3 program does not      *)
(* compute or read for ever without a yield, an exit or a fault.           *)
Fairness ==
    /\ WF_vars(Scheduler)
    /\ WF_vars(Kernel0)
    /\ WF_vars(ShellCommand)
    /\ WF_vars(SysYieldReturns)
    /\ WF_vars(Ring3Leaves)
    /\ WF_vars(PingYield \/ PingEnd)
    /\ SF_vars(PingEnd)
    /\ []<>(pc # "run" \/ prog[cur] # "shell")
    /\ WF_vars(DeviceRaises(TIMER))
    /\ \A i \in Lines : SF_vars(Interrupt(i))

FairSpec == Spec /\ Fairness
-----------------------------------------------------------------------------
(* Properties.                                                             *)

Alive(s) == state[s] \in {"READY", "RUNNING", "BLOCKED"}

(* At most one process is RUNNING and it is current; a process whose code  *)
(* executes is RUNNING (proc_kill and its comment rely on it); otherwise   *)
(* the scheduler runs on the stack of a process that has just yielded,     *)
(* blocked, been woken or exited.                                          *)
CurrentIsRunning ==
    /\ \A s \in Slots : state[s] = "RUNNING" => s = cur
    /\ pc \in {"run", "sleep"} => cur # NoProc /\ state[cur] = "RUNNING"
    /\ cur # NoProc => state[cur] # "UNUSED"

(* Address spaces are owned: a live ring-3 process has one of its own, and *)
(* paging.c has no other marked as in use.  Nothing leaks through exit,    *)
(* fault, kill and failed creations, and no two processes share tables.    *)
Owners == {s \in Slots : Alive(s) /\ IsRing3(s)}

SpaceOwnership ==
    /\ \A s \in Owners : space[s] \in inUse
    /\ \A s, t \in Owners : space[s] = space[t] => s = t
    /\ \A h \in inUse : \E s \in Owners : space[s] = h

(* The stack of every process that can still run, and the stack the CPU is *)
(* on now (also that of a process that has exited and waits in proc_yield  *)
(* for another to be READY), is in a region that has not been freed.       *)
LiveStacks ==
    \A s \in Slots : Alive(s) \/ s = cur => region[s] = "live"

(* Code at CPL3 always executes in the page directory of its own process,  *)
(* one that is in use, with its own kernel stack in the TSS and with       *)
(* interrupts enabled.                                                     *)
ProtectedContext ==
    At("cpl3") => /\ IsRing3(cur)
                  /\ cr3 = space[cur]
                  /\ cr3 \in inUse
                  /\ tss = cur
                  /\ iflag

(* paging_new_address_space never refills the page directory the CPU is    *)
(* using, although an exited process runs on in the one it has given back. *)
LoadedSpaceIsNotReused == [][cr3 \notin inUse' \ inUse]_vars

(* A process that is not on the CPU has in processes[s].esp the depth at   *)
(* which it stopped, so a switch between two processes resumes the right   *)
(* one at the right place, whatever happened meanwhile to its slot.        *)
SavedIsWhereItStopped ==
    \A s \in Slots : Alive(s) /\ s # cur => saved[s] = at[s]

(* A character that arrives between kb_getchar's test of the ring and the  *)
(* sleep, or at any point of the yield loop, is not forgotten: while a     *)
(* process sleeps on the keyboard with characters in the ring, its wake-up *)
(* is pending or under way.                                                *)
NoLostWakeup ==
    \A s \in Slots :
       state[s] = "BLOCKED" /\ kb > 0 =>
          KEYBOARD \in pending \/ (pc = "wakeup" /\ hi = KEYBOARD)

(* The scheduler changes who runs, never where a process is: a process     *)
(* that blocks goes on behind the call it blocked in ("bloquea (via        *)
(* proc_sleep_on) hasta la proxima tecla", shell.c).  The code does not    *)
(* have this property: see ContextSwitch.                                  *)
ResumesWhereItStopped == [][(pc \in {"boot", "scan"}) => at' = at]_vars

(* "sti+hlt es atomico en x86: no se puede perder la interrupcion entre    *)
(* habilitar y dormir" (process.c): the CPU does not halt while an         *)
(* interrupt has been taken whose bottom half has not run.                 *)
SleepsWithNothingPending == pc = "asleep" => pending = {}

(* A process that exits or yields by int 0x80 hands the CPU over with IF   *)
(* clear (syscall.c, isr.s).  Shell, gopherd, gopherpy and ring-3 programs *)
(* set IF again or pass the CPU on, so that an interrupt of the keyboard   *)
(* is taken in the end; a polling server that was handed the CPU like that *)
(* does neither, and is the only exception.                                *)
DeafServer == cur # NoProc /\ prog[cur] = "gopher_srv" /\ pc = "run" /\ ~iflag
KeyTaken == (KEYBOARD \in irr) ~> (KEYBOARD \notin irr \/ DeafServer)

(* A shell that sleeps with a character in the ring gets the CPU.          *)
ShellGetsKey ==
    (state[SHELL] = "BLOCKED" /\ kb > 0) ~> (cur = SHELL /\ pc = "run")

(* No starvation: a READY process gets the CPU or is killed.               *)
ReadyRuns ==
    \A s \in Slots : (state[s] = "READY") ~> (state[s] \in {"RUNNING", "UNUSED"})
==============================================================================
