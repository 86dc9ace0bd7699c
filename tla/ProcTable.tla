------------------------------ MODULE ProcTable ------------------------------
(***************************************************************************)
(* The process table of process.c and the address-space handles of         *)
(* paging.c it owns: the slots of processes[], what proc_create,           *)
(* proc_create_ring3, proc_load_elf, proc_exit, proc_kill, proc_sleep_on   *)
(* and proc_wakeup do to them, and proc_spaces[].in_use.                   *)
(*                                                                         *)
(* The operators are action fragments: each says what one call does to the *)
(* whole table and leaves the CPU (module Sched) and the interrupt         *)
(* controller (module Irq) to the module that composes them.               *)
(*                                                                         *)
(* A saved esp is abstracted to the call site whose stack depth it holds:  *)
(* two sites stand for two different depths.  pids are left out: a pid in  *)
(* use names exactly one slot, so kill <pid> is kill of that slot.         *)
(***************************************************************************)
EXTENDS Integers

CONSTANTS
    MAX_PROCESSES,      \* slots of the process table (8)
    MAX_ADDR_SPACES     \* page directories for ring-3 processes (8)

ASSUME TableSizes ==
    /\ MAX_PROCESSES \in Nat \ {0, 1}     \* kernel_main creates two processes
    /\ MAX_ADDR_SPACES \in Nat

Slots  == 0 .. MAX_PROCESSES - 1
Spaces == 0 .. MAX_ADDR_SPACES - 1
KERNEL_SPACE == -1      \* addr_space of a ring-0 process
NoEvent == -1           \* blocked_on = None

Programs   == {"gopherd", "shell", "gopher_srv", "gopherpy", "user"}
ProcStates == {"UNUSED", "READY", "RUNNING", "BLOCKED", "ZOMBIE"}

(* Where a process can be: before its first instruction, at one of the     *)
(* call sites of its program, or in proc_exit.                             *)
Sites == {"entry", "tick", "readline", "command", "demo", "ping", "poll",
          "py", "py_yield", "py_yield_if", "py_end", "cpl3", "sys_yield", "exit"}

VARIABLES
    state,      \* processes[s].state
    prog,       \* the program the slot runs; is_ring3 iff it is "user"
    region,     \* processes[s].region: NULL, live, or freed but still there
    space,      \* processes[s].addr_space
    blockedOn,  \* processes[s].blocked_on, as the IRQ line of the event
    saved,      \* processes[s].esp, as the call site of that depth
    inUse       \* the handles h with proc_spaces[h].in_use

tableVars == <<state, prog, region, space, blockedOn, saved, inUse>>

(* space is 0 in a slot of static storage even when there is no handle 0.  *)
TableTypeOK ==
    /\ state \in [Slots -> ProcStates]
    /\ prog \in [Slots -> Programs]
    /\ region \in [Slots -> {"null", "live", "freed"}]
    /\ space \in [Slots -> Spaces \cup {KERNEL_SPACE, 0}]
    /\ blockedOn \in [Slots -> {NoEvent, 0, 1}]
    /\ saved \in [Slots -> Sites]
    /\ inUse \in SUBSET Spaces

-----------------------------------------------------------------------------
IsRing3(s) == prog[s] = "user"

WithState(p) == {s \in Slots : state[s] = p}

IsFirst(i, S) == i \in S /\ \A j \in S : i <= j

(* The scan every creation starts with.                                    *)
FirstFreeSlot(s) == IsFirst(s, WithState("UNUSED"))

(* The scan of paging_new_address_space.                                   *)
FirstFreeSpace(h) == IsFirst(h, Spaces \ inUse)

(* kernel_main has created gopherd and the shell in the first two slots;   *)
(* the others are the zeroes of static storage.                            *)
TableInit ==
    /\ state = [s \in Slots |-> IF s <= 1 THEN "READY" ELSE "UNUSED"]
    /\ prog = [s \in Slots |-> IF s = 0 THEN "gopherd" ELSE "shell"]
    /\ region = [s \in Slots |-> IF s <= 1 THEN "live" ELSE "null"]
    /\ space = [s \in Slots |-> IF s <= 1 THEN KERNEL_SPACE ELSE 0]
    /\ blockedOn = [s \in Slots |-> NoEvent]
    /\ saved = [s \in Slots |-> "entry"]
    /\ inUse = {}

-----------------------------------------------------------------------------
(* What a creation that got its slot leaves there: program p, address      *)
(* space h, a region in condition r and an esp at the entry point.         *)
Launch_NoEsp(s, p, h, r) ==     \* mutant: a reused slot keeps its old esp
    /\ state' = [state EXCEPT ![s] = "READY"]
    /\ prog' = [prog EXCEPT ![s] = p]
    /\ region' = [region EXCEPT ![s] = r]
    /\ space' = [space EXCEPT ![s] = h]
    /\ blockedOn' = [blockedOn EXCEPT ![s] = NoEvent]
    /\ UNCHANGED saved
Launch(s, p, h, r) ==
    /\ state' = [state EXCEPT ![s] = "READY"]
    /\ prog' = [prog EXCEPT ![s] = p]
    /\ region' = [region EXCEPT ![s] = r]
    /\ space' = [space EXCEPT ![s] = h]
    /\ blockedOn' = [blockedOn EXCEPT ![s] = NoEvent]
    /\ saved' = [saved EXCEPT ![s] = "entry"]

(* region_new failed: the slot keeps its state, its region becomes NULL.   *)
OutOfMemory(s) ==
    /\ region' = [region EXCEPT ![s] = "null"]
    /\ UNCHANGED <<state, prog, space, blockedOn, saved, inUse>>

TableFull == WithState("UNUSED") = {} /\ UNCHANGED tableVars

(* A ring-0 process: EBUSY, ENOMEM or a READY slot.                        *)
ProcCreate(p) ==
    \/ TableFull
    \/ \E s \in Slots :
          /\ FirstFreeSlot(s)
          /\ \/ OutOfMemory(s)
             \/ Launch(s, p, KERNEL_SPACE, "live") /\ UNCHANGED inUse

(* A ring-3 process compiled into the kernel.  The slot is made READY      *)
(* before the address space is asked for; when there is none the region is *)
(* destroyed and the slot is left as it is, READY and with the addr_space  *)
(* it had.                                                                 *)
ProcCreateRing3 ==
    \/ TableFull
    \/ \E s \in Slots :
          /\ FirstFreeSlot(s)
          /\ \/ OutOfMemory(s)
             \/ \E h \in Spaces :
                   /\ FirstFreeSpace(h)
                   /\ Launch(s, "user", h, "live")
                   /\ inUse' = inUse \cup {h}
             \/ /\ Spaces \subseteq inUse
                /\ Launch(s, "user", space[s], "freed")
                /\ UNCHANGED inUse

(* An external ELF.  A bad header, a full table or no address space change *)
(* nothing; a bad segment or no pages for it give the new space back; the  *)
(* slot is written last.                                                   *)
ProcLoadElf ==
    \/ UNCHANGED tableVars
    \/ \E s \in Slots, h \in Spaces :
          /\ FirstFreeSlot(s)
          /\ FirstFreeSpace(h)
          /\ \/ OutOfMemory(s)
             \/ Launch(s, "user", h, "live") /\ inUse' = inUse \cup {h}

(* The address space of slot s goes back to paging.c.                      *)
FreeSpace(s) ==
    /\ inUse' = inUse \ {space[s]}
    /\ space' = [space EXCEPT ![s] = KERNEL_SPACE]

(* proc_exit of the current process up to its proc_yield: the slot keeps   *)
(* its region, the stack is still in use.                                  *)
ProcExit_FreesStack(s) ==       \* mutant: the region is destroyed right away
    /\ IF IsRing3(s) THEN FreeSpace(s) ELSE UNCHANGED <<inUse, space>>
    /\ state' = [state EXCEPT ![s] = "ZOMBIE"]
    /\ region' = [region EXCEPT ![s] = "freed"]
    /\ UNCHANGED <<prog, blockedOn, saved>>
ProcExit(s) ==
    /\ IF IsRing3(s) THEN FreeSpace(s) ELSE UNCHANGED <<inUse, space>>
    /\ state' = [state EXCEPT ![s] = "ZOMBIE"]
    /\ UNCHANGED <<prog, region, blockedOn, saved>>

(* proc_kill of the process in slot t: refused for the running one; any    *)
(* other loses its address space if it still had one, then its region and  *)
(* its slot.                                                               *)
ProcKill_LeaksSpace(t) ==       \* mutant: only a BLOCKED process gives its space back
    IF state[t] = "RUNNING"
      THEN UNCHANGED tableVars
      ELSE /\ IF state[t] = "BLOCKED" /\ IsRing3(t) /\ space[t] >= 0
                THEN FreeSpace(t)
                ELSE UNCHANGED <<inUse, space>>
           /\ region' = [region EXCEPT ![t] = "null"]
           /\ state' = [state EXCEPT ![t] = "UNUSED"]
           /\ UNCHANGED <<prog, blockedOn, saved>>
ProcKill(t) ==
    IF state[t] = "RUNNING"
      THEN UNCHANGED tableVars
      ELSE /\ IF state[t] \in {"READY", "BLOCKED"} /\ IsRing3(t) /\ space[t] >= 0
                THEN FreeSpace(t)
                ELSE UNCHANGED <<inUse, space>>
           /\ region' = [region EXCEPT ![t] = "null"]
           /\ state' = [state EXCEPT ![t] = "UNUSED"]
           /\ UNCHANGED <<prog, blockedOn, saved>>

(* proc_sleep_on(e) up to its proc_yield.                                  *)
SleepOn(s, e) ==
    /\ state' = [state EXCEPT ![s] = "BLOCKED"]
    /\ blockedOn' = [blockedOn EXCEPT ![s] = e]
    /\ UNCHANGED <<prog, region, space, saved, inUse>>

(* proc_wakeup(e): every process blocked on that event becomes READY.      *)
ProcWakeup(e) ==
    LET woken == {s \in WithState("BLOCKED") : blockedOn[s] = e} IN
    /\ state' = [s \in Slots |-> IF s \in woken THEN "READY" ELSE state[s]]
    /\ blockedOn' = [s \in Slots |-> IF s \in woken THEN NoEvent ELSE blockedOn[s]]
    /\ UNCHANGED <<prog, region, space, saved, inUse>>
==============================================================================
