----------------------------- MODULE SchedProofs -----------------------------
(***************************************************************************)
(* Proofs about Sched for every number of slots, address spaces, keyboard  *)
(* ring, set of shell commands and length of gopherd: types, then the      *)
(* safety invariants, each strengthened until it is inductive relative to  *)
(* the ones before it, and last ownership of address spaces and stacks.    *)
(***************************************************************************)
EXTENDS Sched, FiniteSetTheorems, TLAPS

(***************************************************************************)
(* Types.  What each fragment does to its own part of the state is a lemma *)
(* of its own: the table, the interrupts, the CPU.                         *)
(***************************************************************************)

(* From the first dispatch on there is a current process.                  *)
HasCurrent == pc # "boot" => cur # NoProc

LEMMA InitTyped == Init => TypeOK /\ HasCurrent
<1> SUFFICES ASSUME Init PROVE TypeOK /\ HasCurrent  OBVIOUS
<1> USE TableSizes, RingHasRoom, ProgramConstants
    DEF Init, TableInit, IrqInit, Slots, Spaces, KERNEL_SPACE, NoEvent, NoProc
<1>1. TableTypeOK  BY DEF TableTypeOK, ProcStates, Programs, Sites
<1>2. IrqTypeOK    BY DEF IrqTypeOK, Lines, TIMER, KEYBOARD
<1>3. CpuTypeOK    BY DEF CpuTypeOK, Sites, Points, Lines, TIMER, KEYBOARD
<1>4. QED  BY <1>1, <1>2, <1>3 DEF TypeOK, HasCurrent

LEMMA SameTable == TableTypeOK /\ UNCHANGED tableVars => TableTypeOK'
BY DEF TableTypeOK, tableVars

LEMMA SameIrq == IrqTypeOK /\ UNCHANGED irqVars => IrqTypeOK'
BY DEF IrqTypeOK, irqVars

LEMMA LaunchTyped ==
    ASSUME TableTypeOK, NEW s \in Slots, NEW p \in Programs,
           NEW h \in Spaces \cup {KERNEL_SPACE, 0}, NEW r \in {"null", "live", "freed"},
           Launch(s, p, h, r), inUse' \in SUBSET Spaces
    PROVE  TableTypeOK'
BY DEF Launch, TableTypeOK, ProcStates, Sites

LEMMA OutOfMemoryTyped ==
    ASSUME TableTypeOK, NEW s \in Slots, OutOfMemory(s)  PROVE  TableTypeOK'
BY DEF OutOfMemory, TableTypeOK

LEMMA ProcExitTyped ==
    ASSUME TableTypeOK, NEW s \in Slots, ProcExit(s)  PROVE  TableTypeOK'
BY DEF ProcExit, FreeSpace, TableTypeOK, ProcStates

LEMMA ProcKillTyped ==
    ASSUME TableTypeOK, NEW s \in Slots, ProcKill(s)  PROVE  TableTypeOK'
BY DEF ProcKill, FreeSpace, TableTypeOK, ProcStates, tableVars

LEMMA SleepOnTyped ==
    ASSUME TableTypeOK, NEW s \in Slots, NEW e \in Lines, SleepOn(s, e)
    PROVE  TableTypeOK'
BY DEF SleepOn, TableTypeOK, ProcStates, Lines, TIMER, KEYBOARD

LEMMA ProcWakeupTyped ==
    ASSUME TableTypeOK, NEW e \in Lines, ProcWakeup(e)  PROVE  TableTypeOK'
BY DEF ProcWakeup, TableTypeOK, ProcStates, NoEvent

(* A creation leaves a well-typed table, whichever way it ends.            *)
LEMMA CreationTyped ==
    ASSUME TableTypeOK,
           \/ \E p \in Programs : ProcCreate(p)
           \/ ProcCreateRing3
           \/ ProcLoadElf
    PROVE  TableTypeOK'
<1>1. CASE UNCHANGED tableVars  BY <1>1, SameTable
<1>2. CASE \E s \in Slots : OutOfMemory(s)  BY <1>2, OutOfMemoryTyped
<1>3. ASSUME NEW s \in Slots, NEW p \in Programs, NEW r \in {"null", "live", "freed"},
             NEW h \in Spaces \cup {KERNEL_SPACE, 0}, Launch(s, p, h, r),
             inUse' = inUse \/ \E g \in Spaces : inUse' = inUse \cup {g}
      PROVE  TableTypeOK'
  <2>1. inUse' \in SUBSET Spaces  BY <1>3 DEF TableTypeOK
  <2>2. QED  BY <1>3, <2>1, LaunchTyped
<1>4. CASE \E p \in Programs : ProcCreate(p)
  BY <1>1, <1>2, <1>3, <1>4 DEF ProcCreate, TableFull
<1>5. CASE ProcCreateRing3
  <2>1. \A s \in Slots : space[s] \in Spaces \cup {KERNEL_SPACE, 0}  BY DEF TableTypeOK
  <2>2. "user" \in Programs  BY DEF Programs
  <2>3. QED  BY <1>1, <1>2, <1>3, <1>5, <2>1, <2>2 DEF ProcCreateRing3, TableFull
<1>6. CASE ProcLoadElf
  <2>1. "user" \in Programs  BY DEF Programs
  <2>2. QED  BY <1>1, <1>2, <1>3, <1>6, <2>1 DEF ProcLoadElf
<1>7. QED  BY <1>4, <1>5, <1>6

LEMMA InterruptTyped ==
    ASSUME IrqTypeOK, NEW i \in Lines, IrqDispatch(i) \/ Raise(i)  PROVE  IrqTypeOK'
<1> USE RingHasRoom DEF IrqTypeOK, Lines, TIMER, KEYBOARD
<1>1. CASE IrqDispatch(i)  BY <1>1 DEF IrqDispatch, TopHalf, KbPush
<1>2. CASE Raise(i)  BY <1>2 DEF Raise
<1>3. QED  BY <1>1, <1>2

LEMMA GoToTyped ==
    ASSUME CpuTypeOK, HasCurrent, NEW site \in Sites, GoTo(site), UNCHANGED ticks
    PROVE  CpuTypeOK' /\ HasCurrent'
BY DEF GoTo, CpuTypeOK, HasCurrent

LEMMA YieldAtTyped ==
    ASSUME CpuTypeOK, HasCurrent, pc # "boot", NEW site \in Sites, YieldAt(site),
           ticks' \in 0 .. GOPHERD_TICKS
    PROVE  CpuTypeOK' /\ HasCurrent'
BY DEF YieldAt, CpuTypeOK, HasCurrent, Lines, Points

(* A step that moves only pc, and not back to the boot.                    *)
LEMMA PointTyped ==
    ASSUME CpuTypeOK, HasCurrent, pc' \in Points, pc' = "boot" => pc = "boot",
           pc' # "boot" => pc # "boot", UNCHANGED <<at, cur, hi, cr3, tss, ticks>>
    PROVE  CpuTypeOK' /\ HasCurrent'
BY DEF CpuTypeOK, HasCurrent

LEMMA CurrentSlot == CpuTypeOK /\ HasCurrent /\ pc # "boot" => cur \in Slots
BY DEF CpuTypeOK, HasCurrent

(* scheduler_run and the branch of proc_yield that switches.               *)
LEMMA SwitchTyped ==
    ASSUME TypeOK, HasCurrent, NEW n \in Slots, SwitchTo(n)
    PROVE  (TypeOK /\ HasCurrent)'
<1> USE DEF TypeOK
<1>1. TableTypeOK'
  <2>1. state' \in [Slots -> ProcStates]
    BY DEF SwitchTo, Handover, TableTypeOK, ProcStates
  <2>2. saved' \in [Slots -> Sites]
    BY DEF SwitchTo, ContextSwitch, TableTypeOK, CpuTypeOK
  <2>3. QED  BY <2>1, <2>2 DEF SwitchTo, TableTypeOK
<1>2. IrqTypeOK'  BY DEF SwitchTo, ContextSwitch, IrqTypeOK
<1>3. CpuTypeOK'
  <2>1. at' \in [Slots -> Sites] /\ pc' \in Points
    BY DEF SwitchTo, ContextSwitch, TableTypeOK, CpuTypeOK, Points
  <2>2. cr3' \in Spaces \cup {KERNEL_SPACE, 0} /\ tss' \in Slots \cup {NoProc}
    BY DEF SwitchTo, LoadContext, TableTypeOK, CpuTypeOK
  <2>3. QED  BY <2>1, <2>2 DEF SwitchTo, CpuTypeOK
<1>4. HasCurrent'  BY DEF SwitchTo, HasCurrent, Slots, NoProc
<1>5. QED  BY <1>1, <1>2, <1>3, <1>4

(* The steps that end the current process ...                              *)
Leaves == GopherdExit \/ GopherpyExit \/ Exit \/ SysExit \/ Ring3Fault

LEMMA LeavesExit ==
    Leaves => pc = "run" /\ ProcExit(cur) /\ YieldAt("exit") /\ UNCHANGED <<pending, kb, ticks>>
BY DEF Leaves, GopherdExit, GopherpyExit, Exit, SysExit, Ring3Fault, At, Command, irqVars

(* ... and the commands that create one.                                   *)
Creates == Gopherserve \/ Gopherpy \/ Ring3Demo \/ Exec

LEMMA CreatesOne ==
    Creates => /\ pc = "run" /\ at[cur] = "command" /\ GoTo("readline")
               /\ UNCHANGED irqVars /\ UNCHANGED ticks
               /\ \/ \E p \in Programs \ {"user"} : ProcCreate(p)
                  \/ ProcCreateRing3
                  \/ ProcLoadElf
<1>1. {"gopher_srv", "gopherpy"} \subseteq Programs \ {"user"}  BY DEF Programs
<1>2. QED  BY <1>1 DEF Creates, Gopherserve, Gopherpy, Ring3Demo, Exec, Command, At

LEMMA NextTyped == TypeOK /\ HasCurrent /\ [Next]_vars => (TypeOK /\ HasCurrent)'
<1> SUFFICES ASSUME TypeOK, HasCurrent, [Next]_vars PROVE (TypeOK /\ HasCurrent)'
  OBVIOUS
<1> USE DEF TypeOK
<1> /\ ticks \in 0 .. GOPHERD_TICKS
    /\ pc \in Points
    /\ pc # "boot" => cur \in Slots
  BY CurrentSlot DEF CpuTypeOK
<1> {"tick", "readline", "command", "demo", "ping", "poll", "py", "py_yield", "py_yield_if",
     "py_end", "cpl3", "sys_yield", "exit"}  \subseteq Sites
  BY DEF Sites
<1>1. CASE SchedulerRun \/ Switch
  BY <1>1, SwitchTyped DEF SchedulerRun, Switch
<1>2. CASE SkipLine \/ BottomHalf \/ Wakeup
  <2>1. TableTypeOK'
    BY <1>2, SameTable, ProcWakeupTyped DEF SkipLine, BottomHalf, Wakeup, CpuTypeOK
  <2>2. IrqTypeOK'
    BY <1>2 DEF SkipLine, BottomHalf, Wakeup, IrqTypeOK, irqVars
  <2>3. CpuTypeOK' /\ HasCurrent'
    BY <1>2 DEF SkipLine, BottomHalf, Wakeup, NextLine, CpuTypeOK, HasCurrent, Points,
                Lines, TIMER, KEYBOARD
  <2>4. QED  BY <2>1, <2>2, <2>3
<1>3. CASE YieldReturns \/ SystemStopped \/ GoIdle \/ StiHlt
  <2>1. UNCHANGED tableVars /\ UNCHANGED <<at, cur, hi, cr3, tss, ticks>>
    BY <1>3 DEF YieldReturns, SystemStopped, GoIdle, StiHlt, StopScanning
  <2>2. pc # "boot" /\ pc' \in Points \ {"boot"}
    BY <1>3 DEF YieldReturns, SystemStopped, GoIdle, StiHlt, NobodyReady, StopScanning, Points
  <2>3. IrqTypeOK'
    BY <1>3 DEF YieldReturns, SystemStopped, GoIdle, StiHlt, StopScanning, IrqTypeOK, irqVars
  <2>4. QED  BY <2>1, <2>2, <2>3, SameTable, PointTyped
<1>4. CASE Start
  <2>1. cur \in Slots /\ prog[cur] \in Programs  BY <1>4 DEF Start, At, TableTypeOK
  <2>2. PICK site \in Sites : GoTo(site)  BY <1>4, <2>1 DEF Start, Programs
  <2>3. IrqTypeOK'  BY <1>4 DEF Start, IrqTypeOK
  <2>4. QED  BY <1>4, <2>2, <2>3, SameTable, GoToTyped DEF Start
<1>5. CASE GopherdTick \/ ServerPoll \/ PingYield
  <2>1. pc # "boot" /\ \E site \in Sites : YieldAt(site)
    BY <1>5 DEF GopherdTick, ServerPoll, PingYield, At
  <2>2. UNCHANGED tableVars /\ UNCHANGED irqVars
    BY <1>5 DEF GopherdTick, ServerPoll, PingYield
  <2>3. ticks' \in 0 .. GOPHERD_TICKS
    BY <1>5, ProgramConstants DEF GopherdTick, ServerPoll, PingYield
  <2>4. QED  BY <2>1, <2>2, <2>3, SameTable, SameIrq, YieldAtTyped
<1>6. CASE Leaves
  <2>1. pc # "boot" /\ YieldAt("exit") /\ ProcExit(cur) /\ UNCHANGED ticks
    BY <1>6, LeavesExit DEF At
  <2>2. IrqTypeOK'
    BY <1>6 DEF Leaves, GopherdExit, GopherpyExit, Exit, SysExit, Ring3Fault, IrqTypeOK, irqVars
  <2>3. QED  BY <2>1, <2>2, ProcExitTyped, YieldAtTyped
<1>7. CASE GetcharEmpty
  <2>1. pc = "run" /\ pc' = "sleep"  BY <1>7 DEF GetcharEmpty, Reading, At
  <2>2. QED  BY <1>7, <2>1, SameTable, SameIrq, PointTyped DEF GetcharEmpty, Points
<1>8. CASE GetcharSleep
  <2>1. pc # "boot" /\ at[cur] \in Sites  BY <1>8 DEF GetcharSleep, CpuTypeOK
  <2>2. TableTypeOK'  BY <1>8, <2>1, SleepOnTyped DEF GetcharSleep, Lines
  <2>3. QED  BY <1>8, <2>1, <2>2, SameIrq, YieldAtTyped DEF GetcharSleep
<1>9. CASE Getchar \/ OtherCommand
  <2>1. \E site \in Sites : GoTo(site)  BY <1>9 DEF Getchar, OtherCommand
  <2>2. UNCHANGED tableVars /\ UNCHANGED ticks  BY <1>9 DEF Getchar, OtherCommand
  <2>3. kb' \in 0 .. RING_SIZE - 1
    BY <1>9, RingHasRoom DEF Getchar, OtherCommand, IrqTypeOK
  <2>4. iflag' \in BOOLEAN /\ UNCHANGED <<irr, pending>>
    BY <1>9, Zenon DEF Getchar, OtherCommand, IrqTypeOK
  <2>5. IrqTypeOK'  BY <2>3, <2>4 DEF IrqTypeOK
  <2>6. QED  BY <2>1, <2>2, <2>5, SameTable, GoToTyped
<1>10. CASE Creates
  <2>1. TableTypeOK'
    BY <1>10, CreatesOne, CreationTyped
  <2>2. GoTo("readline") /\ UNCHANGED irqVars /\ UNCHANGED ticks
    BY <1>10, CreatesOne
  <2>3. QED  BY <2>1, <2>2, SameIrq, GoToTyped
<1>11. CASE \E t \in Slots : Kill(t)
  <2>1. TableTypeOK'  BY <1>11, ProcKillTyped DEF Kill
  <2>2. IrqTypeOK'  BY <1>11, SameIrq DEF Kill
  <2>3. CpuTypeOK' /\ HasCurrent'  BY <1>11 DEF Kill, CpuTypeOK, HasCurrent, Sites
  <2>4. QED  BY <2>1, <2>2, <2>3
<1>12. CASE Demo \/ Ping \/ PingEnd
  <2>1. \E site \in Sites : GoTo(site)  BY <1>12 DEF Demo, Ping, PingEnd
  <2>2. UNCHANGED tableVars /\ UNCHANGED irqVars /\ UNCHANGED ticks
    BY <1>12 DEF Demo, Ping, PingEnd
  <2>3. QED  BY <2>1, <2>2, SameTable, SameIrq, GoToTyped
<1>13. CASE SysYield \/ GopherpyYield
  <2>1. pc # "boot" /\ \E site \in Sites : YieldAt(site)
    BY <1>13 DEF SysYield, GopherpyYield, At
  <2>2. UNCHANGED tableVars /\ UNCHANGED ticks  BY <1>13 DEF SysYield, GopherpyYield
  <2>3. IrqTypeOK'  BY <1>13 DEF SysYield, GopherpyYield, IrqTypeOK
  <2>4. QED  BY <2>1, <2>2, <2>3, SameTable, YieldAtTyped
<1>14. CASE SysYieldReturns \/ GopherpyReturns
  <2>1. \E site \in Sites : GoTo(site)  BY <1>14 DEF SysYieldReturns, GopherpyReturns
  <2>2. UNCHANGED tableVars /\ UNCHANGED ticks  BY <1>14 DEF SysYieldReturns, GopherpyReturns
  <2>3. iflag' \in BOOLEAN /\ UNCHANGED <<irr, pending, kb>>
    BY <1>14, Zenon DEF SysYieldReturns, GopherpyReturns, At
  <2>4. IrqTypeOK'  BY <2>3 DEF IrqTypeOK
  <2>5. QED  BY <2>1, <2>2, <2>4, SameTable, GoToTyped
<1>15. CASE SysRead
  <2>1. IrqTypeOK'  BY <1>15, RingHasRoom DEF SysRead, IrqTypeOK
  <2>2. QED  BY <1>15, <2>1, SameTable, PointTyped DEF SysRead
<1>16. CASE \E i \in Lines : Interrupt(i) \/ DeviceRaises(i)
  <2>1. UNCHANGED tableVars /\ UNCHANGED <<at, cur, hi, cr3, tss, ticks>>
    BY <1>16 DEF Interrupt, DeviceRaises
  <2>2. pc' \in Points /\ (pc' = "boot" <=> pc = "boot")
    BY <1>16 DEF Interrupt, DeviceRaises, Points
  <2>3. IrqTypeOK'  BY <1>16, InterruptTyped DEF Interrupt, DeviceRaises
  <2>4. QED  BY <2>1, <2>2, <2>3, SameTable, PointTyped
<1>17. CASE UNCHANGED vars
  <2>1. TableTypeOK' /\ IrqTypeOK'  BY <1>17, SameTable, SameIrq DEF vars
  <2>2. QED  BY <1>17, <2>1 DEF vars, CpuTypeOK, HasCurrent
<1>18. QED
  BY <1>1, <1>2, <1>3, <1>4, <1>5, <1>6, <1>7, <1>8, <1>9, <1>10, <1>11, <1>12,
     <1>13, <1>14, <1>15, <1>16, <1>17
     DEF Next, Scheduler, Kernel0, ShellCommand, Ring3Leaves, Leaves, Creates

(* Type correctness: in particular the keyboard ring never holds more than *)
(* its capacity and no process is dispatched without a slot.               *)
THEOREM TypeCorrect == Spec => []TypeOK
<1>1. Spec => [](TypeOK /\ HasCurrent)
  BY InitTyped, NextTyped, PTL DEF Spec
<1>2. QED  BY <1>1, PTL

-----------------------------------------------------------------------------

(***************************************************************************)
(* One process runs.  CurrentIsRunning is inductive as it stands, next to  *)
(* the types.                                                              *)
(***************************************************************************)
Typed == TypeOK /\ HasCurrent

Inv1 == Typed /\ CurrentIsRunning

(* The steps that only move the current process along its program.         *)
LEMMA StartGoes == Start => At("entry") /\ UNCHANGED tableVars /\ \E site : GoTo(site)
<1> SUFFICES ASSUME Start PROVE At("entry") /\ UNCHANGED tableVars /\ \E site : GoTo(site)
  OBVIOUS
<1>1. \E site : GoTo(site)  BY Zenon DEF Start
<1>2. At("entry") /\ UNCHANGED tableVars  BY Zenon DEF Start
<1>3. QED  BY <1>1, <1>2

Moves == \/ Start \/ Getchar \/ OtherCommand \/ Demo \/ Ping \/ PingEnd
         \/ GopherpyReturns \/ SysYieldReturns

LEMMA MovesGo ==
    Moves => pc = "run" /\ UNCHANGED tableVars /\ \E site : GoTo(site)
<1> SUFFICES ASSUME Moves PROVE pc = "run" /\ UNCHANGED tableVars /\ \E site : GoTo(site)
  OBVIOUS
<1>1. CASE Start  BY <1>1, StartGoes DEF At
<1>2. CASE \/ Getchar \/ OtherCommand \/ Demo \/ Ping \/ PingEnd
           \/ GopherpyReturns \/ SysYieldReturns
  BY <1>2 DEF Getchar, Reading, OtherCommand, Demo, Ping, PingEnd, GopherpyReturns,
              SysYieldReturns, Command, At
<1>3. QED  BY <1>1, <1>2 DEF Moves

LEMMA RunningInit == Init => CurrentIsRunning
BY DEF Init, TableInit, CurrentIsRunning

(* A creation touches only a slot that is UNUSED, and leaves it UNUSED or  *)
(* READY.                                                                  *)
LEMMA CreationTakesUnused ==
    ASSUME TableTypeOK,
           \/ \E p \in Programs : ProcCreate(p)
           \/ ProcCreateRing3
           \/ ProcLoadElf
    PROVE  \A s \in Slots : state'[s] = state[s] \/ (state[s] = "UNUSED" /\ state'[s] = "READY")
<1>1. CASE UNCHANGED state  BY <1>1
<1>2. ASSUME NEW s \in Slots, FirstFreeSlot(s), state' = [state EXCEPT ![s] = "READY"]
      PROVE  \A u \in Slots : state'[u] = state[u] \/ (state[u] = "UNUSED" /\ state'[u] = "READY")
  BY <1>2 DEF FirstFreeSlot, IsFirst, WithState, TableTypeOK
<1>3. QED
  BY <1>1, <1>2 DEF ProcCreate, ProcCreateRing3, ProcLoadElf, TableFull, OutOfMemory, Launch,
                    tableVars

LEMMA RunningNext == Inv1 /\ [Next]_vars => CurrentIsRunning'
<1> SUFFICES ASSUME TypeOK, HasCurrent, CurrentIsRunning, [Next]_vars
             PROVE  CurrentIsRunning'
  BY DEF Inv1, Typed
<1> USE DEF CurrentIsRunning
<1>t. /\ state \in [Slots -> ProcStates]
      /\ pc # "boot" => cur \in Slots
      /\ cur \in Slots \cup {NoProc}
  BY CurrentSlot DEF TypeOK, TableTypeOK, CpuTypeOK
<1>1. CASE SchedulerRun \/ Switch
  <2>1. PICK n \in Slots : SwitchTo(n)  BY <1>1 DEF SchedulerRun, Switch
  <2>2. cur' = n /\ n # NoProc /\ state' = Handover(n)
    BY <2>1 DEF SwitchTo, Slots, NoProc
  <2>3. QED  BY <1>t, <2>2 DEF Handover
<1>2. CASE SkipLine \/ BottomHalf
  BY <1>2 DEF SkipLine, BottomHalf, NextLine, tableVars
<1>3. CASE Wakeup
  BY <1>3, <1>t DEF Wakeup, NextLine, ProcWakeup, WithState
<1>4. CASE YieldReturns \/ SystemStopped \/ GoIdle \/ StiHlt
  <2>1. UNCHANGED <<state, cur>> /\ pc # "boot"
    BY <1>4 DEF YieldReturns, SystemStopped, GoIdle, StiHlt, NobodyReady, StopScanning, tableVars
  <2>2. pc' # "sleep" /\ (pc' = "run" => state[cur] = "RUNNING")
    BY <1>4 DEF YieldReturns, SystemStopped, GoIdle, StiHlt, StopScanning
  <2>3. QED  BY <2>1, <2>2, <1>t DEF HasCurrent
<1>5. CASE Moves
  BY <1>5, MovesGo DEF GoTo, tableVars
<1>6. CASE GopherdTick \/ ServerPoll \/ PingYield \/ GopherpyYield \/ SysYield
  BY <1>6 DEF GopherdTick, ServerPoll, PingYield, GopherpyYield, SysYield, YieldAt, tableVars
<1>7. CASE Leaves
  <2>1. ProcExit(cur) /\ YieldAt("exit") /\ pc = "run"  BY <1>7, LeavesExit
  <2>2. QED  BY <2>1, <1>t DEF ProcExit, YieldAt
<1>8. CASE GetcharEmpty
  BY <1>8 DEF GetcharEmpty, Reading, At, tableVars
<1>9. CASE GetcharSleep
  BY <1>9, <1>t DEF GetcharSleep, SleepOn, YieldAt
<1>10. CASE Creates
  <2>1. GoTo("readline")  BY <1>10, CreatesOne
  <2>2. \A s \in Slots : state'[s] = state[s] \/ (state[s] = "UNUSED" /\ state'[s] = "READY")
    BY <1>10, CreatesOne, CreationTakesUnused DEF TypeOK
  <2>3. QED  BY <2>1, <2>2, <1>t DEF GoTo
<1>11. CASE \E t \in Slots : Kill(t)
  <2>1. PICK t \in Slots : Kill(t)  BY <1>11
  <2>2. pc = "run"  BY <2>1 DEF Kill, Command, At
  <2>3. QED  BY <2>1, <2>2, <1>t DEF Kill, ProcKill, tableVars
<1>12. CASE SysRead
  BY <1>12 DEF SysRead, tableVars
<1>13. CASE \E i \in Lines : Interrupt(i) \/ DeviceRaises(i)
  BY <1>13 DEF Interrupt, DeviceRaises, tableVars
<1>14. CASE UNCHANGED vars
  BY <1>14 DEF vars, tableVars
<1>15. QED
  BY <1>1, <1>2, <1>3, <1>4, <1>5, <1>6, <1>7, <1>8, <1>9, <1>10, <1>11, <1>12, <1>13, <1>14
     DEF Next, Scheduler, Kernel0, ShellCommand, Ring3Leaves, Moves, Leaves, Creates

LEMMA Inv1Always == Spec => []Inv1
<1>1. Init => Inv1  BY InitTyped, RunningInit DEF Inv1, Typed
<1>2. Inv1 /\ [Next]_vars => Inv1'  BY NextTyped, RunningNext DEF Inv1, Typed
<1>3. QED  BY <1>1, <1>2, PTL DEF Spec

(* At most one process is RUNNING, it is current, and whoever executes is  *)
(* RUNNING: what proc_kill relies on to refuse the process on the CPU.     *)
THEOREM OneRuns == Spec => []CurrentIsRunning
<1>1. Inv1 => CurrentIsRunning  BY DEF Inv1
<1>2. QED  BY <1>1, Inv1Always, PTL

(***************************************************************************)
(* Saved contexts.  A slot that is given back is at its entry again, so    *)
(* that the next process in it starts with at and saved equal.             *)
(***************************************************************************)
FreeAtEntry == \A s \in Slots : state[s] = "UNUSED" => at[s] = "entry"

Inv2 == SavedIsWhereItStopped /\ FreeAtEntry

LEMMA Inv2Init == Init => Inv2
BY DEF Init, TableInit, Inv2, SavedIsWhereItStopped, FreeAtEntry

(* A creation leaves the slots it does not launch as they were and a       *)
(* launched one at its entry point.                                        *)
LEMMA CreationSaves ==
    ASSUME TableTypeOK,
           \/ \E p \in Programs : ProcCreate(p)
           \/ ProcCreateRing3
           \/ ProcLoadElf
    PROVE  \A s \in Slots :
              \/ state'[s] = state[s] /\ saved'[s] = saved[s]
              \/ state[s] = "UNUSED" /\ state'[s] = "READY" /\ saved'[s] = "entry"
<1> DEFINE Kept(s) == state'[s] = state[s] /\ saved'[s] = saved[s]
           Fresh(s) == state[s] = "UNUSED" /\ state'[s] = "READY" /\ saved'[s] = "entry"
<1>1. CASE UNCHANGED <<state, saved>>  BY <1>1
<1>2. ASSUME NEW s \in Slots, FirstFreeSlot(s), state' = [state EXCEPT ![s] = "READY"],
             saved' = [saved EXCEPT ![s] = "entry"]
      PROVE  \A u \in Slots : Kept(u) \/ Fresh(u)
  BY <1>2 DEF FirstFreeSlot, IsFirst, WithState, TableTypeOK
<1>3. QED
  BY <1>1, <1>2 DEF ProcCreate, ProcCreateRing3, ProcLoadElf, TableFull, OutOfMemory, Launch,
                    tableVars

LEMMA Inv2Next == Inv1 /\ Inv2 /\ [Next]_vars => Inv2'
<1> SUFFICES ASSUME TypeOK, HasCurrent, CurrentIsRunning, SavedIsWhereItStopped, FreeAtEntry,
                    [Next]_vars
             PROVE  Inv2'
  BY DEF Inv1, Inv2, Typed
<1> USE DEF Inv2, SavedIsWhereItStopped, FreeAtEntry, Alive
<1>t. /\ state \in [Slots -> ProcStates]
      /\ saved \in [Slots -> Sites]
      /\ at \in [Slots -> Sites]
      /\ pc # "boot" => cur \in Slots
      /\ cur \in Slots \cup {NoProc}
      /\ pc \in {"run", "sleep"} => state[cur] = "RUNNING"
      /\ \A s \in Slots : state[s] = "RUNNING" => s = cur
      /\ cur # NoProc => state[cur] # "UNUSED"
  BY CurrentSlot DEF TypeOK, TableTypeOK, CpuTypeOK, CurrentIsRunning
<1>1. CASE SchedulerRun \/ Switch
  <2>1. PICK n \in Slots : SwitchTo(n)  BY <1>1 DEF SchedulerRun, Switch
  <2>2. cur' = n /\ n # NoProc /\ state' = Handover(n)
    BY <2>1 DEF SwitchTo, Slots, NoProc
  <2>3. saved' = IF cur = NoProc THEN saved ELSE [saved EXCEPT ![cur] = at[cur]]
    BY <2>1 DEF SwitchTo, ContextSwitch
  <2>4. at' = at \/ at' = [at EXCEPT ![n] = saved[n]]
    BY <2>1 DEF SwitchTo, ContextSwitch
  <2>5. state[n] = "READY"  BY <2>1 DEF SwitchTo, NextReady
  <2>6. ASSUME NEW s \in Slots, Alive(s)', s # n  PROVE  saved'[s] = at'[s]
    <3>1. at'[s] = at[s]  BY <1>t, <2>4, <2>6
    <3>2. CASE s = cur  BY <1>t, <2>3, <2>6, <3>1, <3>2 DEF Slots, NoProc
    <3>3. CASE s # cur
      <4>1. saved'[s] = saved[s]  BY <1>t, <2>3, <3>3
      <4>2. Alive(s)  BY <1>t, <2>2, <2>6, <3>3 DEF Handover
      <4>3. QED  BY <3>1, <3>3, <4>1, <4>2
    <3>4. QED  BY <3>2, <3>3
  <2>7. FreeAtEntry'
    BY <1>t, <2>2, <2>4, <2>5 DEF Handover
  <2>8. QED  BY <2>2, <2>6, <2>7
<1>2. CASE SkipLine \/ BottomHalf \/ YieldReturns \/ SystemStopped \/ GoIdle \/ StiHlt
          \/ GetcharEmpty \/ SysRead \/ (\E i \in Lines : Interrupt(i) \/ DeviceRaises(i))
  <2>1. UNCHANGED <<state, saved, at, cur>>
    BY <1>2 DEF SkipLine, BottomHalf, NextLine, YieldReturns, SystemStopped, GoIdle, StiHlt,
                StopScanning, GetcharEmpty, SysRead, Interrupt, DeviceRaises, tableVars
  <2>2. QED  BY <2>1
<1>3. CASE Wakeup
  BY <1>3, <1>t DEF Wakeup, NextLine, ProcWakeup, WithState
<1>4. CASE Moves
  BY <1>4, <1>t, MovesGo DEF GoTo, tableVars
<1>5. CASE GopherdTick \/ ServerPoll \/ PingYield \/ GopherpyYield \/ SysYield
  <2>1. UNCHANGED <<state, saved>> /\ (\E site : YieldAt(site)) /\ pc = "run"
    BY <1>5 DEF GopherdTick, ServerPoll, PingYield, GopherpyYield, SysYield, At, tableVars
  <2>2. QED  BY <2>1, <1>t DEF YieldAt
<1>6. CASE Leaves
  <2>1. ProcExit(cur) /\ YieldAt("exit") /\ pc = "run"  BY <1>6, LeavesExit
  <2>2. QED  BY <2>1, <1>t DEF ProcExit, YieldAt
<1>7. CASE GetcharSleep
  BY <1>7, <1>t DEF GetcharSleep, SleepOn, YieldAt
<1>8. CASE Creates
  <2>1. GoTo("readline") /\ pc = "run"  BY <1>8, CreatesOne
  <2>2. \A s \in Slots :
           \/ state'[s] = state[s] /\ saved'[s] = saved[s]
           \/ state[s] = "UNUSED" /\ state'[s] = "READY" /\ saved'[s] = "entry"
    BY <1>8, CreatesOne, CreationSaves DEF TypeOK
  <2>3. QED  BY <2>1, <2>2, <1>t DEF GoTo
<1>9. CASE \E t \in Slots : Kill(t)
  <2>1. PICK t \in Slots : Kill(t)  BY <1>9
  <2>2. pc = "run"  BY <2>1 DEF Kill, Command, At
  <2>3. QED  BY <2>1, <2>2, <1>t DEF Kill, ProcKill, tableVars
<1>10. CASE UNCHANGED vars
  BY <1>10 DEF vars, tableVars
<1>11. QED
  BY <1>1, <1>2, <1>3, <1>4, <1>5, <1>6, <1>7, <1>8, <1>9, <1>10
     DEF Next, Scheduler, Kernel0, ShellCommand, Ring3Leaves, Moves, Leaves, Creates

LEMMA Inv2Always == Spec => []Inv2
<1>1. Init => Inv2  BY Inv2Init
<1>2. Inv1 /\ Inv2 /\ [Next]_vars => Inv2'  BY Inv2Next
<1>3. QED  BY <1>1, <1>2, Inv1Always, PTL DEF Spec

(* The esp of every process off the CPU is the depth at which it stopped,  *)
(* through reuse of slots, kills, sleeps and switches in any order.        *)
THEOREM ContextsKept == Spec => []SavedIsWhereItStopped
<1>1. Inv2 => SavedIsWhereItStopped  BY DEF Inv2
<1>2. QED  BY <1>1, Inv2Always, PTL

(***************************************************************************)
(* Wake-ups.  Every sleeper sleeps on the keyboard, and one about to sleep *)
(* that has been overtaken by a character has its interrupt pending: the   *)
(* bottom halves that would clear it run after the sleep, on the same      *)
(* stack.                                                                  *)
(***************************************************************************)
SleepersWaitForKeys == \A s \in Slots : state[s] = "BLOCKED" => blockedOn[s] = KEYBOARD

SleeperWarned == pc = "sleep" /\ kb > 0 => KEYBOARD \in pending

Inv3 == NoLostWakeup /\ SleepersWaitForKeys /\ SleeperWarned

LEMMA Inv3Init == Init => Inv3
BY DEF Init, TableInit, IrqInit, Inv3, NoLostWakeup, SleepersWaitForKeys, SleeperWarned

(* A creation puts nobody to sleep.                                        *)
LEMMA CreationSleeps ==
    ASSUME TableTypeOK,
           \/ \E p \in Programs : ProcCreate(p)
           \/ ProcCreateRing3
           \/ ProcLoadElf
    PROVE  \A s \in Slots :
              state'[s] = "BLOCKED" => state[s] = "BLOCKED" /\ blockedOn'[s] = blockedOn[s]
<1>1. CASE UNCHANGED <<state, blockedOn>>  BY <1>1
<1>2. ASSUME NEW s \in Slots, state' = [state EXCEPT ![s] = "READY"],
             blockedOn' = [blockedOn EXCEPT ![s] = NoEvent]
      PROVE  \A u \in Slots :
                state'[u] = "BLOCKED" => state[u] = "BLOCKED" /\ blockedOn'[u] = blockedOn[u]
  BY <1>2 DEF TableTypeOK
<1>3. QED
  BY <1>1, <1>2 DEF ProcCreate, ProcCreateRing3, ProcLoadElf, TableFull, OutOfMemory, Launch,
                    tableVars

LEMMA Inv3Next == Inv1 /\ Inv3 /\ [Next]_vars => Inv3'
<1> SUFFICES ASSUME TypeOK, HasCurrent, CurrentIsRunning, NoLostWakeup, SleepersWaitForKeys,
                    SleeperWarned, [Next]_vars
             PROVE  Inv3'
  BY DEF Inv1, Inv3, Typed
<1> USE DEF Inv3, NoLostWakeup, SleepersWaitForKeys, SleeperWarned
<1>t. /\ state \in [Slots -> ProcStates]
      /\ blockedOn \in [Slots -> {NoEvent, 0, 1}]
      /\ pc # "boot" => cur \in Slots
      /\ hi \in Lines /\ pending \subseteq Lines
      /\ kb \in 0 .. RING_SIZE - 1
  BY CurrentSlot DEF TypeOK, TableTypeOK, IrqTypeOK, CpuTypeOK
<1>1. CASE SchedulerRun \/ Switch
  <2>1. PICK n \in Slots : SwitchTo(n)  BY <1>1 DEF SchedulerRun, Switch
  <2>2. UNCHANGED <<blockedOn, pending, kb, hi>> /\ pc # "wakeup" /\ pc' # "sleep"
    BY <1>1, <2>1 DEF SchedulerRun, Switch, SwitchTo, ContextSwitch
  <2>3. \A s \in Slots : state'[s] = "BLOCKED" => state[s] = "BLOCKED"
    BY <1>t, <2>1 DEF SwitchTo, Handover
  <2>4. QED  BY <2>2, <2>3
<1>2. CASE SkipLine
  BY <1>2 DEF SkipLine, NextLine, tableVars, irqVars
<1>3. CASE BottomHalf
  BY <1>3, <1>t DEF BottomHalf, tableVars
<1>4. CASE Wakeup
  <2>1. UNCHANGED <<pending, kb>> /\ pc = "wakeup" /\ pc' # "sleep"
    BY <1>4 DEF Wakeup, NextLine, irqVars
  <2>2. \A s \in Slots :
           state'[s] = "BLOCKED" =>
              state[s] = "BLOCKED" /\ blockedOn'[s] = blockedOn[s] /\ blockedOn[s] # hi
    BY <1>4, <1>t DEF Wakeup, ProcWakeup, WithState
  <2>3. QED  BY <2>1, <2>2
<1>5. CASE YieldReturns \/ SystemStopped \/ GoIdle \/ StiHlt
  <2>1. UNCHANGED <<state, blockedOn, pending, kb>> /\ pc # "wakeup" /\ pc' # "sleep"
    BY <1>5 DEF YieldReturns, SystemStopped, GoIdle, StiHlt, NobodyReady, StopScanning,
                tableVars, irqVars
  <2>2. QED  BY <2>1
<1>6. CASE Moves
  <2>1. pc = "run" /\ pc' = "run" /\ UNCHANGED <<state, blockedOn>>
    BY <1>6, MovesGo DEF GoTo, tableVars
  <2>2. UNCHANGED pending /\ (kb' > 0 => kb > 0)
    BY <1>6, <1>t DEF Moves, Start, Getchar, OtherCommand, Demo, Ping, PingEnd, GopherpyReturns,
                      SysYieldReturns, irqVars
  <2>3. QED  BY <2>1, <2>2
<1>7. CASE GopherdTick \/ ServerPoll \/ PingYield \/ GopherpyYield \/ SysYield
  BY <1>7 DEF GopherdTick, ServerPoll, PingYield, GopherpyYield, SysYield, YieldAt, At, tableVars, irqVars
<1>8. CASE Leaves
  <2>1. ProcExit(cur) /\ YieldAt("exit") /\ pc = "run" /\ UNCHANGED <<pending, kb>>
    BY <1>8, LeavesExit
  <2>2. QED  BY <2>1, <1>t DEF ProcExit, YieldAt
<1>9. CASE GetcharEmpty
  BY <1>9 DEF GetcharEmpty, Reading, At, tableVars, irqVars
<1>10. CASE GetcharSleep
  BY <1>10, <1>t DEF GetcharSleep, SleepOn, YieldAt, irqVars
<1>11. CASE Creates
  <2>1. pc = "run" /\ pc' = "run" /\ UNCHANGED <<pending, kb>>
    BY <1>11, CreatesOne DEF GoTo, irqVars
  <2>2. \A s \in Slots :
           state'[s] = "BLOCKED" => state[s] = "BLOCKED" /\ blockedOn'[s] = blockedOn[s]
    BY <1>11, CreatesOne, CreationSleeps DEF TypeOK
  <2>3. QED  BY <2>1, <2>2
<1>12. CASE \E t \in Slots : Kill(t)
  <2>1. PICK t \in Slots : Kill(t)  BY <1>12
  <2>2. QED  BY <2>1, <1>t DEF Kill, ProcKill, Command, At, tableVars, irqVars
<1>13. CASE SysRead
  BY <1>13, <1>t DEF SysRead, At, tableVars
<1>14. CASE \E i \in Lines : Interrupt(i) \/ DeviceRaises(i)
  <2>1. PICK i \in Lines : Interrupt(i) \/ DeviceRaises(i)  BY <1>14
  <2>2. UNCHANGED <<state, blockedOn, hi>> /\ (pc = "wakeup" => pc' = "wakeup")
          /\ (pc' = "sleep" => pc = "sleep")
    BY <2>1 DEF Interrupt, DeviceRaises, tableVars
  <2>3. pending \subseteq pending' /\ (kb' > 0 => kb > 0 \/ KEYBOARD \in pending')
    BY <2>1, <1>t DEF Interrupt, DeviceRaises, IrqDispatch, Raise, TopHalf
  <2>4. QED  BY <2>2, <2>3
<1>15. CASE UNCHANGED vars
  BY <1>15 DEF vars, tableVars, irqVars
<1>16. QED
  BY <1>1, <1>2, <1>3, <1>4, <1>5, <1>6, <1>7, <1>8, <1>9, <1>10, <1>11, <1>12, <1>13, <1>14,
     <1>15
     DEF Next, Scheduler, Kernel0, ShellCommand, Ring3Leaves, Moves, Leaves, Creates

(* A character that arrives at any point around the sleep of its reader    *)
(* leaves a wake-up pending.                                               *)
THEOREM WakeupsKept == Spec => []NoLostWakeup
<1>1. Init => Inv3  BY Inv3Init
<1>2. Inv1 /\ Inv3 /\ [Next]_vars => Inv3'  BY Inv3Next
<1>3. Inv3 => NoLostWakeup  BY DEF Inv3
<1>4. QED  BY <1>1, <1>2, <1>3, Inv1Always, PTL DEF Spec

(***************************************************************************)
(* Which sites a process can be at depends on its ring: code at CPL3 runs  *)
(* with IF set, and no context is ever saved there.                        *)
(***************************************************************************)
Ring0Sites == {"tick", "readline", "command", "demo", "ping", "poll",
               "py", "py_yield", "py_yield_if", "py_end"}

SitesMatch ==
    \A s \in Slots :
       /\ at[s] \in {"cpl3", "sys_yield"} => IsRing3(s)
       /\ at[s] \in Ring0Sites => ~IsRing3(s)
       /\ state[s] # "UNUSED" /\ saved[s] = "sys_yield" => IsRing3(s)
       /\ state[s] # "UNUSED" /\ saved[s] \in Ring0Sites => ~IsRing3(s)

OnlyRunsAtCpl3 ==
    \A s \in Slots : /\ saved[s] # "cpl3"
                     /\ at[s] = "cpl3" => s = cur /\ pc = "run" /\ iflag

LoadedContext ==
    cur # NoProc /\ Alive(cur) => /\ cr3 = space[cur]
                                  /\ IsRing3(cur) => tss = cur

Ring0Space == \A s \in Slots : Alive(s) /\ ~IsRing3(s) => space[s] = KERNEL_SPACE

Inv4 == SitesMatch /\ OnlyRunsAtCpl3 /\ LoadedContext /\ Ring0Space

LEMMA Inv4Init == Init => Inv4
BY DEF Init, TableInit, Inv4, SitesMatch, OnlyRunsAtCpl3, LoadedContext, Ring0Space, Ring0Sites,
       Alive, IsRing3, Slots

(* What a creation does to each slot: nothing that matters while it stays  *)
(* UNUSED, or a process at its entry with the kernel's space if it is      *)
(* ring-0.                                                                 *)
LEMMA CreationSlots ==
    ASSUME TableTypeOK,
           \/ \E p \in Programs \ {"user"} : ProcCreate(p)
           \/ ProcCreateRing3
           \/ ProcLoadElf
    PROVE  \A s \in Slots :
              \/ /\ state'[s] = state[s] /\ prog'[s] = prog[s]
                 /\ space'[s] = space[s] /\ saved'[s] = saved[s]
              \/ /\ state[s] = "UNUSED" /\ state'[s] = "READY" /\ saved'[s] = "entry"
                 /\ prog'[s] # "user" => space'[s] = KERNEL_SPACE
<1> DEFINE Kept(s) == /\ state'[s] = state[s] /\ prog'[s] = prog[s]
                      /\ space'[s] = space[s] /\ saved'[s] = saved[s]
           Fresh(s) == /\ state[s] = "UNUSED" /\ state'[s] = "READY" /\ saved'[s] = "entry"
                       /\ prog'[s] # "user" => space'[s] = KERNEL_SPACE
<1>1. CASE UNCHANGED <<state, prog, space, saved>>  BY <1>1
<1>2. ASSUME NEW s \in Slots, FirstFreeSlot(s), NEW p, NEW h, NEW r, Launch(s, p, h, r),
             p # "user" => h = KERNEL_SPACE
      PROVE  \A u \in Slots : Kept(u) \/ Fresh(u)
  BY <1>2 DEF FirstFreeSlot, IsFirst, WithState, TableTypeOK, Launch
<1>3. QED
  BY <1>1, <1>2 DEF ProcCreate, ProcCreateRing3, ProcLoadElf, TableFull, OutOfMemory, tableVars

LEMMA Inv4Next == Inv1 /\ Inv2 /\ Inv4 /\ [Next]_vars => Inv4'
<1> SUFFICES ASSUME TypeOK, HasCurrent, CurrentIsRunning, FreeAtEntry,
                    SitesMatch, OnlyRunsAtCpl3, LoadedContext, Ring0Space, [Next]_vars
             PROVE  Inv4'
  BY DEF Inv1, Inv2, Inv4, Typed
<1> USE DEF Inv4, SitesMatch, OnlyRunsAtCpl3, LoadedContext, Ring0Space, Alive, IsRing3, Ring0Sites
<1>t. /\ state \in [Slots -> ProcStates] /\ prog \in [Slots -> Programs]
      /\ space \in [Slots -> Spaces \cup {KERNEL_SPACE, 0}]
      /\ saved \in [Slots -> Sites] /\ at \in [Slots -> Sites]
      /\ cur \in Slots \cup {NoProc}
      /\ pc # "boot" => cur \in Slots
      /\ pc \in {"run", "sleep"} => state[cur] = "RUNNING"
      /\ \A s \in Slots : state[s] = "RUNNING" => s = cur
      /\ cur # NoProc => state[cur] # "UNUSED"
  BY CurrentSlot DEF TypeOK, TableTypeOK, CpuTypeOK, CurrentIsRunning
<1>1. CASE SchedulerRun \/ Switch
  <2>1. PICK n \in Slots : SwitchTo(n)  BY <1>1 DEF SchedulerRun, Switch
  <2>2. cur' = n /\ n # NoProc /\ state' = Handover(n) /\ UNCHANGED <<prog, space>> /\ pc # "run"
    BY <1>1, <2>1 DEF SwitchTo, Slots, NoProc, SchedulerRun, Switch
  <2>3. saved' = IF cur = NoProc THEN saved ELSE [saved EXCEPT ![cur] = at[cur]]
    BY <2>1 DEF SwitchTo, ContextSwitch
  <2>4. at' = at \/ at' = [at EXCEPT ![n] = saved[n]]
    BY <2>1 DEF SwitchTo, ContextSwitch
  <2>5. state[n] = "READY"  BY <2>1 DEF SwitchTo, NextReady
  <2>6. \A s \in Slots : /\ Alive(s)' => Alive(s)
                         /\ (state[s] = "UNUSED")' <=> state[s] = "UNUSED"
    BY <1>t, <2>2, <2>5 DEF Handover
  <2>7. SitesMatch'
    <3> SUFFICES ASSUME NEW s \in Slots
                 PROVE  /\ at'[s] = at[s] \/ (state[s] # "UNUSED" /\ at'[s] = saved[s])
                        /\ saved'[s] = saved[s] \/ saved'[s] = at[s]
      BY <2>2, <2>6
    <3>1. at'[s] = at[s] \/ (state[s] # "UNUSED" /\ at'[s] = saved[s])
      BY <1>t, <2>4, <2>5
    <3>2. saved'[s] = saved[s] \/ saved'[s] = at[s]
      BY <1>t, <2>3
    <3>3. QED  BY <3>1, <3>2
  <2>8. OnlyRunsAtCpl3'  BY <1>t, <2>2, <2>3, <2>4
  <2>9. LoadedContext'  BY <2>1, <2>2 DEF SwitchTo, LoadContext
  <2>10. Ring0Space'  BY <2>2, <2>6
  <2>11. QED  BY <2>7, <2>8, <2>9, <2>10
<1>2. CASE SkipLine \/ BottomHalf \/ YieldReturns \/ SystemStopped \/ GoIdle \/ StiHlt
  <2>1. UNCHANGED <<state, prog, space, saved, at, cur, cr3, tss>> /\ pc # "run"
    BY <1>2 DEF SkipLine, BottomHalf, NextLine, YieldReturns, SystemStopped, GoIdle, StiHlt,
                NobodyReady, StopScanning, tableVars
  <2>2. QED  BY <2>1
<1>3. CASE Wakeup
  <2>1. UNCHANGED <<prog, space, saved, at, cur, cr3, tss>> /\ pc # "run"
    BY <1>3 DEF Wakeup, NextLine, ProcWakeup
  <2>2. \A s \in Slots : state'[s] = state[s] \/ (state[s] = "BLOCKED" /\ state'[s] = "READY")
    BY <1>3, <1>t DEF Wakeup, ProcWakeup, WithState
  <2>3. QED  BY <1>t, <2>1, <2>2
<1>4. CASE Start
  <2>1. pc = "run" /\ at[cur] = "entry" /\ UNCHANGED tableVars  BY <1>4, StartGoes DEF At
  <2>2. PICK site : /\ GoTo(site)
                    /\ \/ site = "cpl3" /\ prog[cur] = "user"
                       \/ site \in {"tick", "readline", "poll", "py"} /\ prog[cur] # "user"
    BY <1>4, <1>t, <2>1 DEF Start, Programs
  <2>3. prog[cur] = "user" => iflag'  BY <1>4, Zenon DEF Start
  <2>4. \A s \in Slots : at[s] # "cpl3"
    BY <2>1
  <2>5. QED  BY <1>t, <2>1, <2>2, <2>3, <2>4 DEF GoTo, tableVars
<1>5. CASE Getchar \/ OtherCommand \/ Demo \/ Ping \/ PingEnd \/ GopherpyReturns
  <2>1. /\ pc = "run" /\ at[cur] \in Ring0Sites /\ UNCHANGED tableVars
        /\ \E site \in Ring0Sites : GoTo(site)
    BY <1>5 DEF Getchar, Reading, OtherCommand, Demo, Ping, PingEnd, GopherpyReturns, Command, At
  <2>2. QED  BY <1>t, <2>1 DEF GoTo, tableVars
<1>6. CASE SysYieldReturns
  <2>1. pc = "run" /\ at[cur] = "sys_yield" /\ UNCHANGED tableVars /\ GoTo("cpl3") /\ iflag'
    BY <1>6 DEF SysYieldReturns, At
  <2>2. QED  BY <1>t, <2>1 DEF GoTo, tableVars
<1>7. CASE GopherdTick \/ ServerPoll \/ PingYield \/ GopherpyYield
  <2>1. /\ pc = "run" /\ at[cur] \in Ring0Sites /\ UNCHANGED tableVars
        /\ \E site \in Ring0Sites : YieldAt(site)
    BY <1>7 DEF GopherdTick, ServerPoll, PingYield, GopherpyYield, At
  <2>2. QED  BY <1>t, <2>1 DEF YieldAt, tableVars
<1>8. CASE SysYield
  <2>1. pc = "run" /\ at[cur] = "cpl3" /\ UNCHANGED tableVars /\ YieldAt("sys_yield")
    BY <1>8 DEF SysYield, At
  <2>2. QED  BY <1>t, <2>1 DEF YieldAt, tableVars
<1>9. CASE Leaves
  <2>1. ProcExit(cur) /\ YieldAt("exit") /\ pc = "run"  BY <1>9, LeavesExit
  <2>2. QED  BY <2>1, <1>t DEF ProcExit, FreeSpace, YieldAt
<1>10. CASE GetcharEmpty
  <2>1. /\ UNCHANGED <<state, prog, space, saved, at, cur, cr3, tss>>
        /\ pc = "run" /\ at[cur] \in Ring0Sites
    BY <1>10 DEF GetcharEmpty, Reading, At, tableVars
  <2>2. QED  BY <2>1
<1>11. CASE GetcharSleep
  <2>1. SleepOn(cur, KEYBOARD) /\ YieldAt(at[cur]) /\ pc = "sleep"  BY <1>11 DEF GetcharSleep
  <2>2. QED  BY <2>1, <1>t DEF SleepOn, YieldAt
<1>12. CASE Creates
  <2>1. GoTo("readline") /\ pc = "run" /\ at[cur] = "command" /\ UNCHANGED iflag
    BY <1>12, CreatesOne DEF irqVars
  <2>2. \A s \in Slots :
           \/ /\ state'[s] = state[s] /\ prog'[s] = prog[s]
              /\ space'[s] = space[s] /\ saved'[s] = saved[s]
           \/ /\ state[s] = "UNUSED" /\ state'[s] = "READY" /\ saved'[s] = "entry"
              /\ prog'[s] # "user" => space'[s] = KERNEL_SPACE
    BY <1>12, CreatesOne, CreationSlots DEF TypeOK
  <2>3. QED  BY <2>1, <2>2, <1>t DEF GoTo, FreeAtEntry
<1>13. CASE \E t \in Slots : Kill(t)
  <2>1. PICK t \in Slots : Kill(t)  BY <1>13
  <2>2. pc = "run" /\ at[cur] = "command"  BY <2>1 DEF Kill, Command, At
  <2>3. QED  BY <2>1, <2>2, <1>t DEF Kill, ProcKill, FreeSpace, tableVars, irqVars
<1>14. CASE SysRead
  BY <1>14 DEF SysRead, tableVars
<1>15. CASE \E i \in Lines : Interrupt(i) \/ DeviceRaises(i)
  <2>1. UNCHANGED <<state, prog, space, saved, at, cur, cr3, tss, iflag>>
          /\ (pc = "run" => pc' = "run")
    BY <1>15 DEF Interrupt, DeviceRaises, IrqDispatch, Raise, tableVars
  <2>2. QED  BY <2>1
<1>16. CASE UNCHANGED vars
  BY <1>16 DEF vars, tableVars, irqVars
<1>17. QED
  BY <1>1, <1>2, <1>3, <1>4, <1>5, <1>6, <1>7, <1>8, <1>9, <1>10, <1>11, <1>12, <1>13, <1>14,
     <1>15, <1>16
     DEF Next, Scheduler, Kernel0, ShellCommand, Ring3Leaves, Leaves, Creates

LEMMA Inv4Always == Spec => []Inv4
<1>1. Init => Inv4  BY Inv4Init
<1>2. Inv1 /\ Inv2 /\ Inv4 /\ [Next]_vars => Inv4'  BY Inv4Next
<1>3. QED  BY <1>1, <1>2, Inv1Always, Inv2Always, PTL DEF Spec

(* paging_new_address_space hands out a handle only to a ring-0 process,   *)
(* which runs in the page directory of the kernel, so never the one in CR3. *)
THEOREM LoadedSpaceKept == Spec => LoadedSpaceIsNotReused
<1>1. Inv1 /\ Inv1' /\ Inv4 /\ [Next]_vars => [cr3 \notin inUse' \ inUse]_vars
  <2> SUFFICES ASSUME Inv1, Inv1', Inv4, Next  PROVE  cr3 \notin inUse' \ inUse
    OBVIOUS
  <2>1. CASE Creates
    <3>1. pc = "run" /\ at[cur] = "command" /\ cur \in Slots /\ state[cur] = "RUNNING"
      BY <2>1, CreatesOne, CurrentSlot DEF Inv1, Typed, TypeOK, CurrentIsRunning
    <3>2. cr3 = KERNEL_SPACE
      BY <3>1 DEF Inv4, SitesMatch, LoadedContext, Ring0Space, Ring0Sites, Alive, NoProc, Slots
    <3>3. inUse' \subseteq Spaces  BY DEF Inv1, Typed, TypeOK, TableTypeOK
    <3>4. QED  BY <3>2, <3>3 DEF Spaces, KERNEL_SPACE
  <2>2. CASE Leaves
    BY <2>2, LeavesExit DEF ProcExit, FreeSpace
  <2>3. CASE \E t \in Slots : Kill(t)
    BY <2>3 DEF Kill, ProcKill, FreeSpace, tableVars
  <2>4. CASE Moves
    BY <2>4, MovesGo DEF tableVars
  <2>5. CASE \/ Scheduler
             \/ GopherdTick \/ ServerPoll \/ GetcharEmpty \/ GetcharSleep
             \/ PingYield \/ GopherpyYield \/ SysYield \/ SysRead
             \/ \E i \in Lines : Interrupt(i) \/ DeviceRaises(i)
    BY <2>5 DEF Scheduler, SchedulerRun, Switch, SwitchTo, SkipLine, BottomHalf, Wakeup,
                ProcWakeup, YieldReturns, SystemStopped, GoIdle, StiHlt, StopScanning,
                GopherdTick, ServerPoll, GetcharEmpty, GetcharSleep, SleepOn, PingYield,
                GopherpyYield, SysYield, SysRead, Interrupt, DeviceRaises, tableVars
  <2>6. QED
    BY <2>1, <2>2, <2>3, <2>4, <2>5 DEF Next, Kernel0, ShellCommand, Ring3Leaves, Moves, Leaves, Creates
<1>2. QED  BY <1>1, Inv1Always, Inv4Always, PTL DEF Spec, LoadedSpaceIsNotReused

-----------------------------------------------------------------------------
(***************************************************************************)
(* Ownership of address spaces and of stacks, proved for every instance    *)
(* with at least as many page directories as process slots, which is what  *)
(* paging.c provides ("one per ring-3 process").  With fewer,              *)
(* proc_create_ring3 launches a process it has just given up, and neither  *)
(* invariant holds.                                                        *)
(***************************************************************************)

EnoughSpaces == MAX_ADDR_SPACES >= MAX_PROCESSES

Owned == SpaceOwnership /\ LiveStacks

Inv5 == EnoughSpaces => Owned

LEMMA Inv5Init == Init => Inv5
BY DEF Init, TableInit, Inv5, Owned, SpaceOwnership, LiveStacks, Owners, Alive, IsRing3,
       NoProc, Slots

(* A process slot that is free leaves an address space that is free: the   *)
(* owners are at most one fewer than the slots.                            *)
LEMMA FreeSlotFreeSpace ==
    ASSUME SpaceOwnership, EnoughSpaces, NEW s \in Slots, state[s] = "UNUSED"
    PROVE  ~(Spaces \subseteq inUse)
<1> SUFFICES ASSUME Spaces \subseteq inUse PROVE FALSE  OBVIOUS
<1> DEFINE owner == [h \in Spaces |-> CHOOSE o \in Owners : space[o] = h]
<1>1. \A h \in Spaces : owner[h] \in Owners /\ space[owner[h]] = h
  BY DEF SpaceOwnership
<1>2. owner \in [Spaces -> Slots \ {s}]
  <2>1. Owners \subseteq Slots \ {s}  BY DEF Owners, Alive
  <2>2. QED  BY <1>1, <2>1
<1>3. IsFiniteSet(Spaces) /\ Cardinality(Spaces) = MAX_ADDR_SPACES
  BY FS_Interval, TableSizes DEF Spaces
<1>4. IsFiniteSet(Slots) /\ Cardinality(Slots) = MAX_PROCESSES
  BY FS_Interval, TableSizes DEF Slots
<1>5. IsFiniteSet(Slots \ {s}) /\ Cardinality(Slots \ {s}) = MAX_PROCESSES - 1
  BY <1>4, FS_RemoveElement
<1>6. Cardinality(Slots \ {s}) < Cardinality(Spaces)
  BY <1>3, <1>5, TableSizes DEF EnoughSpaces
<1> HIDE DEF owner
<1>7. PICK x, y \in Spaces : x # y /\ owner[x] = owner[y]
  BY <1>2, <1>3, <1>5, <1>6, FS_PigeonHole
<1>8. QED  BY <1>1, <1>7

(* So a creation leaves the owners alone or launches, in a slot nobody     *)
(* has, a process with a live region and, in ring 3, a space nobody has.   *)
LEMMA CreationOwns ==
    ASSUME TableTypeOK, SpaceOwnership, EnoughSpaces,
           \/ \E p \in Programs \ {"user"} : ProcCreate(p)
           \/ ProcCreateRing3
           \/ ProcLoadElf
    PROVE  \/ /\ UNCHANGED <<state, prog, space, inUse>>
              /\ \A s \in Slots : state[s] # "UNUSED" => region'[s] = region[s]
           \/ \E s \in Slots, p \in Programs, h \in Spaces \cup {KERNEL_SPACE} :
                 /\ state[s] = "UNUSED"
                 /\ Launch(s, p, h, "live")
                 /\ \/ p # "user" /\ inUse' = inUse
                    \/ p = "user" /\ h \in Spaces \ inUse /\ inUse' = inUse \cup {h}
<1>1. \A s \in Slots : FirstFreeSlot(s) => state[s] = "UNUSED"
  BY DEF FirstFreeSlot, IsFirst, WithState
<1>2. \A h \in Spaces : FirstFreeSpace(h) => h \in Spaces \ inUse
  BY DEF FirstFreeSpace, IsFirst
<1>3. \A s \in Slots : FirstFreeSlot(s) => ~(Spaces \subseteq inUse)
  BY <1>1, FreeSlotFreeSpace
<1>4. ASSUME NEW s \in Slots, FirstFreeSlot(s), OutOfMemory(s)
      PROVE  /\ UNCHANGED <<state, prog, space, inUse>>
             /\ \A u \in Slots : state[u] # "UNUSED" => region'[u] = region[u]
  BY <1>1, <1>4 DEF OutOfMemory, TableTypeOK
<1>5. CASE \E p \in Programs \ {"user"} : ProcCreate(p)
  BY <1>1, <1>4, <1>5 DEF ProcCreate, TableFull, tableVars
<1>6. CASE ProcCreateRing3
  BY <1>1, <1>2, <1>3, <1>4, <1>6 DEF ProcCreateRing3, TableFull, tableVars, Programs
<1>7. CASE ProcLoadElf
  BY <1>1, <1>2, <1>4, <1>7 DEF ProcLoadElf, tableVars, Programs
<1>8. QED  BY <1>5, <1>6, <1>7

LEMMA LaunchKeepsOwned ==
    ASSUME TypeOK, CurrentIsRunning, Owned, NEW s \in Slots, NEW p \in Programs,
           NEW h \in Spaces \cup {KERNEL_SPACE}, state[s] = "UNUSED",
           Launch(s, p, h, "live"), UNCHANGED cur,
           \/ p # "user" /\ inUse' = inUse
           \/ p = "user" /\ h \in Spaces \ inUse /\ inUse' = inUse \cup {h}
    PROVE  Owned'
<1> USE DEF Alive, IsRing3
<1>1. \A u \in Slots : u # s => /\ state'[u] = state[u] /\ prog'[u] = prog[u]
                                /\ space'[u] = space[u] /\ region'[u] = region[u]
  BY DEF Launch, TypeOK, TableTypeOK
<1>2. state'[s] = "READY" /\ prog'[s] = p /\ space'[s] = h /\ region'[s] = "live"
  BY DEF Launch, TypeOK, TableTypeOK
<1>3. Owners' = IF p = "user" THEN Owners \cup {s} ELSE Owners
  BY <1>1, <1>2 DEF Owners
<1>4. s \notin Owners  BY DEF Owners
<1>5. \A u \in Owners : space'[u] = space[u]  BY <1>1, <1>4 DEF Owners
<1>6. SpaceOwnership'
  BY <1>2, <1>3, <1>4, <1>5 DEF Owned, SpaceOwnership
<1>7. LiveStacks'
  BY <1>1, <1>2 DEF Owned, LiveStacks, CurrentIsRunning
<1>8. QED  BY <1>6, <1>7 DEF Owned

(* A process that gives its space back and is no longer alive takes its    *)
(* own space out of inUse and nobody else's.                               *)
LEMMA LeavingKeepsOwnership ==
    ASSUME TypeOK, SpaceOwnership, NEW t \in Slots,
           \A u \in Slots : u # t => state'[u] = state[u] /\ space'[u] = space[u],
           UNCHANGED prog, state'[t] \in {"ZOMBIE", "UNUSED"},
           IF t \in Owners THEN inUse' = inUse \ {space[t]} ELSE inUse' = inUse
    PROVE  SpaceOwnership'
<1>1. Owners' = Owners \ {t}
  BY DEF Owners, Alive, IsRing3
<1>2. \A u \in Owners \ {t} : space'[u] = space[u]
  BY DEF Owners
<1>3. QED  BY <1>1, <1>2 DEF SpaceOwnership

LEMMA Inv5Next == Inv1 /\ Inv5 /\ [Next]_vars => Inv5'
<1> SUFFICES ASSUME TypeOK, HasCurrent, CurrentIsRunning, SpaceOwnership, LiveStacks,
                    EnoughSpaces, [Next]_vars
             PROVE  Owned'
  BY DEF Inv1, Inv5, Owned, Typed, EnoughSpaces
<1>t. /\ state \in [Slots -> ProcStates] /\ prog \in [Slots -> Programs]
      /\ space \in [Slots -> Spaces \cup {KERNEL_SPACE, 0}]
      /\ region \in [Slots -> {"null", "live", "freed"}]
      /\ cur \in Slots \cup {NoProc}
      /\ pc # "boot" => cur \in Slots
      /\ pc \in {"run", "sleep"} => state[cur] = "RUNNING"
      /\ \A s \in Slots : state[s] = "RUNNING" => s = cur
  BY CurrentSlot DEF TypeOK, TableTypeOK, CpuTypeOK, CurrentIsRunning
<1>o. ASSUME UNCHANGED <<prog, space, region, inUse>>,
             \A s \in Slots : Alive(s)' <=> Alive(s),
             cur' = cur \/ (cur' \in Slots /\ Alive(cur'))
      PROVE  Owned'
  <2>1. Owners' = Owners  BY <1>o DEF Owners, IsRing3
  <2>2. SpaceOwnership'  BY <1>o, <2>1 DEF SpaceOwnership
  <2>3. LiveStacks'  BY <1>o DEF LiveStacks
  <2>4. QED  BY <2>2, <2>3 DEF Owned
<1>s. ASSUME UNCHANGED <<prog, space, region, inUse, state, cur>>  PROVE  Owned'
  BY <1>s, <1>o DEF Alive
<1>1. CASE SchedulerRun \/ Switch
  <2>1. PICK n \in Slots : SwitchTo(n)  BY <1>1 DEF SchedulerRun, Switch
  <2>2. /\ cur' = n /\ state' = Handover(n) /\ state[n] = "READY"
        /\ UNCHANGED <<prog, space, region, inUse>>
    BY <2>1 DEF SwitchTo, NextReady
  <2>3. \A s \in Slots : Alive(s)' <=> Alive(s)
    BY <1>t, <2>2 DEF Handover, Alive
  <2>4. QED  BY <2>2, <2>3, <1>o DEF Alive
<1>2. CASE SkipLine \/ BottomHalf \/ YieldReturns \/ SystemStopped \/ GoIdle \/ StiHlt
          \/ GetcharEmpty \/ SysRead \/ (\E i \in Lines : Interrupt(i) \/ DeviceRaises(i))
  <2>1. UNCHANGED <<prog, space, region, inUse, state, cur>>
    BY <1>2 DEF SkipLine, BottomHalf, NextLine, YieldReturns, SystemStopped, GoIdle, StiHlt,
                StopScanning, GetcharEmpty, SysRead, Interrupt, DeviceRaises, tableVars
  <2>2. QED  BY <2>1, <1>s
<1>3. CASE Wakeup
  <2>1. UNCHANGED <<prog, space, region, inUse, cur>>
    BY <1>3 DEF Wakeup, NextLine, ProcWakeup
  <2>2. \A s \in Slots : Alive(s)' <=> Alive(s)
    BY <1>3, <1>t DEF Wakeup, ProcWakeup, WithState, Alive
  <2>3. QED  BY <2>1, <2>2, <1>o
<1>4. CASE Moves
  BY <1>4, <1>s, MovesGo DEF GoTo, tableVars
<1>5. CASE GopherdTick \/ ServerPoll \/ PingYield \/ GopherpyYield \/ SysYield
  BY <1>5, <1>s DEF GopherdTick, ServerPoll, PingYield, GopherpyYield, SysYield, YieldAt, tableVars
<1>6. CASE GetcharSleep
  <2>1. UNCHANGED <<prog, space, region, inUse, cur>>
    BY <1>6 DEF GetcharSleep, SleepOn, YieldAt
  <2>2. \A s \in Slots : Alive(s)' <=> Alive(s)
    BY <1>6, <1>t DEF GetcharSleep, SleepOn, Alive
  <2>3. QED  BY <2>1, <2>2, <1>o
<1>7. CASE Leaves
  <2>1. ProcExit(cur) /\ YieldAt("exit") /\ cur \in Slots /\ state[cur] = "RUNNING"
    BY <1>7, <1>t, LeavesExit
  <2>2. cur \in Owners <=> IsRing3(cur)  BY <2>1 DEF Owners, Alive
  <2>3. SpaceOwnership'
    BY <2>1, <2>2, <1>t, LeavingKeepsOwnership DEF ProcExit, FreeSpace
  <2>4. LiveStacks'
    BY <2>1, <1>t DEF LiveStacks, ProcExit, YieldAt, Alive
  <2>5. QED  BY <2>3, <2>4 DEF Owned
<1>8. CASE Creates
  <2>1. UNCHANGED cur  BY <1>8, CreatesOne DEF GoTo
  <2>2. \/ \E p \in Programs \ {"user"} : ProcCreate(p)
        \/ ProcCreateRing3
        \/ ProcLoadElf
    BY <1>8, CreatesOne
  <2>3. CASE /\ UNCHANGED <<state, prog, space, inUse>>
             /\ \A s \in Slots : state[s] # "UNUSED" => region'[s] = region[s]
    <3>1. Owners' = Owners  BY <2>3 DEF Owners, Alive, IsRing3
    <3>2. SpaceOwnership'  BY <2>3, <3>1 DEF SpaceOwnership
    <3>3. LiveStacks'  BY <2>1, <2>3 DEF LiveStacks, Alive, CurrentIsRunning, NoProc, Slots
    <3>4. QED  BY <3>2, <3>3 DEF Owned
  <2>4. CASE \E s \in Slots, p \in Programs, h \in Spaces \cup {KERNEL_SPACE} :
                 /\ state[s] = "UNUSED"
                 /\ Launch(s, p, h, "live")
                 /\ \/ p # "user" /\ inUse' = inUse
                    \/ p = "user" /\ h \in Spaces \ inUse /\ inUse' = inUse \cup {h}
    BY <2>1, <2>4, LaunchKeepsOwned DEF Owned
  <2>5. QED  BY <2>2, <2>3, <2>4, CreationOwns DEF TypeOK
<1>9. CASE \E t \in Slots : Kill(t)
  <2>1. PICK t \in Slots : Kill(t)  BY <1>9
  <2>2. ProcKill(t) /\ UNCHANGED cur /\ cur \in Slots /\ state[cur] = "RUNNING"
    BY <2>1, <1>t DEF Kill, Command, At
  <2>3. CASE state[t] = "RUNNING"
    BY <2>2, <2>3, <1>s DEF ProcKill, tableVars
  <2>4. CASE state[t] # "RUNNING"
    <3>1. t \in Owners <=> state[t] \in {"READY", "BLOCKED"} /\ IsRing3(t)
      BY <2>4 DEF Owners, Alive
    <3>2. t \in Owners => space[t] >= 0
      <4>1. t \in Owners => space[t] \in Spaces
        BY DEF SpaceOwnership, TypeOK, TableTypeOK
      <4>2. QED  BY <4>1, TableSizes DEF Spaces
    <3>3. /\ t \in Owners => FreeSpace(t)
          /\ t \notin Owners => UNCHANGED <<inUse, space>>
      BY <2>2, <2>4, <3>1, <3>2 DEF ProcKill
    <3>4. state' = [state EXCEPT ![t] = "UNUSED"] /\ UNCHANGED prog
      BY <2>2, <2>4 DEF ProcKill
    <3>5. \A u \in Slots : u # t => state'[u] = state[u] /\ space'[u] = space[u]
      BY <3>3, <3>4, <1>t DEF FreeSpace
    <3>6. IF t \in Owners THEN inUse' = inUse \ {space[t]} ELSE inUse' = inUse
      BY <3>3 DEF FreeSpace
    <3>7. SpaceOwnership'
      BY <3>4, <3>5, <3>6, <1>t, LeavingKeepsOwnership
    <3>8. LiveStacks'
      BY <2>2, <2>4, <1>t DEF LiveStacks, ProcKill, Alive
    <3>9. QED  BY <3>7, <3>8 DEF Owned
  <2>5. QED  BY <2>3, <2>4
<1>10. CASE UNCHANGED vars
  BY <1>10, <1>s DEF vars, tableVars
<1>11. QED
  BY <1>1, <1>2, <1>3, <1>4, <1>5, <1>6, <1>7, <1>8, <1>9, <1>10
     DEF Next, Scheduler, Kernel0, ShellCommand, Ring3Leaves, Moves, Leaves, Creates

LEMMA Inv5Always == Spec => []Inv5
<1>1. Init => Inv5  BY Inv5Init
<1>2. Inv1 /\ Inv5 /\ [Next]_vars => Inv5'  BY Inv5Next
<1>3. QED  BY <1>1, <1>2, Inv1Always, PTL DEF Spec

(* No address space is shared, lost or given to two processes, whatever    *)
(* the order of creations, exits, faults and kills.                        *)
THEOREM SpacesOwned == Spec => [](EnoughSpaces => SpaceOwnership)
<1>1. Inv5 => (EnoughSpaces => SpaceOwnership)  BY DEF Inv5, Owned
<1>2. QED  BY <1>1, Inv5Always, PTL

(* Nobody runs, or can be made to run, on a stack that has been freed.     *)
THEOREM StacksLive == Spec => [](EnoughSpaces => LiveStacks)
<1>1. Inv5 => (EnoughSpaces => LiveStacks)  BY DEF Inv5, Owned
<1>2. QED  BY <1>1, Inv5Always, PTL

(* Code at CPL3 runs in its own page directory, with its own kernel stack  *)
(* in the TSS and with interrupts enabled.                                 *)
THEOREM Ring3Protected == Spec => [](EnoughSpaces => ProtectedContext)
<1>1. Inv1 /\ Inv4 /\ Inv5 => (EnoughSpaces => ProtectedContext)
  <2> SUFFICES ASSUME Inv1, Inv4, SpaceOwnership, At("cpl3")
               PROVE  IsRing3(cur) /\ cr3 = space[cur] /\ cr3 \in inUse /\ tss = cur /\ iflag
    BY DEF Inv5, Owned, ProtectedContext
  <2>1. pc = "run" /\ at[cur] = "cpl3" /\ cur \in Slots /\ cur # NoProc /\ state[cur] = "RUNNING"
    BY CurrentSlot DEF At, Inv1, Typed, TypeOK, HasCurrent, CurrentIsRunning
  <2>2. IsRing3(cur) /\ iflag /\ cr3 = space[cur] /\ tss = cur
    BY <2>1 DEF Inv4, SitesMatch, OnlyRunsAtCpl3, LoadedContext, Alive
  <2>3. cr3 \in inUse
    BY <2>1, <2>2 DEF SpaceOwnership, Owners, Alive
  <2>4. QED  BY <2>2, <2>3
<1>2. QED  BY <1>1, Inv1Always, Inv4Always, Inv5Always, PTL
==============================================================================
