-------------------------------- MODULE Memory --------------------------------
(***************************************************************************)
(* Who holds the pages of the arena: the regions of memory.c that hold the *)
(* stacks of processes, the images that proc_load_elf loads, and the pools *)
(* of kmalloc.  It starts at the first prompt of the shell, when           *)
(* kernel_main, gopherd and the shell have made their regions, and goes on *)
(* with every operation that takes pages or gives them back.               *)
(*                                                                         *)
(* proc_load_elf is one step per page_alloc; nothing else runs meanwhile,  *)
(* because it does not yield.  That every ring-3 process finds an address  *)
(* space is shown in module SchedProofs.  The heap counts in units: a page *)
(* has PAGE_UNITS of them and a pool's slots have SlotUnits[p].            *)
(***************************************************************************)
EXTENDS PageAlloc, Sequences

CONSTANTS
    MAX_PROCESSES,      \* slots of the process table (8)
    REGION_PAGES,       \* pages of the region of a process (6)
    BOOT_PAGES,         \* pages taken when the shell starts
    GOPHERD_PAGE,       \* first page of the region of gopherd
    Programs,           \* the ELF files: sequences of their PT_LOAD segments
    POOL_ARENA_PAGES,   \* pages of a pool (4)
    PAGE_UNITS,         \* units of a page
    SlotUnits           \* slot sizes of the pools, in units, increasing

Segments == [at : Nat, pages : Nat]     \* page of the first address, and how many

ASSUME MemorySizes ==
    /\ MAX_PROCESSES \in Nat \ {0, 1}
    /\ REGION_PAGES \in Nat \ {0}
    /\ POOL_ARENA_PAGES \in Nat \ {0}
    /\ GOPHERD_PAGE \in Nat \ {0}
    /\ BOOT_PAGES \in Nat
    /\ GOPHERD_PAGE + REGION_PAGES <= BOOT_PAGES
    /\ BOOT_PAGES <= ARENA_PAGES
    /\ Programs \subseteq Seq(Segments)
    /\ PAGE_UNITS \in Nat \ {0}
    /\ SlotUnits \in Seq(Nat \ {0})

Slots == 0 .. MAX_PROCESSES - 1
GOPHERD == 0
SHELL == 1
Pools == DOMAIN SlotUnits

VARIABLES
    taken,      \* the slots of the process table that are not UNUSED
    regionAt,   \* first page of processes[s].region, 0 for NULL
    image,      \* the pages that process s was given for its ELF file
    load,       \* the proc_load_elf under way
    poolAt,     \* first page of pools[p].base, 0 for NULL
    slots,      \* the indices set in pools[p].used_bitmap
    objects     \* what kmalloc has returned and kfree not taken: [pool, addr]

vars == <<pageVars, taken, regionAt, image, load, poolAt, slots, objects>>

NoLoad == [slot |-> -1, todo |-> <<>>, got |-> {}]
Loading == load # NoLoad

Base(p) == poolAt[p] * PAGE_UNITS
PoolUnits == POOL_ARENA_PAGES * PAGE_UNITS
NumSlots(p) == PoolUnits \div SlotUnits[p]

TypeOK ==
    /\ used \subseteq Pages
    /\ hint \in 0 .. ARENA_PAGES
    /\ call \in [n : Nat, page : Pages]
    /\ taken \subseteq Slots
    /\ regionAt \in [Slots -> Pages]
    /\ image \in [Slots -> SUBSET Pages]
    /\ load = NoLoad \/ load \in [slot : Slots, todo : Seq(Segments), got : SUBSET Pages]
    /\ poolAt \in [Pools -> Pages]
    /\ slots \in [Pools -> SUBSET Nat]
    /\ objects \subseteq [pool : Pools, addr : Nat]

Init ==
    /\ used = 0 .. BOOT_PAGES - 1
    /\ hint = BOOT_PAGES
    /\ call = [n |-> 0, page |-> 0]
    /\ taken = {GOPHERD, SHELL}
    /\ regionAt = [s \in Slots |-> IF s = GOPHERD THEN GOPHERD_PAGE ELSE 0]
    /\ image = [s \in Slots |-> {}]
    /\ load = NoLoad
    /\ poolAt = [p \in Pools |-> 0]
    /\ slots = [p \in Pools |-> {}]
    /\ objects = {}

-----------------------------------------------------------------------------
(* Processes.  The region of the shell counts as the kernel's: nobody is   *)
(* left to kill the shell.                                                 *)

FirstFreeSlot(s) == IsFirst(s, Slots \ taken)

(* proc_create and proc_create_ring3: region_new and a slot.               *)
Create(s) ==
    /\ ~Loading
    /\ FirstFreeSlot(s)
    /\ \/ \E page \in Pages :
             /\ PageAlloc(REGION_PAGES, page)
             /\ regionAt' = [regionAt EXCEPT ![s] = page]
             /\ taken' = taken \cup {s}
       \/ /\ NoPages(REGION_PAGES)
          /\ regionAt' = [regionAt EXCEPT ![s] = 0]
          /\ UNCHANGED taken
    /\ UNCHANGED <<image, load, poolAt, slots, objects>>

(* proc_load_elf, one action for each page_alloc of it.                    *)
LoadElf(s, program) ==
    /\ ~Loading
    /\ FirstFreeSlot(s)
    /\ load' = [slot |-> s, todo |-> program, got |-> {}]
    /\ UNCHANGED <<pageVars, taken, regionAt, image, poolAt, slots, objects>>

LoadSegment ==
    /\ Loading
    /\ load.todo # <<>>
    /\ \/ \E page \in Pages :
             /\ PageAlloc(Head(load.todo).pages, page)
             /\ load' = [load EXCEPT !.todo = Tail(@),
                                     !.got = @ \cup Run(page, Head(load.todo).pages)]
       \/ NoPages(Head(load.todo).pages) /\ load' = NoLoad
    /\ UNCHANGED <<taken, regionAt, image, poolAt, slots, objects>>

(* A segment that reaches beyond the file: the load is given up.           *)
LoadBadSegment ==
    /\ Loading
    /\ load.todo # <<>>
    /\ load' = NoLoad
    /\ UNCHANGED <<pageVars, taken, regionAt, image, poolAt, slots, objects>>

LoadRegion ==
    /\ Loading
    /\ load.todo = <<>>
    /\ \/ \E page \in Pages :
             /\ PageAlloc(REGION_PAGES, page)
             /\ regionAt' = [regionAt EXCEPT ![load.slot] = page]
             /\ image' = [image EXCEPT ![load.slot] = load.got]
             /\ taken' = taken \cup {load.slot}
       \/ /\ NoPages(REGION_PAGES)
          /\ regionAt' = [regionAt EXCEPT ![load.slot] = 0]
          /\ UNCHANGED <<image, taken>>
    /\ load' = NoLoad
    /\ UNCHANGED <<poolAt, slots, objects>>

(* proc_kill, after which only the region has gone back: the directory     *)
(* that mapped the image is dropped here or, earlier, by proc_exit, and    *)
(* its pages are not freed with it.                                        *)
Kill_KeepsRegion(s) ==          \* mutant: region_destroy is not called
    /\ ~Loading
    /\ s \in taken \ {SHELL}
    /\ regionAt' = [regionAt EXCEPT ![s] = 0]
    /\ image' = [image EXCEPT ![s] = {}]
    /\ taken' = taken \ {s}
    /\ UNCHANGED <<pageVars, load, poolAt, slots, objects>>
Kill(s) ==
    /\ ~Loading
    /\ s \in taken \ {SHELL}
    /\ PageFree(regionAt[s], REGION_PAGES)
    /\ regionAt' = [regionAt EXCEPT ![s] = 0]
    /\ image' = [image EXCEPT ![s] = {}]
    /\ taken' = taken \ {s}
    /\ UNCHANGED <<load, poolAt, slots, objects>>

-----------------------------------------------------------------------------
(* The heap.  Every pool is the first that fits for some size; a size that *)
(* none fits and a full pool change nothing.                               *)

(* Slot i of pool p is the first free one and becomes an object at the     *)
(* given base.                                                             *)
TakeSlot(p, i, base) ==
    /\ IsFirst(i, (0 .. NumSlots(p) - 1) \ slots[p])
    /\ slots' = [slots EXCEPT ![p] = @ \cup {i}]
    /\ objects' = objects \cup {[pool |-> p, addr |-> base + i * SlotUnits[p]]}

Kmalloc(p) ==
    /\ ~Loading
    /\ \/ /\ poolAt[p] # 0
          /\ \E i \in 0 .. NumSlots(p) - 1 : TakeSlot(p, i, Base(p))
          /\ UNCHANGED <<pageVars, poolAt>>
       \/ /\ poolAt[p] = 0
          /\ \E page \in Pages :
                /\ PageAlloc(POOL_ARENA_PAGES, page)
                /\ poolAt' = [poolAt EXCEPT ![p] = page]
                /\ TakeSlot(p, 0, page * PAGE_UNITS)
       \/ /\ poolAt[p] = 0
          /\ NoPages(POOL_ARENA_PAGES)
          /\ UNCHANGED <<poolAt, slots, objects>>
    /\ UNCHANGED <<taken, regionAt, image, load>>

(* pool_free looks for the pool whose pages hold the address.              *)
InPool_EndIncluded(addr, p) ==  \* mutant: the address just after the pool counts
    poolAt[p] # 0 /\ addr >= Base(p) /\ addr <= Base(p) + PoolUnits
InPool(addr, p) ==
    poolAt[p] # 0 /\ addr >= Base(p) /\ addr < Base(p) + PoolUnits

(* kfree of an object that its owner has and frees once.                   *)
Kfree(o) ==
    /\ ~Loading
    /\ o \in objects
    /\ \E p \in Pools :
          /\ IsFirst(p, {q \in Pools : InPool(o.addr, q)})
          /\ slots' = [slots EXCEPT ![p] = @ \ {(o.addr - Base(p)) \div SlotUnits[p]}]
    /\ objects' = objects \ {o}
    /\ UNCHANGED <<pageVars, taken, regionAt, image, load, poolAt>>

-----------------------------------------------------------------------------
Next ==
    \/ \E s \in Slots : Create(s) \/ Kill(s)
    \/ \E s \in Slots, program \in Programs : LoadElf(s, program)
    \/ LoadSegment \/ LoadBadSegment \/ LoadRegion
    \/ \E p \in Pools : Kmalloc(p)
    \/ \E o \in objects : Kfree(o)

Spec == Init /\ [][Next]_vars

-----------------------------------------------------------------------------
(* Properties.                                                             *)

(* Everyone who holds pages, and the pages they hold.                      *)
Holders == {<<"kernel", 0>>, <<"load", 0>>}
           \cup ({"region", "image"} \X Slots) \cup ({"pool"} \X Pools)

KernelPages == (0 .. BOOT_PAGES - 1) \ Run(GOPHERD_PAGE, REGION_PAGES)

Holds(h) ==
    CASE h[1] = "kernel" -> KernelPages
      [] h[1] = "load"   -> load.got
      [] h[1] = "image"  -> image[h[2]]
      [] h[1] = "region" -> IF regionAt[h[2]] = 0 THEN {}
                            ELSE Run(regionAt[h[2]], REGION_PAGES)
      [] h[1] = "pool"   -> IF poolAt[h[2]] = 0 THEN {}
                            ELSE Run(poolAt[h[2]], POOL_ARENA_PAGES)

(* No page has two holders, and what is held is marked as used: stacks,    *)
(* programs, pools and the kernel's own regions never overlap, whatever    *)
(* the order of creations, failures and kills.                             *)
NoPageTwice ==
    /\ \A h \in Holders : Holds(h) \subseteq used
    /\ \A h, k \in Holders : h # k => Holds(h) \cap Holds(k) = {}

(* The used bits of a pool are its live objects: kfree, which is given     *)
(* only an address, finds the pool and the slot it came from.              *)
HeapMatchesObjects ==
    \A p \in Pools :
       {[pool |-> p, addr |-> Base(p) + i * SlotUnits[p]] : i \in slots[p]}
          = {o \in objects : o.pool = p}

(* Pages marked as used that nobody holds.                                 *)
Lost == used \ UNION {Holds(h) : h \in Holders}

(* Only pages of ELF images are ever lost; regions and pools are not.      *)
OnlyImagesLeak ==
    [][Lost' \ Lost \subseteq load.got \cup UNION {image[s] : s \in Slots}]_vars

(* "leak menor en el camino de error, no en el camino feliz" (README.md    *)
(* of the kernel): pages are lost only by a proc_load_elf that fails.      *)
LeaksOnlyOnErrorPath == [][Lost' \subseteq Lost \/ Loading]_vars

(* With its hint and its two passes, the search hands out only free pages  *)
(* and refuses only when there is no room: it implements PageStore.        *)
Store == INSTANCE PageStore
ImplementsPageStore == Store!Spec
==============================================================================
