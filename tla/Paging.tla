-------------------------------- MODULE Paging --------------------------------
(***************************************************************************)
(* The page directories of paging.c, one for each ring-3 process, over the *)
(* pages of module Memory: every operation there that makes or ends a      *)
(* process, loads a segment or hands out an object of the heap, with what  *)
(* it does to the directories.                                             *)
(*                                                                         *)
(* A directory starts as the identity map, all of it for the supervisor.   *)
(* grant_in opens pages of it to ring 3; paging_map_page puts a page of an *)
(* image in the place of the one at an address of the program, and does    *)
(* nothing for an address that no table covers.  The code of the kernel is *)
(* open in every directory.  Addresses count in pages, from the first page *)
(* of the arena on.                                                        *)
(***************************************************************************)
EXTENDS Memory

CONSTANTS
    MAX_ADDR_SPACES,    \* directories (8, as many as processes)
    TABLE_PAGES         \* the first page without a table (IDENTITY_MAP_MB)

ASSUME EnoughSpaces == MAX_ADDR_SPACES = MAX_PROCESSES

(* The arena lies below the 32 MB that the tables cover.                   *)
ASSUME TablesCoverArena == TABLE_PAGES \in Nat /\ ARENA_PAGES <= TABLE_PAGES

(* user.ld links the programs at 16 MB, above the kernel and its arena.    *)
ASSUME LinkedAboveArena ==
    \A program \in Programs : \A i \in DOMAIN program : program[i].at >= ARENA_PAGES

Handles == 0 .. MAX_ADDR_SPACES - 1

KERNEL_CODE == -1       \* the pages of shared_code_start and shared_code_size
Addresses == {KERNEL_CODE} \cup 0 .. TABLE_PAGES - 1
Identity == [v \in Addresses |-> v]

VARIABLES
    in_use,     \* the handles whose in_use is set
    frame,      \* frame[h][v], the page that stands at address v
    user,       \* user[h], the addresses with the bit US
    space,      \* processes[s].addr_space, -1 for ring 0 and after proc_exit
    loading,    \* the handle of the proc_load_elf under way, or -1
    elf         \* auxiliary: the ELF file of each slot, <<>> for none

spaceVars == <<in_use, frame, user, space, loading, elf>>
pagingVars == <<vars, spaceVars>>

PagingTypeOK ==
    /\ in_use \subseteq Handles
    /\ frame \in [Handles -> [Addresses -> Addresses]]
    /\ user \in [Handles -> SUBSET Addresses]
    /\ space \in [Slots -> Handles \cup {-1}]
    /\ loading \in Handles \cup {-1}
    /\ elf \in [Slots -> Programs \cup {<<>>}]

PagingInit ==
    /\ Init
    /\ in_use = {}
    /\ frame = [h \in Handles |-> Identity]
    /\ user = [h \in Handles |-> {}]
    /\ space = [s \in Slots |-> -1]
    /\ loading = -1
    /\ elf = [s \in Slots |-> <<>>]

-----------------------------------------------------------------------------
(* paging_new_address_space: the first free handle, filled anew.           *)
FirstFreeHandle(h) == IsFirst(h, Handles \ in_use)

Opened_Stale(pages, h) ==       \* mutant: fill_identity is not called
    /\ user' = [user EXCEPT ![h] = @ \cup pages \cup {KERNEL_CODE}]
    /\ UNCHANGED frame
Opened(pages, h) ==
    /\ user' = [user EXCEPT ![h] = pages \cup {KERNEL_CODE}]
    /\ frame' = [frame EXCEPT ![h] = Identity]

(* What grant_in opens for n units from an address: whole pages.           *)
GrantedPages(addr, n) ==
    (addr \div PAGE_UNITS) .. ((addr + n + PAGE_UNITS - 1) \div PAGE_UNITS) - 1

RegionGrant(page) == GrantedPages(page * PAGE_UNITS, REGION_PAGES * PAGE_UNITS)

(* proc_create: a process of ring 0, or none.                              *)
CreateKernelThread(s) ==
    /\ Create(s)
    /\ space' = [space EXCEPT ![s] = IF s \in taken' THEN -1 ELSE @]
    /\ UNCHANGED <<in_use, frame, user, loading, elf>>

(* proc_create_ring3: the directory after the region.                      *)
CreateRing3(s) ==
    /\ Create(s)
    /\ \/ /\ s \in taken'
          /\ \E h \in Handles :
                /\ FirstFreeHandle(h)
                /\ in_use' = in_use \cup {h}
                /\ Opened(RegionGrant(regionAt'[s]), h)
                /\ space' = [space EXCEPT ![s] = h]
       \/ s \notin taken' /\ UNCHANGED <<in_use, frame, user, space>>
    /\ elf' = [elf EXCEPT ![s] = <<>>]
    /\ UNCHANGED loading

(* proc_load_elf: the directory before the segments.                       *)
StartLoad(s, program) ==
    /\ LoadElf(s, program)
    /\ \E h \in Handles :
          /\ FirstFreeHandle(h)
          /\ in_use' = in_use \cup {h}
          /\ Opened({}, h)
          /\ loading' = h
    /\ elf' = [elf EXCEPT ![s] = program]
    /\ UNCHANGED space

(* Its error paths give the handle back.                                   *)
FailedLoad_KeepsSpace ==        \* mutant: paging_free_address_space is not called
    loading' = -1 /\ UNCHANGED <<in_use, frame, user, space, elf>>
FailedLoad ==
    /\ in_use' = in_use \ {loading}
    /\ loading' = -1
    /\ elf' = [elf EXCEPT ![load.slot] = <<>>]
    /\ UNCHANGED <<frame, user, space>>

(* The addresses of a segment, and those for which paging_map_page returns *)
(* true.                                                                   *)
At(segment) == Run(segment.at, segment.pages)
Mappable(segment) == {v \in At(segment) : v < TABLE_PAGES}

(* paging_map_page, for every page of a segment that was given the pages   *)
(* from `page' on: it replaces what stood there, and proc_load_elf goes on *)
(* whatever it returns.                                                    *)
MapPages_Closed(h, segment, page) ==    \* mutant: the pages are mapped for the supervisor
    /\ frame' = [frame EXCEPT ![h] =
                    [v \in Addresses |-> IF v \in Mappable(segment)
                                         THEN page + (v - segment.at) ELSE frame[h][v]]]
    /\ UNCHANGED user
MapPages(h, segment, page) ==
    /\ frame' = [frame EXCEPT ![h] =
                    [v \in Addresses |-> IF v \in Mappable(segment)
                                         THEN page + (v - segment.at) ELSE frame[h][v]]]
    /\ user' = [user EXCEPT ![h] = @ \cup Mappable(segment)]

MapSegment ==
    /\ LoadSegment
    /\ \/ /\ load' # NoLoad
          /\ MapPages(loading, Head(load.todo), call'.page)
          /\ UNCHANGED <<in_use, space, loading, elf>>
       \/ load' = NoLoad /\ FailedLoad

MapBadSegment == LoadBadSegment /\ FailedLoad

FinishLoad ==
    /\ LoadRegion
    /\ \/ /\ load.slot \in taken'
          /\ user' = [user EXCEPT ![loading] = @ \cup RegionGrant(regionAt'[load.slot])]
          /\ space' = [space EXCEPT ![load.slot] = loading]
          /\ loading' = -1
          /\ UNCHANGED <<in_use, frame, elf>>
       \/ load.slot \notin taken' /\ FailedLoad

(* proc_exit, and a fault of ring 3: the slot stays taken, as a zombie.    *)
Exit(s) ==
    /\ ~Loading
    /\ s \in taken
    /\ space[s] # -1
    /\ in_use' = in_use \ {space[s]}
    /\ space' = [space EXCEPT ![s] = -1]
    /\ UNCHANGED <<vars, frame, user, loading, elf>>

KillProcess(s) ==
    /\ Kill(s)
    /\ in_use' = in_use \ {space[s]}
    /\ space' = [space EXCEPT ![s] = -1]
    /\ elf' = [elf EXCEPT ![s] = <<>>]
    /\ UNCHANGED <<frame, user, loading>>

(* kmalloc: the first pool whose slots are large enough, if there is one.  *)
PoolFor(size, p) == IsFirst(p, {q \in Pools : SlotUnits[q] >= size})

(* sys_malloc from a ring-3 process: the pages of the new object open for  *)
(* the process that asked.  A size of 0 takes a slot and opens nothing.    *)
Malloc(s, size) ==
    /\ space[s] # -1
    /\ \E p \in Pools : PoolFor(size, p) /\ Kmalloc(p)
    /\ \/ size > 0 /\ \E o \in objects' \ objects :
             user' = [user EXCEPT ![space[s]] = @ \cup GrantedPages(o.addr, size)]
       \/ (size = 0 \/ objects' = objects) /\ UNCHANGED user
    /\ UNCHANGED <<in_use, frame, space, loading, elf>>

(* sys_free: kfree does not know the size, so nothing is closed.           *)
Free(o) == Kfree(o) /\ UNCHANGED spaceVars

PagingNext ==
    \/ \E s \in Slots :
          CreateKernelThread(s) \/ CreateRing3(s) \/ Exit(s) \/ KillProcess(s)
    \/ \E s \in Slots, program \in Programs : StartLoad(s, program)
    \/ MapSegment \/ MapBadSegment \/ FinishLoad
    \/ \E s \in Slots, size \in 0 .. PAGE_UNITS : Malloc(s, size)
    \/ \E o \in objects : Free(o)

PagingSpec == PagingInit /\ [][PagingNext]_pagingVars

-----------------------------------------------------------------------------
(* Properties.                                                             *)

Ring3 == {s \in taken : space[s] # -1}
Reach(s) == {frame[space[s]][v] : v \in user[space[s]]}
PoolPages == UNION {Holds(<<"pool", p>>) : p \in Pools}
Own(s) == Holds(<<"region", s>>) \cup Holds(<<"image", s>>)

(* "Un proceso solo gana acceso a SU PROPIA región" (paging.c:4): whatever *)
(* handles, slots and pages were used for before, a ring-3 process reaches *)
(* its region, its image, pages of the heap and the code of the kernel, and *)
(* nothing else.                                                           *)
ReachesOnlyItsOwn == \A s \in Ring3 : Reach(s) \subseteq Own(s) \cup PoolPages \cup {KERNEL_CODE}

(* A program whose segments have addresses below the 32 MB limit and do    *)
(* not share a page.                                                       *)
Linked(program) ==
    \A i \in DOMAIN program :
       /\ program[i].at + program[i].pages <= TABLE_PAGES
       /\ \A j \in DOMAIN program \ {i} : At(program[i]) \cap At(program[j]) = {}

(* And all of its own, its stacks and every page of its program, if that   *)
(* is linked within what the tables cover: whatever was at the same        *)
(* addresses of the same directory before, in its earlier uses.            *)
ReachesAllItsOwn == \A s \in Ring3 : Linked(elf[s]) => Own(s) \subseteq Reach(s)

(* "copia cada segmento a paginas fisicas nuevas, y las mapea en el espacio *)
(* del proceso" (README.md of the kernel), for any program.                *)
SegmentsAreMapped == \A s \in Ring3 : image[s] \subseteq Reach(s)

(* Every handle in use has one owner, a process or the load under way, so  *)
(* that a slot that is free always finds a free handle.                    *)
HandlesHaveOwners ==
    /\ in_use = {space[s] : s \in Ring3} \cup {h \in {loading} : Loading}
    /\ \A s, r \in Ring3 : space[s] = space[r] => s = r
    /\ \A s \in Ring3 : space[s] # loading
    /\ taken # Slots /\ ~Loading => in_use # Handles
==============================================================================
