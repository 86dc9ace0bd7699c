----------------------------- MODULE MemoryProofs -----------------------------
(***************************************************************************)
(* Proofs about module Memory, for every size of the arena, of the process *)
(* table and of the pools, and for every set of programs: types, disjoint  *)
(* holders, what can be lost, and the refinement of PageStore.             *)
(***************************************************************************)
EXTENDS Memory, TLAPS

USE ArenaSize, MemorySizes

(* The inductive invariant: a slot that is not in use holds nothing, one   *)
(* that is has a region to give back (the shell's counts as the kernel's), *)
(* and proc_load_elf works on a slot that is not in use.                   *)
SlotsOwnTheirRegions ==
    /\ SHELL \in taken
    /\ \A s \in Slots \ taken : regionAt[s] = 0 /\ image[s] = {}
    /\ \A s \in taken \ {SHELL} : regionAt[s] # 0
    /\ Loading => load.slot \notin taken

MemInv == TypeOK /\ NoPageTwice /\ SlotsOwnTheirRegions

(***************************************************************************)
(* The page allocator.                                                     *)
(***************************************************************************)

LEMMA NullPage == 0 \in Pages
BY DEF Pages

(* A granted run lies in the arena and was free; a page in use is not in it. *)
LEMMA GrantedRun ==
    ASSUME TypeOK, NEW n \in Nat, NEW s \in Pages, PageAlloc(n, s)
    PROVE  /\ n \in 1 .. ARENA_PAGES /\ s + n <= ARENA_PAGES
           /\ Run(s, n) \subseteq Pages /\ s \in Run(s, n)
           /\ Run(s, n) \cap used = {}
           /\ used' = used \cup Run(s, n)
           /\ used' \subseteq Pages
           /\ hint' \in 0 .. ARENA_PAGES
           /\ call' = [n |-> n, page |-> s]
<1> USE DEF Pages, Run
<1>1. s \in FreeRuns(hint, n) \cup FreeRuns(0, n) /\ n > 0
  BY DEF PageAlloc, IsFirst, Candidates
<1>2. s + n <= ARENA_PAGES /\ Run(s, n) \cap used = {}
  BY <1>1 DEF FreeRuns, TypeOK
<1>3. Run(s, n) \subseteq Pages /\ s \in Run(s, n)  BY <1>1, <1>2
<1>4. QED  BY <1>1, <1>2, <1>3 DEF PageAlloc, TypeOK

LEMMA RefusedRun ==
    ASSUME TypeOK, NEW n \in Nat, NoPages(n)
    PROVE  /\ used' = used
           /\ hint' \in 0 .. ARENA_PAGES
           /\ call' = [n |-> n, page |-> 0]
           /\ n > 0 => FreeRuns(0, n) = {}
BY DEF NoPages, Candidates, TypeOK

(* What the allocator does to the types of its variables.                  *)
PagesTyped == used \subseteq Pages /\ hint \in 0 .. ARENA_PAGES /\ call \in [n : Nat, page : Pages]

LEMMA AllocTyped ==
    ASSUME TypeOK, NEW n \in Nat,
           (\E s \in Pages : PageAlloc(n, s)) \/ NoPages(n)
    PROVE  PagesTyped'
<1>1. CASE NoPages(n)
  BY <1>1, RefusedRun, NullPage DEF PagesTyped, TypeOK
<1>2. ASSUME NEW s \in Pages, PageAlloc(n, s)  PROVE PagesTyped'
  BY <1>2, GrantedRun DEF PagesTyped
<1>3. QED  BY <1>1, <1>2

(***************************************************************************)
(* Types.                                                                  *)
(***************************************************************************)
LEMMA InitTyped == Init => TypeOK
BY DEF Init, TypeOK, Pages, Slots, GOPHERD, SHELL, NoLoad, Pools

LEMMA LoadTyped ==
    ASSUME TypeOK, Loading
    PROVE  /\ load \in [slot : Slots, todo : Seq(Segments), got : SUBSET Pages]
           /\ load.slot \in Slots
           /\ load.todo # <<>> => /\ Head(load.todo) \in Segments
                                  /\ Head(load.todo).pages \in Nat
                                  /\ Tail(load.todo) \in Seq(Segments)
<1>1. load \in [slot : Slots, todo : Seq(Segments), got : SUBSET Pages]
  BY DEF TypeOK, Loading
<1>2. ASSUME load.todo # <<>>
      PROVE  Head(load.todo) \in Segments /\ Tail(load.todo) \in Seq(Segments)
  BY <1>1, <1>2
<1>3. \A g \in Segments : g.pages \in Nat  BY DEF Segments
<1>4. QED  BY <1>1, <1>2, <1>3

LEMMA CreateTyped ==
    ASSUME TypeOK, NEW s \in Slots, Create(s)  PROVE  TypeOK'
<1>1. PagesTyped'  BY AllocTyped DEF Create
<1>2. taken' \subseteq Slots /\ regionAt' \in [Slots -> Pages]
  BY NullPage DEF Create, TypeOK
<1>3. UNCHANGED <<image, load, poolAt, slots, objects>>  BY DEF Create
<1>4. QED  BY <1>1, <1>2, <1>3 DEF TypeOK, PagesTyped

LEMMA LoadElfTyped ==
    ASSUME TypeOK, NEW s \in Slots, NEW program \in Programs, LoadElf(s, program)
    PROVE  TypeOK'
BY DEF LoadElf, TypeOK, pageVars, NoLoad

LEMMA LoadSegmentTyped == ASSUME TypeOK, LoadSegment PROVE TypeOK'
<1>1. Head(load.todo).pages \in Nat /\ Tail(load.todo) \in Seq(Segments)
  BY LoadTyped DEF LoadSegment
<1>2. PagesTyped'  BY <1>1, AllocTyped DEF LoadSegment
<1>3. load' = NoLoad \/ load' \in [slot : Slots, todo : Seq(Segments), got : SUBSET Pages]
  <2>1. ASSUME NEW page \in Pages, PageAlloc(Head(load.todo).pages, page),
               load' = [load EXCEPT !.todo = Tail(@),
                                  !.got = @ \cup Run(page, Head(load.todo).pages)]
        PROVE  load' \in [slot : Slots, todo : Seq(Segments), got : SUBSET Pages]
    <3>1. Run(page, Head(load.todo).pages) \subseteq Pages  BY <1>1, <2>1, GrantedRun
    <3>2. QED  BY <1>1, <2>1, <3>1, LoadTyped DEF LoadSegment
  <2>2. QED  BY <2>1 DEF LoadSegment
<1>4. UNCHANGED <<taken, regionAt, image, poolAt, slots, objects>>  BY DEF LoadSegment
<1>5. QED  BY <1>2, <1>3, <1>4 DEF TypeOK, PagesTyped

LEMMA LoadRegionTyped == ASSUME TypeOK, LoadRegion PROVE TypeOK'
<1>1. PagesTyped'  BY AllocTyped DEF LoadRegion
<1>2. load.slot \in Slots /\ load.got \subseteq Pages  BY LoadTyped DEF LoadRegion
<1>3. taken' \subseteq Slots /\ regionAt' \in [Slots -> Pages] /\ image' \in [Slots -> SUBSET Pages]
  <2>1. taken' \subseteq Slots  BY <1>2 DEF LoadRegion, TypeOK
  <2>2. \E page \in Pages : regionAt' = [regionAt EXCEPT ![load.slot] = page]
    BY NullPage DEF LoadRegion
  <2>3. image' = image \/ image' = [image EXCEPT ![load.slot] = load.got]  BY DEF LoadRegion
  <2>4. regionAt' \in [Slots -> Pages]  BY <2>2 DEF TypeOK
  <2>5. image' \in [Slots -> SUBSET Pages]  BY <1>2, <2>3 DEF TypeOK
  <2>6. QED  BY <2>1, <2>4, <2>5
<1>4. load' = NoLoad /\ UNCHANGED <<poolAt, slots, objects>>  BY DEF LoadRegion
<1>5. QED  BY <1>1, <1>3, <1>4 DEF TypeOK, PagesTyped

LEMMA KillTyped == ASSUME TypeOK, NEW s \in Slots, Kill(s) PROVE TypeOK'
<1>1. PagesTyped'
  <2>1. regionAt[s] \in 0 .. ARENA_PAGES  BY DEF TypeOK, Pages
  <2>2. used' \subseteq Pages /\ call' = call  BY DEF Kill, PageFree, TypeOK
  <2>3. hint' = hint \/ hint' = regionAt[s]  BY DEF Kill, PageFree
  <2>4. QED  BY <2>1, <2>2, <2>3 DEF PagesTyped, TypeOK
<1>2. taken' \subseteq Slots /\ regionAt' \in [Slots -> Pages] /\ image' \in [Slots -> SUBSET Pages]
  BY NullPage DEF Kill, TypeOK
<1>3. UNCHANGED <<load, poolAt, slots, objects>>  BY DEF Kill
<1>4. QED  BY <1>1, <1>2, <1>3 DEF TypeOK, PagesTyped

LEMMA SlotTaken ==
    ASSUME TypeOK, NEW p \in Pools, NEW i \in Nat, NEW base \in Nat, TakeSlot(p, i, base)
    PROVE  slots' \in [Pools -> SUBSET Nat] /\ objects' \subseteq [pool : Pools, addr : Nat]
<1>1. SlotUnits[p] \in Nat  BY DEF Pools
<1>2. i * SlotUnits[p] \in Nat  BY <1>1
<1>3. base + i * SlotUnits[p] \in Nat  BY <1>2
<1>4. slots' \in [Pools -> SUBSET Nat]  BY DEF TakeSlot, TypeOK
<1>5. objects' \subseteq [pool : Pools, addr : Nat]  BY <1>3 DEF TakeSlot, TypeOK
<1>6. QED  BY <1>4, <1>5

LEMMA KmallocTyped == ASSUME TypeOK, NEW p \in Pools, Kmalloc(p) PROVE TypeOK'
<1>1. PagesTyped'
  <2>1. CASE UNCHANGED pageVars  BY <2>1 DEF TypeOK, PagesTyped, pageVars
  <2>2. CASE (\E s \in Pages : PageAlloc(POOL_ARENA_PAGES, s)) \/ NoPages(POOL_ARENA_PAGES)
    BY <2>2, AllocTyped
  <2>3. QED  BY <2>1, <2>2 DEF Kmalloc
<1>2. poolAt' \in [Pools -> Pages]  BY DEF Kmalloc, TypeOK
<1>3. slots' \in [Pools -> SUBSET Nat] /\ objects' \subseteq [pool : Pools, addr : Nat]
  <2>1. \A page \in Pages : page * PAGE_UNITS \in Nat  BY DEF Pages
  <2>2. Base(p) \in Nat  BY <2>1 DEF Base, TypeOK
  <2>3. CASE \E i \in 0 .. NumSlots(p) - 1 : TakeSlot(p, i, Base(p))
    <3>1. \A i \in 0 .. NumSlots(p) - 1 : i \in Nat  OBVIOUS
    <3>2. QED  BY <2>2, <2>3, <3>1, SlotTaken
  <2>4. CASE \E page \in Pages : TakeSlot(p, 0, page * PAGE_UNITS)
    BY <2>1, <2>4, SlotTaken
  <2>5. CASE UNCHANGED <<slots, objects>>  BY <2>5 DEF TypeOK
  <2>6. QED  BY <2>3, <2>4, <2>5 DEF Kmalloc
<1>4. UNCHANGED <<taken, regionAt, image, load>>  BY DEF Kmalloc
<1>5. QED  BY <1>1, <1>2, <1>3, <1>4 DEF TypeOK, PagesTyped

LEMMA KfreeTyped == ASSUME TypeOK, NEW o \in objects, Kfree(o) PROVE TypeOK'
<1>1. slots' \in [Pools -> SUBSET Nat] /\ objects' \subseteq [pool : Pools, addr : Nat]
  BY DEF Kfree, TypeOK
<1>2. UNCHANGED <<pageVars, taken, regionAt, image, load, poolAt>>  BY DEF Kfree
<1>3. QED  BY <1>1, <1>2 DEF TypeOK, pageVars

LEMMA NextTyped == TypeOK /\ [Next]_vars => TypeOK'
<1> SUFFICES ASSUME TypeOK, [Next]_vars PROVE TypeOK'  OBVIOUS
<1>1. CASE UNCHANGED vars  BY <1>1 DEF vars, pageVars, TypeOK
<1>2. CASE LoadBadSegment  BY <1>2 DEF LoadBadSegment, pageVars, TypeOK
<1>3. QED
  BY <1>1, <1>2, CreateTyped, KillTyped, LoadElfTyped, LoadSegmentTyped, LoadRegionTyped,
     KmallocTyped, KfreeTyped DEF Next

(* Types hold in every reachable state: pages stay inside the arena, the   *)
(* hint never points past its end.                                         *)
THEOREM MemoryTyped == Spec => []TypeOK
<1>1. QED  BY InitTyped, NextTyped, PTL DEF Spec

(***************************************************************************)
(* Holders.                                                                *)
(***************************************************************************)
LEMMA HolderKinds ==
    \A h \in Holders :
       \/ h = <<"kernel", 0>>
       \/ h = <<"load", 0>>
       \/ \E s \in Slots : h = <<"region", s>> \/ h = <<"image", s>>
       \/ \E p \in Pools : h = <<"pool", p>>
BY DEF Holders

LEMMA HolderNames ==
    /\ <<"kernel", 0>> \in Holders /\ <<"load", 0>> \in Holders
    /\ \A s \in Slots : <<"region", s>> \in Holders /\ <<"image", s>> \in Holders
    /\ \A p \in Pools : <<"pool", p>> \in Holders
BY DEF Holders

PagesOfRegion(s) == IF regionAt[s] = 0 THEN {} ELSE Run(regionAt[s], REGION_PAGES)
PagesOfPool(p) == IF poolAt[p] = 0 THEN {} ELSE Run(poolAt[p], POOL_ARENA_PAGES)

HoldsByKind ==
    /\ Holds(<<"kernel", 0>>) = KernelPages
    /\ Holds(<<"load", 0>>) = load.got
    /\ \A s \in Slots : Holds(<<"region", s>>) = PagesOfRegion(s)
    /\ \A s \in Slots : Holds(<<"image", s>>) = image[s]
    /\ \A p \in Pools : Holds(<<"pool", p>>) = PagesOfPool(p)

LEMMA HoldsNow == HoldsByKind
BY DEF HoldsByKind, Holds, PagesOfRegion, PagesOfPool

LEMMA HoldsNext == HoldsByKind'
BY HoldsNow, PTL

(* A step that grants the free pages F to one holder, while the others     *)
(* keep or drop what they had, keeps them apart.                           *)
LEMMA OneGrant ==
    ASSUME NoPageTwice,
           NEW F, F \cap used = {}, used' = used \cup F,
           NEW new \in Holders,
           load.got' \subseteq load.got \cup (IF new = <<"load", 0>> THEN F ELSE {}),
           \A s \in Slots : PagesOfRegion(s)' \subseteq
               PagesOfRegion(s) \cup (IF new = <<"region", s>> THEN F ELSE {}),
           \A s \in Slots : image[s]' \subseteq image[s],
           \A p \in Pools : PagesOfPool(p)' \subseteq
               PagesOfPool(p) \cup (IF new = <<"pool", p>> THEN F ELSE {})
    PROVE  NoPageTwice'
<1>1. ASSUME NEW h \in Holders
      PROVE  Holds(h)' \subseteq Holds(h) \cup (IF h = new THEN F ELSE {})
  <2>1. CASE h = <<"kernel", 0>>  BY <2>1, HoldsNow, HoldsNext DEF HoldsByKind, KernelPages
  <2>2. CASE h = <<"load", 0>>    BY <2>2, HoldsNow, HoldsNext DEF HoldsByKind
  <2>3. ASSUME NEW s \in Slots, h = <<"region", s>> \/ h = <<"image", s>>
        PROVE  Holds(h)' \subseteq Holds(h) \cup (IF h = new THEN F ELSE {})
    BY <2>3, HoldsNow, HoldsNext DEF HoldsByKind
  <2>4. ASSUME NEW p \in Pools, h = <<"pool", p>>
        PROVE  Holds(h)' \subseteq Holds(h) \cup (IF h = new THEN F ELSE {})
    BY <2>4, HoldsNow, HoldsNext DEF HoldsByKind
  <2>5. QED  BY <2>1, <2>2, <2>3, <2>4, HolderKinds
<1>2. \A h \in Holders : Holds(h)' \subseteq used'  BY <1>1 DEF NoPageTwice
<1>3. ASSUME NEW h \in Holders, NEW k \in Holders, h # k
      PROVE  Holds(h)' \cap Holds(k)' = {}
  <2>1. Holds(h) \subseteq used /\ Holds(k) \subseteq used /\ Holds(h) \cap Holds(k) = {}
    BY <1>3 DEF NoPageTwice
  <2>2. QED  BY <1>1, <1>3, <2>1
<1>4. QED  BY <1>2, <1>3 DEF NoPageTwice

LEMMA NoGrant ==
    ASSUME NoPageTwice, used' = used,
           load.got' \subseteq load.got,
           \A s \in Slots : PagesOfRegion(s)' \subseteq PagesOfRegion(s),
           \A s \in Slots : image[s]' \subseteq image[s],
           \A p \in Pools : PagesOfPool(p)' \subseteq PagesOfPool(p)
    PROVE  NoPageTwice'
<1>1. {} \cap used = {} /\ used' = used \cup {}  OBVIOUS
<1>2. <<"load", 0>> \in Holders  BY HolderNames
<1>3. QED  BY <1>1, <1>2, OneGrant

(* Page 0 is the kernel's, so nobody is ever granted it.                   *)
LEMMA NullIsTaken == NoPageTwice => 0 \in used
<1>1. 0 \in KernelPages  BY DEF KernelPages, Run
<1>2. QED  BY <1>1, HolderNames, HoldsNow DEF NoPageTwice, HoldsByKind

LEMMA GrantIsNotNull ==
    ASSUME TypeOK, NoPageTwice, NEW n \in Nat, NEW s \in Pages, PageAlloc(n, s)
    PROVE  s # 0
BY GrantedRun, NullIsTaken

(***************************************************************************)
(* Every step keeps the holders apart.                                     *)
(***************************************************************************)
LEMMA CreateApart ==
    ASSUME MemInv, NEW s \in Slots, Create(s)  PROVE  NoPageTwice' /\ SlotsOwnTheirRegions'
<1> USE DEF MemInv
<1>1. UNCHANGED <<image, load, poolAt>> /\ ~Loading /\ s \notin taken
  BY DEF Create, FirstFreeSlot, IsFirst
<1>2. image[s] = {} /\ regionAt[s] = 0  BY <1>1 DEF SlotsOwnTheirRegions
<1>3. CASE NoPages(REGION_PAGES) /\ regionAt' = [regionAt EXCEPT ![s] = 0] /\ taken' = taken
  <2>1. regionAt' = regionAt
    <3>1. regionAt \in [Slots -> Pages]  BY DEF TypeOK
    <3>2. [regionAt EXCEPT ![s] = 0] = regionAt  BY <1>2, <3>1
    <3>3. QED  BY <1>3, <3>2
  <2>2. used' = used  BY <1>3, RefusedRun
  <2>3. NoPageTwice'  BY <1>1, <2>1, <2>2, NoGrant DEF PagesOfRegion, PagesOfPool
  <2>4. SlotsOwnTheirRegions'  BY <1>1, <1>3, <2>1 DEF SlotsOwnTheirRegions, Loading
  <2>5. QED  BY <2>3, <2>4
<1>4. ASSUME NEW page \in Pages, PageAlloc(REGION_PAGES, page),
             regionAt' = [regionAt EXCEPT ![s] = page], taken' = taken \cup {s}
      PROVE  NoPageTwice' /\ SlotsOwnTheirRegions'
  <2> DEFINE F == Run(page, REGION_PAGES)
  <2>1. F \cap used = {} /\ used' = used \cup F /\ page # 0
    BY <1>4, GrantedRun, GrantIsNotNull
  <2>2. <<"region", s>> \in Holders  BY HolderNames
  <2>3. ASSUME NEW t \in Slots
        PROVE  PagesOfRegion(t)' \subseteq PagesOfRegion(t) \cup
                                (IF <<"region", s>> = <<"region", t>> THEN F ELSE {})
    BY <1>4, <2>1 DEF PagesOfRegion, TypeOK
  <2>4. NoPageTwice'
    <3> HIDE DEF F
    <3>1. QED  BY <1>1, <2>1, <2>2, <2>3, OneGrant DEF PagesOfPool
  <2>5. SlotsOwnTheirRegions'
    BY <1>1, <1>4, <2>1 DEF SlotsOwnTheirRegions, Loading, TypeOK
  <2>6. QED  BY <2>4, <2>5
<1>5. QED  BY <1>3, <1>4 DEF Create

LEMMA LoadElfApart ==
    ASSUME MemInv, NEW s \in Slots, NEW program \in Programs, LoadElf(s, program)
    PROVE  NoPageTwice' /\ SlotsOwnTheirRegions'
<1> USE DEF MemInv
<1>1. /\ UNCHANGED <<used, taken, regionAt, image, poolAt>>
      /\ load'.got = {} /\ load'.slot = s /\ s \notin taken
  BY DEF LoadElf, pageVars, FirstFreeSlot, IsFirst
<1>2. NoPageTwice'  BY <1>1, NoGrant DEF PagesOfRegion, PagesOfPool
<1>3. SlotsOwnTheirRegions'  BY <1>1 DEF SlotsOwnTheirRegions, Loading
<1>4. QED  BY <1>2, <1>3

LEMMA LoadSegmentApart ==
    ASSUME MemInv, LoadSegment \/ LoadBadSegment
    PROVE  NoPageTwice' /\ SlotsOwnTheirRegions'
<1> USE DEF MemInv
<1>1. /\ UNCHANGED <<taken, regionAt, image, poolAt>> /\ load.slot \notin taken
      /\ Head(load.todo).pages \in Nat
      /\ load \in [slot : Slots, todo : Seq(Segments), got : SUBSET Pages]
  BY LoadTyped DEF LoadSegment, LoadBadSegment, SlotsOwnTheirRegions
<1>2. CASE load' = NoLoad /\ used' = used
  <2>1. load'.got = {} /\ ~Loading'  BY <1>2 DEF NoLoad, Loading
  <2>2. NoPageTwice'  BY <1>1, <1>2, <2>1, NoGrant DEF PagesOfRegion, PagesOfPool
  <2>3. SlotsOwnTheirRegions'  BY <1>1, <2>1 DEF SlotsOwnTheirRegions
  <2>4. QED  BY <2>2, <2>3
<1>3. ASSUME NEW page \in Pages, PageAlloc(Head(load.todo).pages, page),
             load' = [load EXCEPT !.todo = Tail(@),
                                  !.got = @ \cup Run(page, Head(load.todo).pages)]
      PROVE  NoPageTwice' /\ SlotsOwnTheirRegions'
  <2> DEFINE F == Run(page, Head(load.todo).pages)
  <2>1. F \cap used = {} /\ used' = used \cup F  BY <1>1, <1>3, GrantedRun
  <2>2. load'.got = load.got \cup F /\ load'.slot = load.slot  BY <1>1, <1>3
  <2>3. <<"load", 0>> \in Holders /\ load'.got = load.got'  BY HolderNames
  <2>4. NoPageTwice'
    <3> HIDE DEF F
    <3>1. QED  BY <1>1, <2>1, <2>2, <2>3, OneGrant DEF PagesOfRegion, PagesOfPool
  <2>5. SlotsOwnTheirRegions'  BY <1>1, <2>2 DEF SlotsOwnTheirRegions
  <2>6. QED  BY <2>4, <2>5
<1>4. LoadSegment /\ NoPages(Head(load.todo).pages) => used' = used  BY <1>1, RefusedRun
<1>5. LoadBadSegment => used' = used  BY DEF LoadBadSegment, pageVars
<1>6. QED  BY <1>2, <1>3, <1>4, <1>5 DEF LoadSegment, LoadBadSegment

(* The pages of the image change hands, those of the region are new.       *)
LEMMA LoadRegionApart ==
    ASSUME MemInv, LoadRegion  PROVE  NoPageTwice' /\ SlotsOwnTheirRegions'
<1> USE DEF MemInv
<1>0. PICK s \in Slots : s = load.slot  BY LoadTyped DEF LoadRegion
<1>1. /\ s \in Slots /\ s \notin taken /\ image[s] = {} /\ regionAt[s] = 0
      /\ load'.got = {} /\ ~Loading' /\ UNCHANGED poolAt
  <2>1. load' = NoLoad /\ UNCHANGED poolAt /\ Loading  BY DEF LoadRegion
  <2>2. load'.got = {} /\ ~Loading'  BY <2>1 DEF NoLoad, Loading
  <2>3. QED  BY <1>0, <2>1, <2>2 DEF SlotsOwnTheirRegions
<1>2. regionAt \in [Slots -> Pages] /\ image \in [Slots -> SUBSET Pages]  BY DEF TypeOK
<1>3. CASE /\ NoPages(REGION_PAGES) /\ regionAt' = [regionAt EXCEPT ![s] = 0]
           /\ UNCHANGED <<image, taken>>
  <2>1. regionAt' = regionAt
    <3>1. [regionAt EXCEPT ![s] = 0] = regionAt  BY <1>1, <1>2
    <3>2. QED  BY <1>3, <3>1
  <2>2. used' = used  BY <1>3, RefusedRun
  <2>3. NoPageTwice'  BY <1>1, <1>3, <2>1, <2>2, NoGrant DEF PagesOfRegion, PagesOfPool
  <2>4. SlotsOwnTheirRegions'  BY <1>1, <1>3, <2>1 DEF SlotsOwnTheirRegions
  <2>5. QED  BY <2>3, <2>4
<1>4. ASSUME NEW page \in Pages, PageAlloc(REGION_PAGES, page),
             regionAt' = [regionAt EXCEPT ![s] = page],
             image' = [image EXCEPT ![s] = load.got],
             taken' = taken \cup {s}
      PROVE  NoPageTwice' /\ SlotsOwnTheirRegions'
  <2> DEFINE F == Run(page, REGION_PAGES)
             R == <<"region", s>>
             I == <<"image", s>>
             L == <<"load", 0>>
  <2>1. F \cap used = {} /\ used' = used \cup F /\ page # 0
    BY <1>4, GrantedRun, GrantIsNotNull
  <2>2. R \in Holders /\ I \in Holders /\ L \in Holders /\ R # I /\ R # L /\ I # L
    BY <1>1, HolderNames
  <2>3. Holds(R)' \subseteq F /\ Holds(I)' = Holds(L) /\ Holds(L)' = {}
    <3>1. PagesOfRegion(s)' \subseteq F  BY <1>1, <1>2, <1>4 DEF PagesOfRegion
    <3>2. image'[s] = load.got  BY <1>1, <1>2, <1>4
    <3>3. load.got' = {}  BY <1>1
    <3>4. Holds(R)' = PagesOfRegion(s)' /\ Holds(I)' = image'[s] /\ Holds(L)' = load.got'
      BY <1>1, HoldsNext DEF HoldsByKind
    <3>5. Holds(L) = load.got  BY HoldsNow DEF HoldsByKind
    <3>6. QED  BY <3>1, <3>2, <3>3, <3>4, <3>5
  <2>4. ASSUME NEW h \in Holders \ {R, I, L}  PROVE  Holds(h)' = Holds(h)
    <3>1. CASE h = <<"kernel", 0>>
      <4>1. Holds(<<"kernel", 0>>)' = KernelPages  BY HoldsNext DEF HoldsByKind, KernelPages
      <4>2. Holds(<<"kernel", 0>>) = KernelPages  BY HoldsNow DEF HoldsByKind
      <4>3. QED  BY <3>1, <4>1, <4>2
    <3>2. ASSUME NEW t \in Slots, h = <<"region", t>> \/ h = <<"image", t>>
          PROVE  Holds(h)' = Holds(h)
      <4>1. CASE h = <<"region", t>>
        <5>1. regionAt'[t] = regionAt[t]  BY <1>1, <1>2, <1>4, <4>1
        <5>2. PagesOfRegion(t)' = PagesOfRegion(t)  BY <5>1 DEF PagesOfRegion
        <5>3. QED  BY <4>1, <5>2, HoldsNow, HoldsNext DEF HoldsByKind
      <4>2. CASE h = <<"image", t>>
        <5>1. image'[t] = image[t]  BY <1>1, <1>2, <1>4, <4>2
        <5>2. QED  BY <4>2, <5>1, HoldsNow, HoldsNext DEF HoldsByKind
      <4>3. QED  BY <3>2, <4>1, <4>2
    <3>3. ASSUME NEW p \in Pools, h = <<"pool", p>>  PROVE  Holds(h)' = Holds(h)
      <4>1. PagesOfPool(p)' = PagesOfPool(p)  BY <1>1 DEF PagesOfPool
      <4>2. QED  BY <3>3, <4>1, HoldsNow, HoldsNext DEF HoldsByKind
    <3>4. QED  BY <2>4, <3>1, <3>2, <3>3, HolderKinds
  <2> HIDE DEF F, R, I, L
  <2>5. ASSUME NEW h \in Holders  PROVE  Holds(h)' \subseteq used'
    <3>1. Holds(h) \subseteq used /\ Holds(L) \subseteq used  BY <2>2 DEF NoPageTwice
    <3>2. QED  BY <2>1, <2>3, <2>4, <3>1
  <2>6. ASSUME NEW h \in Holders, NEW k \in Holders, h # k
        PROVE  Holds(h)' \cap Holds(k)' = {}
    <3>1. \A g \in Holders : Holds(g) \subseteq used  BY DEF NoPageTwice
    <3>2. \A g, j \in Holders : g # j => Holds(g) \cap Holds(j) = {}  BY DEF NoPageTwice
    <3>3. ASSUME NEW g \in Holders, NEW j \in Holders, g # j, g = R
          PROVE  Holds(g)' \cap Holds(j)' = {}
      <4>1. Holds(j)' \subseteq used
        <5>1. CASE j \in {I, L}  BY <2>2, <2>3, <3>1, <5>1
        <5>2. CASE j \notin {I, L}  BY <2>4, <3>1, <3>3, <5>2
        <5>3. QED  BY <5>1, <5>2
      <4>2. QED  BY <2>1, <2>3, <3>3, <4>1
    <3>4. ASSUME NEW g \in Holders, NEW j \in Holders, g # j, g = I, j # R
          PROVE  Holds(g)' \cap Holds(j)' = {}
      <4>1. CASE j = L  BY <2>3, <4>1
      <4>2. CASE j # L
        <5>1. Holds(j)' = Holds(j)  BY <2>4, <3>4, <4>2
        <5>2. QED  BY <2>2, <2>3, <3>2, <3>4, <4>2, <5>1
      <4>3. QED  BY <4>1, <4>2
    <3>5. CASE h = L \/ k = L  BY <2>3, <3>5
    <3>6. CASE h \notin {R, I, L} /\ k \notin {R, I, L}
      <4>1. Holds(h)' = Holds(h) /\ Holds(k)' = Holds(k)  BY <2>4, <3>6
      <4>2. QED  BY <2>6, <3>2, <4>1
    <3>7. QED  BY <2>6, <3>3, <3>4, <3>5, <3>6
  <2>7. SlotsOwnTheirRegions'
    BY <1>1, <1>2, <1>4, <2>1 DEF SlotsOwnTheirRegions
  <2>8. QED  BY <2>5, <2>6, <2>7 DEF NoPageTwice
<1>5. QED  BY <1>0, <1>3, <1>4 DEF LoadRegion

(* The pages a kill frees are those of the region, whose only holder they  *)
(* then lose; page 0 is not among them.                                    *)
LEMMA KilledRegion ==
    ASSUME MemInv, NEW s \in Slots, Kill(s)
    PROVE  /\ Run(regionAt[s], REGION_PAGES) = Holds(<<"region", s>>)
           /\ used' = used \ Holds(<<"region", s>>)
           /\ Holds(<<"region", s>>)' = {} /\ Holds(<<"image", s>>)' = {}
           /\ \A h \in Holders \ {<<"region", s>>, <<"image", s>>} : Holds(h)' = Holds(h)
<1> USE DEF MemInv
<1>1. /\ s \in taken \ {SHELL} /\ regionAt[s] # 0
      /\ regionAt' = [regionAt EXCEPT ![s] = 0] /\ image' = [image EXCEPT ![s] = {}]
      /\ UNCHANGED <<load, poolAt>>
      /\ used' = used \ Run(regionAt[s], REGION_PAGES)
  BY DEF Kill, PageFree, SlotsOwnTheirRegions
<1>2. regionAt \in [Slots -> Pages] /\ image \in [Slots -> SUBSET Pages]  BY DEF TypeOK
<1>3. PagesOfRegion(s) = Run(regionAt[s], REGION_PAGES)  BY <1>1 DEF PagesOfRegion
<1>4. PagesOfRegion(s)' = {} /\ image'[s] = {}  BY <1>1, <1>2 DEF PagesOfRegion
<1>5. ASSUME NEW h \in Holders \ {<<"region", s>>, <<"image", s>>}  PROVE  Holds(h)' = Holds(h)
  <2>1. CASE h = <<"kernel", 0>>
    <3>1. Holds(<<"kernel", 0>>)' = KernelPages  BY HoldsNext DEF HoldsByKind, KernelPages
    <3>2. QED  BY <2>1, <3>1, HoldsNow DEF HoldsByKind
  <2>2. CASE h = <<"load", 0>>  BY <1>1, <2>2, HoldsNow, HoldsNext DEF HoldsByKind
  <2>3. ASSUME NEW t \in Slots, h = <<"region", t>>  PROVE  Holds(h)' = Holds(h)
    <3>1. regionAt'[t] = regionAt[t]  BY <1>1, <1>2, <1>5, <2>3
    <3>2. PagesOfRegion(t)' = PagesOfRegion(t)  BY <3>1 DEF PagesOfRegion
    <3>3. QED  BY <2>3, <3>2, HoldsNow, HoldsNext DEF HoldsByKind
  <2>4. ASSUME NEW t \in Slots, h = <<"image", t>>  PROVE  Holds(h)' = Holds(h)
    <3>1. image'[t] = image[t]  BY <1>1, <1>2, <1>5, <2>4
    <3>2. QED  BY <2>4, <3>1, HoldsNow, HoldsNext DEF HoldsByKind
  <2>5. ASSUME NEW p \in Pools, h = <<"pool", p>>  PROVE  Holds(h)' = Holds(h)
    <3>1. PagesOfPool(p)' = PagesOfPool(p)  BY <1>1 DEF PagesOfPool
    <3>2. QED  BY <2>5, <3>1, HoldsNow, HoldsNext DEF HoldsByKind
  <2>6. QED  BY <1>5, <2>1, <2>2, <2>3, <2>4, <2>5, HolderKinds
<1>6. Holds(<<"region", s>>)' = PagesOfRegion(s)' /\ Holds(<<"image", s>>)' = image'[s]
  BY HoldsNext DEF HoldsByKind
<1>7. Holds(<<"region", s>>) = PagesOfRegion(s)  BY HoldsNow DEF HoldsByKind
<1>8. QED  BY <1>1, <1>3, <1>4, <1>5, <1>6, <1>7

LEMMA KillApart ==
    ASSUME MemInv, NEW s \in Slots, Kill(s)  PROVE  NoPageTwice' /\ SlotsOwnTheirRegions'
<1> USE DEF MemInv
<1> DEFINE R == <<"region", s>>
           I == <<"image", s>>
<1>1. R \in Holders /\ I \in Holders  BY HolderNames
<1>2. /\ used' = used \ Holds(R) /\ Holds(R)' = {} /\ Holds(I)' = {}
      /\ \A h \in Holders \ {R, I} : Holds(h)' = Holds(h)
  BY KilledRegion
<1>3. SlotsOwnTheirRegions'
  BY DEF Kill, SlotsOwnTheirRegions, TypeOK, Loading
<1> HIDE DEF R, I
<1>4. ASSUME NEW h \in Holders  PROVE  Holds(h)' \subseteq used'
  <2>1. CASE h \in {R, I}  BY <2>1, <1>2
  <2>2. CASE h \notin {R, I}
    <3>1. Holds(h) \subseteq used /\ Holds(h) \cap Holds(R) = {}
      BY <1>1, <2>2 DEF NoPageTwice
    <3>2. QED  BY <2>2, <1>2, <3>1
  <2>3. QED  BY <2>1, <2>2
<1>5. ASSUME NEW h \in Holders, NEW k \in Holders, h # k
      PROVE  Holds(h)' \cap Holds(k)' = {}
  <2>1. CASE h \in {R, I} \/ k \in {R, I}  BY <2>1, <1>2
  <2>2. CASE h \notin {R, I} /\ k \notin {R, I}
    <3>1. Holds(h) \cap Holds(k) = {}  BY <1>5 DEF NoPageTwice
    <3>2. QED  BY <2>2, <1>2, <3>1
  <2>3. QED  BY <2>1, <2>2
<1>6. QED  BY <1>3, <1>4, <1>5 DEF NoPageTwice

LEMMA HeapApart ==
    ASSUME MemInv, (\E p \in Pools : Kmalloc(p)) \/ (\E o \in objects : Kfree(o))
    PROVE  NoPageTwice' /\ SlotsOwnTheirRegions'
<1> USE DEF MemInv
<1>1. UNCHANGED <<taken, regionAt, image, load>>  BY DEF Kmalloc, Kfree
<1>2. SlotsOwnTheirRegions'  BY <1>1 DEF SlotsOwnTheirRegions, Loading
<1>3. CASE UNCHANGED <<used, poolAt>>
  BY <1>1, <1>2, <1>3, NoGrant DEF PagesOfRegion, PagesOfPool
<1>4. ASSUME NEW p \in Pools, NEW page \in Pages, PageAlloc(POOL_ARENA_PAGES, page),
             poolAt' = [poolAt EXCEPT ![p] = page], poolAt[p] = 0
      PROVE  NoPageTwice'
  <2> DEFINE F == Run(page, POOL_ARENA_PAGES)
  <2>1. F \cap used = {} /\ used' = used \cup F  BY <1>4, GrantedRun
  <2>2. <<"pool", p>> \in Holders  BY HolderNames
  <2>3. ASSUME NEW q \in Pools
        PROVE  PagesOfPool(q)' \subseteq PagesOfPool(q) \cup
                               (IF <<"pool", p>> = <<"pool", q>> THEN F ELSE {})
    <3>1. poolAt' = [poolAt EXCEPT ![p] = page] /\ poolAt \in [Pools -> Pages]
      BY <1>4 DEF TypeOK
    <3>2. CASE q = p
      <4>1. poolAt'[q] = page  BY <3>1, <3>2
      <4>2. QED  BY <3>2, <4>1 DEF PagesOfPool
    <3>3. CASE q # p
      <4>1. poolAt'[q] = poolAt[q]  BY <3>1, <3>3
      <4>2. QED  BY <4>1 DEF PagesOfPool
    <3>4. QED  BY <3>2, <3>3
  <2> HIDE DEF F
  <2>4. QED  BY <1>1, <2>1, <2>2, <2>3, OneGrant DEF PagesOfRegion
<1>5. NoPages(POOL_ARENA_PAGES) => used' = used  BY RefusedRun
<1>6. QED  BY <1>2, <1>3, <1>4, <1>5 DEF Kmalloc, Kfree, pageVars

LEMMA InitHolds == Init => MemInv
<1> SUFFICES ASSUME Init PROVE MemInv  OBVIOUS
<1>1. TypeOK  BY InitTyped
<1>2. SlotsOwnTheirRegions
  <2>1. ~Loading  BY DEF Init, Loading
  <2>2. taken = {0, 1} /\ regionAt = [s \in Slots |-> IF s = 0 THEN GOPHERD_PAGE ELSE 0]
        /\ image = [s \in Slots |-> {}]
    BY DEF Init, GOPHERD, SHELL
  <2>3. GOPHERD_PAGE # 0 /\ 0 \in Slots  BY DEF Slots
  <2>4. QED  BY <2>1, <2>2, <2>3 DEF SlotsOwnTheirRegions, SHELL
<1>3. /\ Holds(<<"kernel", 0>>) = KernelPages
      /\ Holds(<<"load", 0>>) = {}
      /\ \A s \in Slots : Holds(<<"region", s>>) \subseteq
                          (IF s = GOPHERD THEN Run(GOPHERD_PAGE, REGION_PAGES) ELSE {})
      /\ \A s \in Slots : Holds(<<"image", s>>) = {}
      /\ \A p \in Pools : Holds(<<"pool", p>>) = {}
  BY HoldsNow DEF HoldsByKind, Init, NoLoad, PagesOfRegion, PagesOfPool
<1>4. KernelPages \cap Run(GOPHERD_PAGE, REGION_PAGES) = {}  BY DEF KernelPages
<1>5. KernelPages \subseteq used /\ Run(GOPHERD_PAGE, REGION_PAGES) \subseteq used
  BY DEF KernelPages, Run, Init
<1>6. ASSUME NEW h \in Holders  PROVE  Holds(h) \subseteq used
  BY <1>3, <1>5, HolderKinds
<1>7. ASSUME NEW h \in Holders, NEW k \in Holders, h # k  PROVE  Holds(h) \cap Holds(k) = {}
  <2>1. \A g \in Holders \ {<<"kernel", 0>>, <<"region", GOPHERD>>} : Holds(g) = {}
    BY <1>3, HolderKinds
  <2>2. Holds(<<"region", GOPHERD>>) \subseteq Run(GOPHERD_PAGE, REGION_PAGES)
    BY <1>3 DEF Slots, GOPHERD
  <2>3. QED  BY <1>3, <1>4, <1>7, <2>1, <2>2
<1>8. NoPageTwice  BY <1>6, <1>7 DEF NoPageTwice
<1>9. QED  BY <1>1, <1>2, <1>8 DEF MemInv

LEMMA NextHolds == MemInv /\ [Next]_vars => MemInv'
<1> SUFFICES ASSUME MemInv, [Next]_vars PROVE MemInv'  OBVIOUS
<1>1. TypeOK'  BY NextTyped DEF MemInv
<1>2. NoPageTwice' /\ SlotsOwnTheirRegions'
  <2>1. CASE UNCHANGED vars
    <3> USE DEF MemInv
    <3>1. UNCHANGED <<used, taken, regionAt, image, load, poolAt>>  BY <2>1 DEF vars, pageVars
    <3>2. NoPageTwice'  BY <3>1, NoGrant DEF PagesOfRegion, PagesOfPool
    <3>3. SlotsOwnTheirRegions'  BY <3>1 DEF SlotsOwnTheirRegions, Loading
    <3>4. QED  BY <3>2, <3>3
  <2>2. QED
    BY <2>1, CreateApart, KillApart, LoadElfApart, LoadSegmentApart, LoadRegionApart, HeapApart
    DEF Next
<1>3. QED  BY <1>1, <1>2 DEF MemInv

LEMMA MemoryInvariant == Spec => []MemInv
BY InitHolds, NextHolds, PTL DEF Spec

(* No page has two holders: the stacks of two processes, a program and the *)
(* heap, never overlap, for every arena, every set of programs and every   *)
(* order of creations, failures and kills.                                 *)
THEOREM PagesHaveOneHolder == Spec => []NoPageTwice
<1>1. MemInv => NoPageTwice  BY DEF MemInv
<1>2. QED  BY <1>1, MemoryInvariant, PTL

(***************************************************************************)
(* What is lost was part of an image.                                      *)
(***************************************************************************)
Images == load.got \cup UNION {image[s] : s \in Slots}

LEMMA OnlyImagesDropped ==
    ASSUME NEW new \in Holders, used' \ used \subseteq Holds(new)',
           \A s \in Slots : PagesOfRegion(s) \cap used' \subseteq PagesOfRegion(s)',
           \A p \in Pools : PagesOfPool(p) \subseteq PagesOfPool(p)'
    PROVE  Lost' \ Lost \subseteq Images
<1> SUFFICES ASSUME NEW page \in Lost' \ Lost  PROVE page \in Images  OBVIOUS
<1>1. page \in used' /\ \A h \in Holders : page \notin Holds(h)'  BY DEF Lost, Holders
<1>2. page \in used  BY <1>1
<1>3. PICK h \in Holders : page \in Holds(h)  BY <1>2 DEF Lost
<1>4. CASE h = <<"kernel", 0>>
  <2>1. Holds(<<"kernel", 0>>)' = KernelPages  BY HoldsNext DEF HoldsByKind, KernelPages
  <2>2. Holds(<<"kernel", 0>>) = KernelPages  BY HoldsNow DEF HoldsByKind
  <2>3. QED  BY <1>1, <1>3, <1>4, <2>1, <2>2
<1>5. CASE h = <<"load", 0>>  BY <1>3, <1>5, HoldsNow DEF HoldsByKind, Images
<1>6. ASSUME NEW s \in Slots, h = <<"region", s>>  PROVE FALSE
  <2>1. Holds(h) = PagesOfRegion(s) /\ Holds(h)' = PagesOfRegion(s)'
    BY <1>6, HoldsNow, HoldsNext DEF HoldsByKind
  <2>2. QED  BY <1>1, <1>3, <2>1
<1>7. ASSUME NEW s \in Slots, h = <<"image", s>>  PROVE page \in Images
  <2>1. Holds(h) = image[s]  BY <1>7, HoldsNow DEF HoldsByKind
  <2>2. QED  BY <1>3, <2>1 DEF Images
<1>8. ASSUME NEW p \in Pools, h = <<"pool", p>>  PROVE FALSE
  <2>1. Holds(h) = PagesOfPool(p) /\ Holds(h)' = PagesOfPool(p)'
    BY <1>8, HoldsNow, HoldsNext DEF HoldsByKind
  <2>2. QED  BY <1>1, <1>3, <2>1
<1>9. QED  BY <1>4, <1>5, <1>6, <1>7, <1>8, HolderKinds

LEMMA NothingDropped ==
    ASSUME used' = used, UNCHANGED <<regionAt, poolAt>>
    PROVE  Lost' \ Lost \subseteq Images
<1>1. <<"kernel", 0>> \in Holders /\ used' \ used \subseteq Holds(<<"kernel", 0>>)'
  BY HolderNames
<1>2. QED  BY <1>1, OnlyImagesDropped DEF PagesOfRegion, PagesOfPool

(* A process is given a region only when it has none.                      *)
LEMMA RegionGrantKeeps ==
    ASSUME MemInv, NEW s \in Slots, regionAt[s] = 0, UNCHANGED poolAt,
           \/ \E page \in Pages : /\ PageAlloc(REGION_PAGES, page)
                                  /\ regionAt' = [regionAt EXCEPT ![s] = page]
           \/ NoPages(REGION_PAGES) /\ regionAt' = [regionAt EXCEPT ![s] = 0]
    PROVE  Lost' \ Lost \subseteq Images
<1>1. regionAt \in [Slots -> Pages] /\ TypeOK /\ NoPageTwice  BY DEF MemInv, TypeOK
<1>2. \A p \in Pools : PagesOfPool(p) \subseteq PagesOfPool(p)'  BY DEF PagesOfPool
<1>3. \A t \in Slots : PagesOfRegion(t) \cap used' \subseteq PagesOfRegion(t)'
  BY <1>1 DEF PagesOfRegion
<1>4. <<"region", s>> \in Holders /\ Holds(<<"region", s>>)' = PagesOfRegion(s)'
  BY HolderNames, HoldsNext DEF HoldsByKind
<1>5. ASSUME NEW page \in Pages, PageAlloc(REGION_PAGES, page),
             regionAt' = [regionAt EXCEPT ![s] = page]
      PROVE  used' \ used \subseteq Holds(<<"region", s>>)'
  <2>1. used' = used \cup Run(page, REGION_PAGES) /\ page # 0
    BY <1>1, <1>5, GrantedRun, GrantIsNotNull
  <2>2. regionAt'[s] = page  BY <1>1, <1>5
  <2>3. PagesOfRegion(s)' = Run(page, REGION_PAGES)  BY <2>1, <2>2 DEF PagesOfRegion
  <2>4. QED  BY <1>4, <2>1, <2>3
<1>6. NoPages(REGION_PAGES) => used' = used  BY <1>1, RefusedRun
<1>7. used' \ used \subseteq Holds(<<"region", s>>)'  BY <1>5, <1>6
<1>8. QED  BY <1>2, <1>3, <1>4, <1>7, OnlyImagesDropped

LEMMA KillDrops == ASSUME MemInv, NEW s \in Slots, Kill(s)  PROVE Lost' \ Lost \subseteq Images
<1> DEFINE R == <<"region", s>>
<1>1. used' = used \ Holds(R)  BY KilledRegion
<1>2. Holds(R) = PagesOfRegion(s)  BY HoldsNow DEF HoldsByKind
<1>3. regionAt \in [Slots -> Pages] /\ regionAt' = [regionAt EXCEPT ![s] = 0] /\ UNCHANGED poolAt
  BY DEF MemInv, TypeOK, Kill
<1>4. ASSUME NEW t \in Slots  PROVE PagesOfRegion(t) \cap used' \subseteq PagesOfRegion(t)'
  <2>1. CASE t = s  BY <1>1, <1>2, <2>1
  <2>2. CASE t # s
    <3>1. regionAt'[t] = regionAt[t]  BY <1>3, <2>2
    <3>2. QED  BY <3>1 DEF PagesOfRegion
  <2>3. QED  BY <2>1, <2>2
<1>5. \A p \in Pools : PagesOfPool(p) \subseteq PagesOfPool(p)'  BY <1>3 DEF PagesOfPool
<1>6. R \in Holders /\ used' \ used \subseteq Holds(R)'  BY <1>1, HolderNames
<1> HIDE DEF R
<1>7. QED  BY <1>4, <1>5, <1>6, OnlyImagesDropped

LEMMA SegmentDrops == ASSUME MemInv, LoadSegment  PROVE Lost' \ Lost \subseteq Images
<1> DEFINE L == <<"load", 0>>
<1>1. /\ Head(load.todo).pages \in Nat
      /\ load \in [slot : Slots, todo : Seq(Segments), got : SUBSET Pages]
  BY LoadTyped DEF MemInv, LoadSegment
<1>2. UNCHANGED <<regionAt, poolAt>>  BY DEF LoadSegment
<1>3. CASE NoPages(Head(load.todo).pages)
  <2>1. used' = used  BY <1>1, <1>3, RefusedRun DEF MemInv
  <2>2. QED  BY <1>2, <2>1, NothingDropped
<1>4. ASSUME NEW page \in Pages, PageAlloc(Head(load.todo).pages, page),
             load' = [load EXCEPT !.todo = Tail(@),
                                  !.got = @ \cup Run(page, Head(load.todo).pages)]
      PROVE  Lost' \ Lost \subseteq Images
  <2>1. used' = used \cup Run(page, Head(load.todo).pages)  BY <1>1, <1>4, GrantedRun DEF MemInv
  <2>2. load'.got = load.got \cup Run(page, Head(load.todo).pages)  BY <1>1, <1>4
  <2>3. L \in Holders /\ Holds(L)' = load'.got  BY HolderNames, HoldsNext DEF HoldsByKind
  <2>4. used' \ used \subseteq Holds(L)'  BY <2>1, <2>2, <2>3
  <2>5. QED  BY <1>2, <2>3, <2>4, OnlyImagesDropped DEF PagesOfRegion, PagesOfPool
<1>5. QED  BY <1>3, <1>4 DEF LoadSegment

LEMMA KmallocDrops ==
    ASSUME MemInv, NEW p \in Pools, Kmalloc(p)  PROVE Lost' \ Lost \subseteq Images
<1> DEFINE P == <<"pool", p>>
<1>1. poolAt \in [Pools -> Pages] /\ TypeOK /\ NoPageTwice  BY DEF MemInv, TypeOK
<1>2. UNCHANGED regionAt  BY DEF Kmalloc
<1>3. CASE UNCHANGED <<pageVars, poolAt>>  BY <1>2, <1>3, NothingDropped DEF pageVars
<1>4. CASE NoPages(POOL_ARENA_PAGES) /\ UNCHANGED poolAt
  <2>1. used' = used  BY <1>1, <1>4, RefusedRun
  <2>2. QED  BY <1>2, <1>4, <2>1, NothingDropped
<1>5. ASSUME poolAt[p] = 0, NEW page \in Pages, PageAlloc(POOL_ARENA_PAGES, page),
             poolAt' = [poolAt EXCEPT ![p] = page]
      PROVE  Lost' \ Lost \subseteq Images
  <2>1. used' = used \cup Run(page, POOL_ARENA_PAGES) /\ page # 0
    BY <1>1, <1>5, GrantedRun, GrantIsNotNull
  <2>2. poolAt'[p] = page  BY <1>1, <1>5
  <2>3. PagesOfPool(p)' = Run(page, POOL_ARENA_PAGES)  BY <2>1, <2>2 DEF PagesOfPool
  <2>4. P \in Holders /\ Holds(P)' = PagesOfPool(p)'  BY HolderNames, HoldsNext DEF HoldsByKind
  <2>5. used' \ used \subseteq Holds(P)'  BY <2>1, <2>3, <2>4
  <2>6. \A q \in Pools : PagesOfPool(q) \subseteq PagesOfPool(q)'
    BY <1>1, <1>5 DEF PagesOfPool
  <2>7. \A s \in Slots : PagesOfRegion(s) \cap used' \subseteq PagesOfRegion(s)'
    BY <1>2 DEF PagesOfRegion
  <2>8. QED  BY <2>4, <2>5, <2>6, <2>7, OnlyImagesDropped
<1>6. QED  BY <1>3, <1>4, <1>5 DEF Kmalloc

LEMMA StepDrops == MemInv /\ [Next]_vars => [Lost' \ Lost \subseteq Images]_vars
<1> SUFFICES ASSUME MemInv, Next PROVE Lost' \ Lost \subseteq Images  OBVIOUS
<1>1. ASSUME NEW s \in Slots, Create(s)  PROVE Lost' \ Lost \subseteq Images
  <2>1. regionAt[s] = 0 /\ UNCHANGED poolAt
    BY <1>1 DEF Create, FirstFreeSlot, IsFirst, MemInv, SlotsOwnTheirRegions
  <2>2. QED  BY <1>1, <2>1, RegionGrantKeeps DEF Create
<1>2. CASE LoadRegion
  <2>1. PICK s \in Slots : s = load.slot  BY <1>2, LoadTyped DEF LoadRegion, MemInv
  <2>2. regionAt[s] = 0 /\ UNCHANGED poolAt
    BY <1>2, <2>1 DEF LoadRegion, MemInv, SlotsOwnTheirRegions
  <2>3. QED  BY <1>2, <2>1, <2>2, RegionGrantKeeps DEF LoadRegion
<1>3. CASE LoadBadSegment \/ (\E o \in objects : Kfree(o))
           \/ \E s \in Slots, program \in Programs : LoadElf(s, program)
  BY <1>3, NothingDropped DEF LoadBadSegment, Kfree, LoadElf, pageVars
<1>4. QED  BY <1>1, <1>2, <1>3, KillDrops, SegmentDrops, KmallocDrops DEF Next

(* Pages that were held and no longer are, without being free, were pages  *)
(* of a program: whatever the order of failures and kills, no region and   *)
(* no pool is ever lost.                                                   *)
THEOREM OnlyImagesAreLost == Spec => OnlyImagesLeak
<1>1. MemInv /\ [Next]_vars
        => [Lost' \ Lost \subseteq load.got \cup UNION {image[s] : s \in Slots}]_vars
  BY StepDrops DEF Images
<1>2. QED  BY <1>1, MemoryInvariant, PTL DEF Spec, OnlyImagesLeak

(***************************************************************************)
(* The search implements PageStore.                                        *)
(***************************************************************************)
LEMMA AllocIsStoreStep ==
    ASSUME TypeOK, NEW n \in Nat, (\E s \in Pages : PageAlloc(n, s)) \/ NoPages(n)
    PROVE  Store!Next
<1>1. ASSUME NEW s \in Pages, PageAlloc(n, s)  PROVE Store!Next
  <2>1. /\ n \in 1 .. ARENA_PAGES /\ s + n <= ARENA_PAGES /\ Run(s, n) \cap used = {}
        /\ used' = used \cup Run(s, n) /\ call' = [n |-> n, page |-> s]
    BY <1>1, GrantedRun
  <2>2. Store!Grant(n, s)  BY <2>1 DEF Store!Grant, Store!FreeRun, Store!Run, Run
  <2>3. QED  BY <2>1, <2>2 DEF Store!Next, Store!Pages, Pages
<1>2. CASE NoPages(n)
  <2>1. used' = used /\ call' = [n |-> n, page |-> 0] /\ (n > 0 => FreeRuns(0, n) = {})
    BY <1>2, RefusedRun
  <2>2. n > 0 => \A s \in Store!Pages : ~Store!FreeRun(s, n)
    <3> SUFFICES ASSUME n > 0, NEW s \in Store!Pages, Store!FreeRun(s, n)  PROVE FALSE
      OBVIOUS
    <3>1. s \in 0 .. ARENA_PAGES - n  BY DEF Store!Pages, Store!FreeRun
    <3>2. Run(s, n) \cap used = {}  BY DEF Store!FreeRun, Store!Run, Run
    <3>3. s \in FreeRuns(0, n)  BY <3>1, <3>2 DEF FreeRuns
    <3>4. QED  BY <2>1, <3>3
  <2>3. call'.n = n /\ call' \in [n : Nat, page : {0}]  BY <2>1
  <2>4. Store!Refuse  BY <2>1, <2>2, <2>3 DEF Store!Refuse
  <2>5. QED  BY <2>4 DEF Store!Next
<1>3. QED  BY <1>1, <1>2

LEMMA KillIsStoreStep ==
    ASSUME MemInv, NEW s \in Slots, Kill(s)  PROVE  Store!Next
<1> DEFINE R == <<"region", s>>
           page == regionAt[s]
<1>1. Run(page, REGION_PAGES) = Holds(R) /\ used' = used \ Holds(R)  BY KilledRegion
<1>2. R \in Holders /\ <<"kernel", 0>> \in Holders /\ R # <<"kernel", 0>>  BY HolderNames
<1>3. 0 \in Holds(<<"kernel", 0>>)
  <2>1. 0 \in KernelPages  BY DEF KernelPages, Run
  <2>2. Holds(<<"kernel", 0>>) = KernelPages  BY HoldsNow DEF HoldsByKind
  <2>3. QED  BY <2>1, <2>2
<1>4. Holds(R) \subseteq used \ {0}  BY <1>2, <1>3 DEF MemInv, NoPageTwice
<1>5. page \in Pages /\ page # 0 /\ call' = call
  BY DEF MemInv, TypeOK, SlotsOwnTheirRegions, Kill, PageFree
<1>6. Store!Release(page, REGION_PAGES)
  BY <1>1, <1>4, <1>5 DEF Store!Release, Store!Run, Run
<1>7. REGION_PAGES \in 1 .. ARENA_PAGES  OBVIOUS
<1>8. QED  BY <1>5, <1>6, <1>7 DEF Store!Next, Store!Pages, Pages

LEMMA StepIsStoreStep == MemInv /\ [Next]_vars => [Store!Next]_<<used, call>>
<1> SUFFICES ASSUME MemInv, [Next]_vars PROVE [Store!Next]_<<used, call>>  OBVIOUS
<1> USE DEF MemInv
<1>1. CASE UNCHANGED pageVars  BY <1>1 DEF pageVars
<1>2. CASE \E n \in Nat : (\E s \in Pages : PageAlloc(n, s)) \/ NoPages(n)
  BY <1>2, AllocIsStoreStep
<1>3. CASE \E s \in Slots : Kill(s)  BY <1>3, KillIsStoreStep
<1>4. CASE UNCHANGED vars  BY <1>1, <1>4 DEF vars
<1>5. CASE LoadSegment
  <2>1. Head(load.todo).pages \in Nat  BY <1>5, LoadTyped DEF LoadSegment
  <2>2. QED  BY <1>2, <1>5, <2>1 DEF LoadSegment
<1>6. CASE \E s \in Slots : Create(s)  BY <1>2, <1>6 DEF Create
<1>7. CASE LoadRegion  BY <1>2, <1>7 DEF LoadRegion
<1>8. CASE \E p \in Pools : Kmalloc(p)  BY <1>1, <1>2, <1>8 DEF Kmalloc
<1>9. CASE LoadBadSegment \/ (\E o \in objects : Kfree(o))
           \/ \E s \in Slots, program \in Programs : LoadElf(s, program)
  BY <1>1, <1>9 DEF LoadBadSegment, Kfree, LoadElf
<1>10. QED  BY <1>3, <1>4, <1>5, <1>6, <1>7, <1>8, <1>9 DEF Next

(* Behind its hint and its two passes, page_alloc hands out only free      *)
(* pages and refuses only when no run of that length is free.              *)
THEOREM SearchImplementsPageStore == Spec => ImplementsPageStore
<1>1. Init => Store!Init
  BY DEF Init, Store!Init, Store!Pages
<1>2. QED  BY <1>1, StepIsStoreStep, MemoryInvariant, PTL DEF Spec, ImplementsPageStore, Store!Spec

(***************************************************************************)
(* The heap.                                                               *)
(***************************************************************************)
LEMMA ProductsGrow ==
    ASSUME NEW a \in Nat, NEW b \in Nat, NEW u \in Nat, a <= b  PROVE a * u <= b * u
<1>1. PICK c \in Nat : b = a + c
  <2>1. b - a \in Nat /\ b = a + (b - a)  OBVIOUS
  <2>2. QED  BY <2>1
<1>2. (a + c) * u = a * u + c * u /\ c * u >= 0 /\ a * u \in Nat  OBVIOUS
<1>3. QED  BY <1>1, <1>2

LEMMA Quotient ==
    ASSUME NEW u \in Nat \ {0}, NEW x \in Nat
    PROVE  x \div u \in Nat /\ (x \div u) * u <= x /\ x < (x \div u) * u + u
<1>1. x = ((x \div u) * u) + (x % u) /\ (x % u) \in 0 .. u - 1 /\ (x \div u) \in Nat
  OBVIOUS
<1>2. QED  BY <1>1

LEMMA QuotientOfProduct == ASSUME NEW u \in Nat \ {0}, NEW i \in Nat  PROVE (i * u) \div u = i
<1>1. \A q \in Nat : ((q * u) + 0) \div u = q  OBVIOUS
<1>2. i * u \in Nat  OBVIOUS
<1>3. QED  BY <1>1, <1>2

LEMMA QuotientBounds ==
    ASSUME NEW u \in Nat \ {0}, NEW x \in Nat, NEW a \in Nat
    PROVE  /\ a * u <= x => a <= x \div u
           /\ x < a * u => x \div u < a
<1>1. PICK d \in Nat : d = x \div u /\ d * u <= x /\ x < d * u + u  BY Quotient
<1>2. a \in Nat /\ d \in Nat /\ d * u \in Nat /\ a * u \in Nat  OBVIOUS
<1>3. ASSUME a * u <= x  PROVE a <= d
  <2> SUFFICES ASSUME d + 1 <= a  PROVE FALSE  BY <1>2
  <2>1. (d + 1) * u <= a * u  BY <1>2, ProductsGrow
  <2>2. (d + 1) * u = d * u + u  OBVIOUS
  <2>3. QED  BY <1>1, <1>2, <1>3, <2>1, <2>2
<1>4. ASSUME x < a * u  PROVE d < a
  <2> SUFFICES ASSUME a <= d  PROVE FALSE  BY <1>2
  <2>1. a * u <= d * u  BY <1>2, ProductsGrow
  <2>2. QED  BY <1>1, <1>2, <1>4, <2>1
<1>5. QED  BY <1>1, <1>3, <1>4

(* An address inside n pages from page a on is in one of those pages.      *)
LEMMA PageOfAddress ==
    ASSUME NEW a \in Nat, NEW n \in Nat, NEW u \in Nat \ {0}, NEW x \in Nat,
           a * u <= x, x < a * u + n * u
    PROVE  x \div u \in Run(a, n)
<1>1. a + n \in Nat /\ (a + n) * u = a * u + n * u  OBVIOUS
<1>2. x < (a + n) * u  BY <1>1
<1>3. a <= x \div u /\ x \div u < a + n  BY <1>1, <1>2, QuotientBounds
<1>4. x \div u \in Nat  BY Quotient
<1>5. QED  BY <1>3, <1>4 DEF Run

SlotAt(p, base, i) == [pool |-> p, addr |-> base + i * SlotUnits[p]]

(* The used slots of a pool are slots that it has, and a pool without      *)
(* pages has none.                                                         *)
Matches(p) == {SlotAt(p, Base(p), i) : i \in slots[p]} = {o \in objects : o.pool = p}
InRoom(p) ==
    /\ slots[p] \subseteq 0 .. NumSlots(p) - 1
    /\ poolAt[p] = 0 => slots[p] = {}

HeapInv == \A p \in Pools : Matches(p) /\ InRoom(p)

LEMMA PoolSizes ==
    ASSUME NEW p \in Pools
    PROVE  /\ SlotUnits[p] \in Nat \ {0} /\ PoolUnits \in Nat /\ NumSlots(p) \in Nat
           /\ NumSlots(p) * SlotUnits[p] <= PoolUnits
<1>1. SlotUnits[p] \in Nat \ {0}  BY DEF Pools
<1>2. PoolUnits \in Nat  BY DEF PoolUnits
<1>3. QED  BY <1>1, <1>2, Quotient DEF NumSlots

LEMMA BaseTyped == ASSUME TypeOK, NEW p \in Pools  PROVE Base(p) \in Nat
<1>1. poolAt[p] \in Nat  BY DEF TypeOK, Pages
<1>2. QED  BY <1>1 DEF Base

(* A slot lies inside its pool.                                            *)
LEMMA SlotFits ==
    ASSUME NEW p \in Pools, NEW i \in 0 .. NumSlots(p) - 1
    PROVE  i * SlotUnits[p] \in Nat /\ i * SlotUnits[p] + SlotUnits[p] <= PoolUnits
<1>1. PICK u \in Nat \ {0} : u = SlotUnits[p]  BY PoolSizes
<1>2. PICK n \in Nat : n = NumSlots(p)  BY PoolSizes
<1>3. i \in Nat /\ i + 1 <= n  BY <1>2
<1>4. (i + 1) * u <= n * u  BY <1>3, ProductsGrow
<1>5. (i + 1) * u = i * u + u /\ i * u \in Nat /\ n * u \in Nat  BY <1>3
<1>6. n * u <= PoolUnits /\ PoolUnits \in Nat  BY <1>1, <1>2, PoolSizes
<1>7. i * u + u <= PoolUnits  BY <1>4, <1>5, <1>6
<1>8. QED  BY <1>1, <1>5, <1>7

(* The address tells the slot.                                             *)
LEMMA SlotOfAddress ==
    ASSUME NEW p \in Pools, NEW base \in Nat, NEW i \in Nat
    PROVE  (SlotAt(p, base, i).addr - base) \div SlotUnits[p] = i
<1>1. PICK u \in Nat \ {0} : u = SlotUnits[p]  BY PoolSizes
<1>2. i * u \in Nat  OBVIOUS
<1>3. (base + i * u) - base = i * u  BY <1>2
<1>4. SlotAt(p, base, i).addr = base + i * u  BY <1>1 DEF SlotAt
<1>5. QED  BY <1>1, <1>3, <1>4, QuotientOfProduct

LEMMA SlotsDiffer ==
    ASSUME NEW p \in Pools, NEW base \in Nat, NEW i \in Nat, NEW j \in Nat,
           SlotAt(p, base, i) = SlotAt(p, base, j)
    PROVE  i = j
<1>1. /\ (SlotAt(p, base, i).addr - base) \div SlotUnits[p] = i
      /\ (SlotAt(p, base, j).addr - base) \div SlotUnits[p] = j
  BY SlotOfAddress
<1>2. QED  BY <1>1

LEMMA SlotPool == ASSUME NEW p, NEW base, NEW i  PROVE SlotAt(p, base, i).pool = p
BY DEF SlotAt

(* kmalloc takes a slot of a pool that has its pages, or has just got them.*)
LEMMA TakingKeepsHeap ==
    ASSUME TypeOK, HeapInv, NEW p \in Pools, NEW i \in Nat, NEW base,
           TakeSlot(p, i, base), base = Base(p)', poolAt'[p] # 0,
           poolAt[p] = 0 \/ poolAt'[p] = poolAt[p],
           \A q \in Pools \ {p} : poolAt'[q] = poolAt[q]
    PROVE  HeapInv'
<1>1. /\ i \in 0 .. NumSlots(p) - 1 /\ slots' = [slots EXCEPT ![p] = @ \cup {i}]
      /\ objects' = objects \cup {SlotAt(p, base, i)}
  BY DEF TakeSlot, IsFirst, SlotAt
<1>2. slots \in [Pools -> SUBSET Nat]  BY DEF TypeOK
<1>3. ASSUME NEW q \in Pools \ {p}  PROVE Matches(q)' /\ InRoom(q)'
  <2>1. slots'[q] = slots[q] /\ poolAt'[q] = poolAt[q]  BY <1>1, <1>2
  <2>2. Base(q)' = Base(q)  BY <2>1 DEF Base
  <2>3. Matches(q) /\ InRoom(q)  BY DEF HeapInv
  <2>4. {o \in objects' : o.pool = q} = {o \in objects : o.pool = q}  BY <1>1, SlotPool
  <2>5. QED  BY <2>1, <2>2, <2>3, <2>4 DEF Matches, InRoom, NumSlots
<1>4. Matches(p)' /\ InRoom(p)'
  <2>1. slots'[p] = slots[p] \cup {i}  BY <1>1, <1>2
  <2>2. \A j \in slots[p] : SlotAt(p, Base(p), j) = SlotAt(p, Base(p)', j)
    <3>1. CASE poolAt[p] = 0  BY <3>1 DEF HeapInv, InRoom
    <3>2. CASE poolAt'[p] = poolAt[p]
      <4>1. Base(p)' = Base(p)  BY <3>2 DEF Base
      <4>2. QED  BY <4>1
    <3>3. QED  BY <3>1, <3>2
  <2>3. Matches(p) /\ slots[p] \subseteq 0 .. NumSlots(p) - 1  BY DEF HeapInv, InRoom
  <2>4. {SlotAt(p, Base(p)', j) : j \in slots'[p]}
          = {SlotAt(p, Base(p), j) : j \in slots[p]} \cup {SlotAt(p, Base(p)', i)}
    BY <2>1, <2>2
  <2>5. {o \in objects' : o.pool = p}
          = {o \in objects : o.pool = p} \cup {SlotAt(p, Base(p)', i)}
    BY <1>1, SlotPool
  <2>6. Matches(p)'
    <3>1. {SlotAt(p, Base(p), j) : j \in slots[p]} = {o \in objects : o.pool = p}
      BY <2>3 DEF Matches
    <3>2. {SlotAt(p, Base(p)', j) : j \in slots'[p]} = {o \in objects' : o.pool = p}
      BY <2>4, <2>5, <3>1, Zenon
    <3>3. QED  BY <3>2 DEF Matches
  <2>7. QED  BY <1>1, <2>1, <2>3, <2>6 DEF InRoom, NumSlots
<1>5. QED  BY <1>3, <1>4 DEF HeapInv

LEMMA KmallocHeap == ASSUME MemInv, HeapInv, NEW p \in Pools, Kmalloc(p)  PROVE HeapInv'
<1>1. TypeOK /\ poolAt \in [Pools -> Pages] /\ NoPageTwice  BY DEF MemInv, TypeOK
<1>2. ASSUME poolAt' = poolAt, poolAt[p] # 0, NEW i \in 0 .. NumSlots(p) - 1,
             TakeSlot(p, i, Base(p))
      PROVE  HeapInv'
  <2>1. Base(p)' = Base(p) /\ i \in Nat  BY <1>2 DEF Base
  <2>2. QED  BY <1>1, <1>2, <2>1, TakingKeepsHeap
<1>3. ASSUME poolAt[p] = 0, NEW page \in Pages, PageAlloc(POOL_ARENA_PAGES, page),
             poolAt' = [poolAt EXCEPT ![p] = page], TakeSlot(p, 0, page * PAGE_UNITS)
      PROVE  HeapInv'
  <2>1. page # 0  BY <1>1, <1>3, GrantIsNotNull
  <2>2. poolAt'[p] = page /\ \A q \in Pools \ {p} : poolAt'[q] = poolAt[q]  BY <1>1, <1>3
  <2>3. Base(p)' = page * PAGE_UNITS  BY <2>2 DEF Base
  <2>4. QED  BY <1>1, <1>3, <2>1, <2>2, <2>3, TakingKeepsHeap
<1>4. CASE UNCHANGED <<poolAt, slots, objects>>
  BY <1>4 DEF HeapInv, Matches, InRoom, Base, NumSlots
<1>5. QED  BY <1>2, <1>3, <1>4 DEF Kmalloc, pageVars

(* The pool that kfree finds is the object's own, and so is the slot.      *)
LEMMA FreeFindsSlot ==
    ASSUME MemInv, HeapInv, NEW o \in objects, NEW p \in Pools, InPool(o.addr, p)
    PROVE  /\ o.pool = p
           /\ \E j \in slots[p] : /\ o = SlotAt(p, Base(p), j)
                                  /\ (o.addr - Base(p)) \div SlotUnits[p] = j
<1> DEFINE q == o.pool
<1>1. q \in Pools /\ o.addr \in Nat /\ TypeOK  BY DEF MemInv, TypeOK
<1>2. PICK j \in slots[q] : o = SlotAt(q, Base(q), j)
  <2>1. o \in {SlotAt(q, Base(q), i) : i \in slots[q]}  BY <1>1 DEF HeapInv, Matches
  <2>2. QED  BY <2>1
<1>3. j \in 0 .. NumSlots(q) - 1 /\ j \in Nat /\ poolAt[q] # 0
  BY <1>1, <1>2 DEF HeapInv, InRoom, MemInv, TypeOK
<1> HIDE DEF q
<1>4. Base(q) \in Nat /\ Base(p) \in Nat  BY <1>1, BaseTyped
<1>5. o.addr \div PAGE_UNITS \in PagesOfPool(q)
  <2>1. o.addr = Base(q) + j * SlotUnits[q]  BY <1>2 DEF SlotAt
  <2>2. /\ j * SlotUnits[q] \in Nat /\ j * SlotUnits[q] + SlotUnits[q] <= PoolUnits
        /\ SlotUnits[q] \in Nat \ {0} /\ PoolUnits \in Nat
    BY <1>1, <1>3, SlotFits, PoolSizes
  <2>3. Base(q) <= o.addr /\ o.addr < Base(q) + PoolUnits  BY <1>4, <2>1, <2>2
  <2>4. poolAt[q] \in Nat  BY <1>1 DEF TypeOK, Pages
  <2>5. o.addr \div PAGE_UNITS \in Run(poolAt[q], POOL_ARENA_PAGES)
    BY <1>1, <2>3, <2>4, PageOfAddress DEF Base, PoolUnits
  <2>6. QED  BY <1>3, <2>5 DEF PagesOfPool
<1>6. o.addr \div PAGE_UNITS \in PagesOfPool(p)
  <2>1. poolAt[p] # 0 /\ Base(p) <= o.addr /\ o.addr < Base(p) + PoolUnits
    BY <1>1, <1>4 DEF InPool
  <2>2. poolAt[p] \in Nat  BY <1>1 DEF TypeOK, Pages
  <2>3. o.addr \div PAGE_UNITS \in Run(poolAt[p], POOL_ARENA_PAGES)
    BY <1>1, <2>1, <2>2, PageOfAddress DEF Base, PoolUnits
  <2>4. QED  BY <2>1, <2>3 DEF PagesOfPool
<1>7. p = q
  <2> SUFFICES ASSUME p # q  PROVE FALSE  OBVIOUS
  <2>1. <<"pool", p>> \in Holders /\ <<"pool", q>> \in Holders /\ <<"pool", p>> # <<"pool", q>>
    BY <1>1, HolderNames
  <2>2. Holds(<<"pool", p>>) \cap Holds(<<"pool", q>>) = {}
    BY <2>1 DEF MemInv, NoPageTwice
  <2>3. Holds(<<"pool", p>>) = PagesOfPool(p) /\ Holds(<<"pool", q>>) = PagesOfPool(q)
    BY <1>1, HoldsNow DEF HoldsByKind
  <2>4. QED  BY <1>5, <1>6, <2>2, <2>3
<1>8. (o.addr - Base(p)) \div SlotUnits[p] = j  BY <1>2, <1>3, <1>4, <1>7, SlotOfAddress
<1>9. QED  BY <1>2, <1>7, <1>8 DEF q

LEMMA KfreeHeap == ASSUME MemInv, HeapInv, NEW o \in objects, Kfree(o)  PROVE HeapInv'
<1>1. PICK p \in Pools :
         /\ InPool(o.addr, p)
         /\ slots' = [slots EXCEPT ![p] = @ \ {(o.addr - Base(p)) \div SlotUnits[p]}]
  BY DEF Kfree, IsFirst
<1>2. PICK j \in slots[p] :
         o = SlotAt(p, Base(p), j) /\ (o.addr - Base(p)) \div SlotUnits[p] = j
  BY <1>1, FreeFindsSlot
<1>3. slots \in [Pools -> SUBSET Nat] /\ TypeOK /\ Base(p) \in Nat
  BY BaseTyped DEF MemInv, TypeOK
<1>4. poolAt' = poolAt /\ objects' = objects \ {o}  BY DEF Kfree
<1>5. \A q \in Pools : Base(q)' = Base(q)  BY <1>4 DEF Base
<1>6. ASSUME NEW q \in Pools \ {p}  PROVE Matches(q)' /\ InRoom(q)'
  <2>1. slots'[q] = slots[q]  BY <1>1, <1>3
  <2>2. {x \in objects' : x.pool = q} = {x \in objects : x.pool = q}
    BY <1>2, <1>4, SlotPool
  <2>3. Matches(q) /\ InRoom(q)  BY DEF HeapInv
  <2>4. QED  BY <1>4, <1>5, <2>1, <2>2, <2>3 DEF Matches, InRoom, NumSlots
<1>7. Matches(p)' /\ InRoom(p)'
  <2>1. slots'[p] = slots[p] \ {j}  BY <1>1, <1>2, <1>3
  <2>2. Matches(p) /\ InRoom(p)  BY DEF HeapInv
  <2>3. \A i \in slots[p] : SlotAt(p, Base(p), i) = SlotAt(p, Base(p), j) => i = j
    BY <1>3, SlotsDiffer
  <2>4. {SlotAt(p, Base(p), i) : i \in slots'[p]}
          = {SlotAt(p, Base(p), i) : i \in slots[p]} \ {o}
    BY <1>2, <2>1, <2>3
  <2>5. {x \in objects' : x.pool = p} = {x \in objects : x.pool = p} \ {o}  BY <1>4
  <2>6. Matches(p)'  BY <1>5, <2>2, <2>4, <2>5 DEF Matches
  <2>7. QED  BY <1>4, <2>1, <2>2, <2>6 DEF InRoom, NumSlots
<1>8. QED  BY <1>6, <1>7 DEF HeapInv

LEMMA NextHeap == MemInv /\ HeapInv /\ [Next]_vars => HeapInv'
<1> SUFFICES ASSUME MemInv, HeapInv, [Next]_vars  PROVE HeapInv'  OBVIOUS
<1>1. CASE UNCHANGED <<poolAt, slots, objects>>
  BY <1>1 DEF HeapInv, Matches, InRoom, Base, NumSlots
<1>2. CASE \/ UNCHANGED vars \/ LoadSegment \/ LoadBadSegment \/ LoadRegion
           \/ \E s \in Slots : Create(s) \/ Kill(s)
           \/ \E s \in Slots, program \in Programs : LoadElf(s, program)
  BY <1>1, <1>2 DEF vars, LoadSegment, LoadBadSegment, LoadRegion, Create, Kill, LoadElf
<1>3. QED  BY <1>2, KmallocHeap, KfreeHeap DEF Next

LEMMA HeapInvariant == Spec => []HeapInv
<1>1. Init => HeapInv  BY DEF Init, HeapInv, Matches, InRoom
<1>2. QED  BY <1>1, NextHeap, MemoryInvariant, PTL DEF Spec

(* The used bits of every pool are its live objects: kfree, given only an  *)
(* address, finds the pool and the slot the object came from, for every    *)
(* set of pools and every order of kmalloc and kfree.                      *)
THEOREM HeapIsItsObjects == Spec => []HeapMatchesObjects
<1>1. HeapInv => HeapMatchesObjects  BY DEF HeapInv, Matches, SlotAt, HeapMatchesObjects
<1>2. QED  BY <1>1, HeapInvariant, PTL
==============================================================================
