----------------------------- MODULE PagingProofs -----------------------------
(***************************************************************************)
(* Proofs about module Paging, for every size of the arena, of the process *)
(* table and of the pools, and for every set of programs: what a process   *)
(* of ring 3 reaches is its own, and a free slot always finds a directory. *)
(***************************************************************************)
EXTENDS Paging, MemoryProofs, FiniteSetTheorems

(***************************************************************************)
(* The inductive invariant.  A directory in use belongs to one process or  *)
(* to the load under way; a slot that is not in use has none.  The pages   *)
(* of the arena and the code stand at their own addresses; what is open    *)
(* there is the region, the heap and the code, what is open elsewhere is   *)
(* the image.  While a linked program is loaded, every page it has been    *)
(* given stands at an address that no segment still to come will take.     *)
(***************************************************************************)
SpacesOwned ==
    /\ Loading <=> loading # -1
    /\ \A s \in Slots \ taken : space[s] = -1
    /\ \A s \in Slots : space[s] # -1 => space[s] \in in_use /\ space[s] # loading
    /\ \A s, r \in Slots : space[s] # -1 /\ space[s] = space[r] => s = r
    /\ Loading => loading \in in_use
    /\ \A h \in in_use : h = loading \/ \E s \in Slots : space[s] = h

OwnAddresses == Pages \cup {KERNEL_CODE}

Sees(h, region, img) ==
    /\ \A v \in OwnAddresses : frame[h][v] = v
    /\ region \subseteq user[h]
    /\ \A v \in user[h] : v \in region \cup PoolPages \cup {KERNEL_CODE} \/ frame[h][v] \in img

StandsClear(h, f, todo) ==
    \E v \in user[h] : frame[h][v] = f /\ \A i \in DOMAIN todo : v \notin At(todo[i])

Shows(h, img, program, todo) ==
    Linked(program) => Linked(todo) /\ \A f \in img : StandsClear(h, f, todo)

HasItsOwn(s) ==
    Sees(space[s], PagesOfRegion(s), image[s]) /\ Shows(space[s], image[s], elf[s], <<>>)

HasSoFar ==
    /\ Sees(loading, {}, load.got)
    /\ Shows(loading, load.got, elf[load.slot], load.todo)
    /\ \A i \in DOMAIN load.todo : load.todo[i].at >= ARENA_PAGES

Contents ==
    /\ \A s \in Slots : space[s] # -1 => HasItsOwn(s)
    /\ Loading => HasSoFar

SpaceInv == PagingTypeOK /\ SpacesOwned /\ Contents

(***************************************************************************)
(* Paging runs Memory: its lemmas hold here.                               *)
(***************************************************************************)
LEMMA StepIsMemoryStep == [PagingNext]_pagingVars => [Next]_vars
BY DEF pagingVars, PagingNext, Next, CreateKernelThread, CreateRing3, StartLoad, MapSegment,
       MapBadSegment, FinishLoad, Exit, KillProcess, Malloc, Free

LEMMA PagingRunsMemory == PagingSpec => Spec
<1>1. PagingInit => Init  BY DEF PagingInit
<1>2. QED  BY <1>1, StepIsMemoryStep, PTL DEF PagingSpec, Spec

LEMMA PagesOfPools == PoolPages = UNION {PagesOfPool(p) : p \in Pools}
BY HoldsNow DEF PoolPages, HoldsByKind

LEMMA PagesOfPoolsNext == PoolPages' = UNION {PagesOfPool(p)' : p \in Pools}
<1>1. PoolPages' = UNION {Holds(<<"pool", p>>)' : p \in Pools}  BY DEF PoolPages
<1>2. QED  BY <1>1, HoldsNext DEF HoldsByKind

(* A pool never gives its pages back.                                      *)
LEMMA PoolsGrow == ASSUME MemInv, [Next]_vars  PROVE PoolPages \subseteq PoolPages'
<1>1. poolAt \in [Pools -> Pages]  BY DEF MemInv, TypeOK
<1>2. poolAt' = poolAt \/ \E p \in Pools, page \in Pages :
                             poolAt[p] = 0 /\ poolAt' = [poolAt EXCEPT ![p] = page]
  BY DEF Next, vars, Create, Kill, LoadElf, LoadSegment, LoadBadSegment, LoadRegion, Kmalloc,
         Kfree
<1>3. ASSUME NEW p \in Pools  PROVE PagesOfPool(p) \subseteq PagesOfPool(p)'
  <2>1. poolAt[p] = 0 \/ poolAt'[p] = poolAt[p]  BY <1>1, <1>2
  <2>2. QED  BY <2>1 DEF PagesOfPool
<1>4. QED  BY <1>3, PagesOfPools, PagesOfPoolsNext

(***************************************************************************)
(* What grant_in opens.                                                    *)
(***************************************************************************)
LEMMA QuotientWithRest ==
    ASSUME NEW u \in Nat \ {0}, NEW q \in Nat, NEW r \in 0 .. u - 1
    PROVE  ((q * u) + r) \div u = q
OBVIOUS

(* A region is granted whole, and nothing beside it.                       *)
LEMMA RegionGranted ==
    ASSUME NEW page \in Nat  PROVE RegionGrant(page) = Run(page, REGION_PAGES)
<1>1. PAGE_UNITS \in Nat \ {0} /\ REGION_PAGES \in Nat  BY MemorySizes
<1>2. PICK u \in Nat \ {0} : u = PAGE_UNITS  BY <1>1
<1>3. PICK n \in Nat : n = REGION_PAGES  BY <1>1
<1>4. (page * u) \div u = page  BY QuotientOfProduct
<1>5. (page * u) + (n * u) + u - 1 = ((page + n) * u) + (u - 1)  OBVIOUS
<1>6. (((page + n) * u) + (u - 1)) \div u = page + n
  <2>1. page + n \in Nat /\ u - 1 \in 0 .. u - 1  OBVIOUS
  <2>2. QED  BY <2>1, QuotientWithRest
<1>7. ((page * u) + (n * u) + u - 1) \div u = page + n  BY <1>5, <1>6
<1>8. GrantedPages(page * u, n * u) = page .. (page + n) - 1
  BY <1>2, <1>4, <1>7 DEF GrantedPages
<1>9. QED  BY <1>2, <1>3, <1>8 DEF RegionGrant, Run

(* What lies inside n pages from page a on is granted inside them.         *)
LEMMA GrantInside ==
    ASSUME NEW a \in Nat, NEW n \in Nat, NEW u \in Nat \ {0}, NEW x \in Nat, NEW m \in Nat,
           u = PAGE_UNITS, a * u <= x, x + m <= a * u + n * u
    PROVE  GrantedPages(x, m) \subseteq Run(a, n)
<1>1. x \div u \in Nat /\ a <= x \div u  BY Quotient, QuotientBounds
<1>2. PICK y \in Nat : y = x + m + u - 1
  <2>1. x + m + u - 1 \in Nat  OBVIOUS
  <2>2. QED  BY <2>1
<1>3. (a + n + 1) * u = a * u + n * u + u /\ a * u \in Nat /\ n * u \in Nat  OBVIOUS
<1>4. y < (a + n + 1) * u  BY <1>2, <1>3
<1>5. y \div u \in Nat /\ y \div u < a + n + 1
  <2>1. a + n + 1 \in Nat  OBVIOUS
  <2>2. QED  BY <1>4, <2>1, Quotient, QuotientBounds
<1>6. GrantedPages(x, m) = (x \div u) .. (y \div u) - 1  BY <1>2 DEF GrantedPages
<1>7. QED  BY <1>1, <1>5, <1>6 DEF Run

(* A new object lies in the pages of its pool.                             *)
LEMMA ObjectInPool ==
    ASSUME MemInv, NEW p \in Pools, Kmalloc(p), NEW o \in objects' \ objects,
           NEW size \in Nat, SlotUnits[p] >= size
    PROVE  GrantedPages(o.addr, size) \subseteq PoolPages'
<1>1. TypeOK /\ NoPageTwice /\ poolAt \in [Pools -> Pages] /\ PAGE_UNITS \in Nat \ {0}
      /\ POOL_ARENA_PAGES \in Nat
  BY MemorySizes DEF MemInv, TypeOK
<1>2. PICK i \in 0 .. NumSlots(p) - 1, page \in Pages :
         /\ poolAt'[p] = page /\ page # 0
         /\ o = SlotAt(p, page * PAGE_UNITS, i)
  <2>1. ASSUME poolAt[p] # 0, poolAt' = poolAt, NEW i \in 0 .. NumSlots(p) - 1,
               TakeSlot(p, i, Base(p))
        PROVE  poolAt'[p] \in Pages /\ poolAt'[p] # 0 /\ o = SlotAt(p, poolAt'[p] * PAGE_UNITS, i)
    <3>1. objects' = objects \cup {SlotAt(p, Base(p), i)}  BY <2>1 DEF TakeSlot, SlotAt
    <3>2. QED  BY <1>1, <2>1, <3>1 DEF Base
  <2>2. ASSUME NEW page \in Pages, PageAlloc(POOL_ARENA_PAGES, page),
               poolAt' = [poolAt EXCEPT ![p] = page], TakeSlot(p, 0, page * PAGE_UNITS)
        PROVE  /\ poolAt'[p] = page /\ page # 0 /\ 0 \in 0 .. NumSlots(p) - 1
               /\ o = SlotAt(p, page * PAGE_UNITS, 0)
    <3>1. /\ objects' = objects \cup {SlotAt(p, page * PAGE_UNITS, 0)}
          /\ 0 \in 0 .. NumSlots(p) - 1
      BY <2>2 DEF TakeSlot, SlotAt, IsFirst
    <3>2. page # 0  BY <1>1, <2>2, GrantIsNotNull
    <3>3. QED  BY <1>1, <2>2, <3>1, <3>2
  <2>3. QED  BY <2>1, <2>2 DEF Kmalloc
<1>3. /\ i * SlotUnits[p] \in Nat /\ i * SlotUnits[p] + SlotUnits[p] <= PoolUnits
      /\ SlotUnits[p] \in Nat \ {0}
  BY SlotFits, PoolSizes
<1>4. o.addr = page * PAGE_UNITS + i * SlotUnits[p]  BY <1>2 DEF SlotAt
<1>5. page \in Nat /\ page * PAGE_UNITS \in Nat  BY <1>1 DEF Pages
<1>6. PoolUnits = POOL_ARENA_PAGES * PAGE_UNITS /\ PoolUnits \in Nat
  BY PoolSizes DEF PoolUnits
<1>7. /\ o.addr \in Nat /\ page * PAGE_UNITS <= o.addr
      /\ o.addr + size <= page * PAGE_UNITS + PoolUnits
  BY <1>3, <1>4, <1>5, <1>6
<1>8. GrantedPages(o.addr, size) \subseteq Run(page, POOL_ARENA_PAGES)
  BY <1>1, <1>5, <1>6, <1>7, GrantInside
<1>9. PagesOfPool(p)' = Run(page, POOL_ARENA_PAGES)  BY <1>2 DEF PagesOfPool
<1>10. QED  BY <1>8, <1>9, PagesOfPoolsNext

(***************************************************************************)
(* Every step keeps the invariant.                                         *)
(***************************************************************************)
(* Steps that leave the directories and their owners alone.                *)
LEMMA NothingMoved ==
    ASSUME SpaceInv, UNCHANGED <<in_use, frame, user, space, loading>>, UNCHANGED load,
           taken \subseteq taken', taken' \subseteq Slots,
           elf' \in [Slots -> Programs \cup {<<>>}],
           \A s \in Slots : space[s] # -1 => /\ image'[s] = image[s] /\ elf'[s] = elf[s]
                                            /\ PagesOfRegion(s)' = PagesOfRegion(s),
           Loading => elf'[load.slot] = elf[load.slot],
           PoolPages \subseteq PoolPages'
    PROVE  SpaceInv'
<1> USE DEF SpaceInv
<1>1. PagingTypeOK'  BY DEF PagingTypeOK
<1>2. Loading' = Loading  BY DEF Loading
<1>3. SpacesOwned'  BY <1>2 DEF SpacesOwned
<1>4. ASSUME NEW s \in Slots, space[s]' # -1
      PROVE  HasItsOwn(s)'
  <2>1. HasItsOwn(s)
    BY <1>4 DEF Contents
  <2>2. image'[s] = image[s] /\ elf'[s] = elf[s] /\ PagesOfRegion(s)' = PagesOfRegion(s)
    BY <1>4
  <2>3. QED  BY <2>1, <2>2 DEF HasItsOwn, Sees, Shows, StandsClear
<1>5. ASSUME Loading'  PROVE HasSoFar'
  <2>1. HasSoFar  BY <1>2, <1>5 DEF Contents
  <2>2. Sees(loading, {}, load.got)'  BY <2>1 DEF HasSoFar, Sees
  <2>3. Shows(loading, load.got, elf[load.slot], load.todo)'
    BY <1>2, <1>5, <2>1 DEF HasSoFar, Shows, StandsClear
  <2>4. QED  BY <2>1, <2>2, <2>3 DEF HasSoFar
<1>6. QED  BY <1>1, <1>3, <1>4, <1>5 DEF Contents

LEMMA HandlesAreNot == \A h \in Handles : h # -1
BY EnoughSpaces, MemorySizes DEF Handles

LEMMA OwnAreAddresses == OwnAddresses \subseteq Addresses
BY ArenaSize, TablesCoverArena DEF OwnAddresses, Addresses, Pages

(* A new directory: the identity map, with some pages open.                *)
LEMMA NewDirectory ==
    ASSUME PagingTypeOK, NEW h \in Handles, NEW pages \in SUBSET Pages, Opened(pages, h)
    PROVE  /\ user' \in [Handles -> SUBSET Addresses]
           /\ frame' \in [Handles -> [Addresses -> Addresses]]
           /\ user'[h] = pages \cup {KERNEL_CODE}
           /\ \A v \in OwnAddresses : frame'[h][v] = v
           /\ \A g \in Handles \ {h} : user'[g] = user[g] /\ frame'[g] = frame[g]
<1>1. /\ user \in [Handles -> SUBSET Addresses]
      /\ frame \in [Handles -> [Addresses -> Addresses]]
      /\ Identity \in [Addresses -> Addresses]
  BY DEF PagingTypeOK, Identity
<1>2. pages \cup {KERNEL_CODE} \subseteq Addresses  BY OwnAreAddresses DEF OwnAddresses
<1>3. /\ user' = [user EXCEPT ![h] = pages \cup {KERNEL_CODE}]
      /\ frame' = [frame EXCEPT ![h] = Identity]
  BY DEF Opened
<1>4. frame'[h] = Identity  BY <1>1, <1>3
<1>5. \A v \in OwnAddresses : frame'[h][v] = v  BY <1>4, OwnAreAddresses DEF Identity
<1>6. QED  BY <1>1, <1>2, <1>3, <1>5

(* What the pages of a segment change in a directory: nothing of what has  *)
(* to stand at its own address.                                            *)
LEMMA MappedSegment ==
    ASSUME PagingTypeOK, NEW h \in Handles, NEW segment \in Segments, NEW page \in Pages,
           segment.at >= ARENA_PAGES, Run(page, segment.pages) \subseteq Pages,
           MapPages(h, segment, page)
    PROVE  /\ user' \in [Handles -> SUBSET Addresses]
           /\ frame' \in [Handles -> [Addresses -> Addresses]]
           /\ \A g \in Handles \ {h} : user'[g] = user[g] /\ frame'[g] = frame[g]
           /\ user'[h] = user[h] \cup Mappable(segment)
           /\ \A v \in Addresses \ Mappable(segment) : frame'[h][v] = frame[h][v]
           /\ \A v \in Mappable(segment) : /\ frame'[h][v] = page + (v - segment.at)
                                            /\ frame'[h][v] \in Run(page, segment.pages)
           /\ OwnAddresses \subseteq Addresses \ Mappable(segment)
<1>1. /\ user \in [Handles -> SUBSET Addresses]
      /\ frame \in [Handles -> [Addresses -> Addresses]]
  BY DEF PagingTypeOK
<1>2. segment.at \in Nat /\ segment.pages \in Nat  BY DEF Segments
<1>3. Mappable(segment) \subseteq Addresses
  BY <1>2, TablesCoverArena DEF Mappable, At, Run, Addresses
<1>4. OwnAddresses \subseteq Addresses \ Mappable(segment)
  BY <1>2, OwnAreAddresses, ArenaSize DEF Mappable, At, Run, OwnAddresses, Pages, KERNEL_CODE
<1>5. \A v \in Mappable(segment) : page + (v - segment.at) \in Run(page, segment.pages)
  BY <1>2 DEF Mappable, At, Run, Pages
<1>6. Run(page, segment.pages) \subseteq Addresses
  BY OwnAreAddresses DEF OwnAddresses
<1> DEFINE new == [v \in Addresses |-> IF v \in Mappable(segment)
                                       THEN page + (v - segment.at) ELSE frame[h][v]]
<1>7. frame' = [frame EXCEPT ![h] = new] /\ user' = [user EXCEPT ![h] = @ \cup Mappable(segment)]
  BY DEF MapPages
<1>8. frame[h] \in [Addresses -> Addresses]  BY <1>1
<1>9. new \in [Addresses -> Addresses]
  <2>1. ASSUME NEW v \in Addresses
        PROVE  (IF v \in Mappable(segment) THEN page + (v - segment.at) ELSE frame[h][v])
                  \in Addresses
    BY <1>5, <1>6, <1>8
  <2>2. QED  BY <2>1
<1>10. /\ \A v \in Addresses \ Mappable(segment) : new[v] = frame[h][v]
       /\ \A v \in Mappable(segment) : new[v] = page + (v - segment.at)
  BY <1>3
<1> HIDE DEF new
<1>11. frame'[h] = new /\ frame' \in [Handles -> [Addresses -> Addresses]]
       /\ \A g \in Handles \ {h} : frame'[g] = frame[g]
  BY <1>1, <1>7, <1>9
<1>12. /\ user' \in [Handles -> SUBSET Addresses] /\ user'[h] = user[h] \cup Mappable(segment)
       /\ \A g \in Handles \ {h} : user'[g] = user[g]
  BY <1>1, <1>3, <1>7
<1>13. QED  BY <1>4, <1>5, <1>10, <1>11, <1>12

LEMMA TailOf ==
    ASSUME NEW S, NEW t \in Seq(S), t # <<>>
    PROVE  /\ Head(t) = t[1] /\ 1 \in DOMAIN t
           /\ \A i \in DOMAIN Tail(t) : /\ i \in Int /\ i + 1 \in DOMAIN t /\ i + 1 # 1
                                        /\ Tail(t)[i] = t[i + 1]
OBVIOUS

InArena == PoolPages \subseteq Pages /\ \A s \in Slots : PagesOfRegion(s) \subseteq Pages

LEMMA HeldInArena == MemInv => InArena
<1> SUFFICES ASSUME MemInv  PROVE InArena  OBVIOUS
<1>1. \A h \in Holders : Holds(h) \subseteq Pages  BY DEF MemInv, NoPageTwice, TypeOK
<1>2. PoolPages \subseteq Pages  BY <1>1, HolderNames DEF PoolPages
<1>3. ASSUME NEW s \in Slots  PROVE PagesOfRegion(s) \subseteq Pages
  <2>1. Holds(<<"region", s>>) \subseteq Pages  BY <1>1, HolderNames
  <2>2. QED  BY <2>1, HoldsNow DEF HoldsByKind
<1>4. QED  BY <1>2, <1>3 DEF InArena

LEMMA HeldInArenaNext == MemInv' => InArena'
BY HeldInArena, PTL

(* What a slot sees that a step does not touch.                            *)
LEMMA SeesAsBefore ==
    ASSUME SpaceInv, NEW s \in Slots, space[s] # -1, space'[s] = space[s],
           user'[space[s]] = user[space[s]], frame'[space[s]] = frame[space[s]],
           image'[s] = image[s], elf'[s] = elf[s], PagesOfRegion(s)' = PagesOfRegion(s),
           PoolPages \subseteq PoolPages'
    PROVE  HasItsOwn(s)'
<1>1. HasItsOwn(s)  BY DEF SpaceInv, Contents
<1>2. Sees(space[s], PagesOfRegion(s), image[s])'  BY <1>1 DEF HasItsOwn, Sees
<1>3. Shows(space[s], image[s], elf[s], <<>>)'  BY <1>1 DEF HasItsOwn, Shows, StandsClear
<1>4. QED  BY <1>2, <1>3 DEF HasItsOwn

(* What Create does besides finding pages.                                 *)
RegionGiven(s) ==
    \/ taken' = taken /\ PagesOfRegion(s)' = {}
    \/ /\ taken' = taken \cup {s} /\ regionAt'[s] \in Pages
       /\ PagesOfRegion(s)' = Run(regionAt'[s], REGION_PAGES)

LEMMA CreateGives ==
    ASSUME MemInv, NEW s \in Slots, Create(s)
    PROVE  /\ s \notin taken /\ ~Loading /\ UNCHANGED <<image, load>> /\ image[s] = {}
           /\ \A t \in Slots \ {s} : PagesOfRegion(t)' = PagesOfRegion(t)
           /\ RegionGiven(s)
<1>1. s \notin taken /\ ~Loading /\ UNCHANGED <<image, load>> /\ image[s] = {}
  BY DEF Create, FirstFreeSlot, IsFirst, MemInv, SlotsOwnTheirRegions
<1>2. regionAt \in [Slots -> Pages] /\ TypeOK /\ NoPageTwice  BY DEF MemInv, TypeOK
<1>3. CASE regionAt' = [regionAt EXCEPT ![s] = 0] /\ taken' = taken
  <2>1. regionAt'[s] = 0  BY <1>2, <1>3
  <2>2. PagesOfRegion(s)' = {}  BY <2>1 DEF PagesOfRegion
  <2>3. \A t \in Slots \ {s} : PagesOfRegion(t)' = PagesOfRegion(t)
    BY <1>2, <1>3 DEF PagesOfRegion
  <2>4. QED  BY <1>1, <1>3, <2>2, <2>3 DEF RegionGiven
<1>4. ASSUME NEW page \in Pages, PageAlloc(REGION_PAGES, page),
             regionAt' = [regionAt EXCEPT ![s] = page], taken' = taken \cup {s}
      PROVE  /\ \A t \in Slots \ {s} : PagesOfRegion(t)' = PagesOfRegion(t)
             /\ RegionGiven(s)
  <2>1. page # 0  BY <1>2, <1>4, MemorySizes, GrantIsNotNull
  <2>2. regionAt'[s] = page  BY <1>2, <1>4
  <2>3. PagesOfRegion(s)' = Run(page, REGION_PAGES)  BY <2>1, <2>2 DEF PagesOfRegion
  <2>4. \A t \in Slots \ {s} : PagesOfRegion(t)' = PagesOfRegion(t)
    BY <1>2, <1>4 DEF PagesOfRegion
  <2>5. QED  BY <1>4, <2>2, <2>3, <2>4 DEF RegionGiven
<1>5. QED  BY <1>1, <1>3, <1>4 DEF Create

LEMMA KernelThreadSpaces ==
    ASSUME MemInv, MemInv', SpaceInv, PoolPages \subseteq PoolPages',
           NEW s \in Slots, CreateKernelThread(s)
    PROVE  SpaceInv'
<1>1. /\ s \notin taken /\ UNCHANGED <<image, load>>
      /\ \A t \in Slots \ {s} : PagesOfRegion(t)' = PagesOfRegion(t)
      /\ taken' \in {taken, taken \cup {s}}
  BY CreateGives DEF CreateKernelThread, RegionGiven
<1>2. space[s] = -1 /\ space \in [Slots -> Handles \cup {-1}]
  BY <1>1 DEF SpaceInv, SpacesOwned, PagingTypeOK
<1>3. space' = space  BY <1>2 DEF CreateKernelThread
<1>4. UNCHANGED <<in_use, frame, user, loading, elf>>  BY DEF CreateKernelThread
<1>5. taken \subseteq taken' /\ taken' \subseteq Slots /\ elf' \in [Slots -> Programs \cup {<<>>}]
  BY <1>1, <1>4 DEF MemInv, TypeOK, SpaceInv, PagingTypeOK
<1>6. \A t \in Slots : space[t] # -1 =>
         image'[t] = image[t] /\ elf'[t] = elf[t] /\ PagesOfRegion(t)' = PagesOfRegion(t)
  BY <1>1, <1>2, <1>4
<1>7. QED  BY <1>1, <1>3, <1>4, <1>5, <1>6, NothingMoved

(* A directory that was free, made for the region of s.                    *)
LEMMA Ring3Spaces ==
    ASSUME MemInv, MemInv', SpaceInv, PoolPages \subseteq PoolPages',
           NEW s \in Slots, CreateRing3(s)
    PROVE  SpaceInv'
<1>1. /\ s \notin taken /\ ~Loading /\ UNCHANGED <<image, load>> /\ image[s] = {}
      /\ \A t \in Slots \ {s} : PagesOfRegion(t)' = PagesOfRegion(t)
      /\ RegionGiven(s)
  BY CreateGives DEF CreateRing3
<1>2. /\ space[s] = -1 /\ space \in [Slots -> Handles \cup {-1}] /\ in_use \subseteq Handles
      /\ user \in [Handles -> SUBSET Addresses]
      /\ frame \in [Handles -> [Addresses -> Addresses]] /\ loading = -1 /\ loading' = loading
      /\ SpacesOwned
  BY <1>1 DEF SpaceInv, SpacesOwned, PagingTypeOK, CreateRing3
<1>e. /\ elf' \in [Slots -> Programs \cup {<<>>}] /\ elf'[s] = <<>>
      /\ \A t \in Slots \ {s} : elf'[t] = elf[t]
  BY DEF CreateRing3, SpaceInv, PagingTypeOK
<1>3. CASE s \notin taken' /\ UNCHANGED <<in_use, frame, user, space>>
  <2>1. taken' = taken /\ taken \subseteq Slots  BY <1>1, <1>3 DEF RegionGiven, MemInv, TypeOK
  <2>2. \A t \in Slots : space[t] # -1 =>
           image'[t] = image[t] /\ elf'[t] = elf[t] /\ PagesOfRegion(t)' = PagesOfRegion(t)
    BY <1>1, <1>2, <1>e
  <2>3. QED  BY <1>1, <1>2, <1>e, <1>3, <2>1, <2>2, NothingMoved
<1>4. ASSUME s \in taken', NEW h \in Handles, FirstFreeHandle(h), in_use' = in_use \cup {h},
             Opened(RegionGrant(regionAt'[s]), h), space' = [space EXCEPT ![s] = h]
      PROVE  SpaceInv'
  <2>1. taken' = taken \cup {s} /\ PagesOfRegion(s)' = RegionGrant(regionAt'[s])
    <3>1. taken' = taken \cup {s} /\ regionAt'[s] \in Nat
          /\ PagesOfRegion(s)' = Run(regionAt'[s], REGION_PAGES)
      BY <1>1, <1>4 DEF Pages, RegionGiven
    <3>2. QED  BY <3>1, RegionGranted
  <2> DEFINE R == PagesOfRegion(s)'
  <2>2a. h \notin in_use /\ h # -1 /\ R \subseteq Pages /\ Opened(R, h)
    BY <1>4, <2>1, HandlesAreNot, HeldInArenaNext DEF InArena, FirstFreeHandle, IsFirst
  <2> HIDE DEF R
  <2>2. /\ h \notin in_use /\ h # -1
        /\ user' \in [Handles -> SUBSET Addresses]
        /\ frame' \in [Handles -> [Addresses -> Addresses]]
        /\ user'[h] = R \cup {KERNEL_CODE} /\ \A v \in OwnAddresses : frame'[h][v] = v
        /\ \A g \in Handles \ {h} : user'[g] = user[g] /\ frame'[g] = frame[g]
    BY <2>2a, NewDirectory DEF SpaceInv
  <2>3. PagingTypeOK'  BY <1>2, <1>4, <1>e, <2>2 DEF PagingTypeOK
  <2>4. ~Loading'  BY <1>1 DEF Loading
  <2>5. space'[s] = h /\ \A t \in Slots \ {s} : space'[t] = space[t]  BY <1>2, <1>4
  <2>6. SpacesOwned'
    <3>1. Loading' <=> loading' # -1  BY <1>2, <2>4
    <3>2. \A t \in Slots \ taken' : space'[t] = -1  BY <1>2, <2>1, <2>5 DEF SpacesOwned
    <3>3. \A t \in Slots : space'[t] # -1 => space'[t] \in in_use' /\ space'[t] # loading'
      BY <1>2, <1>4, <2>2, <2>5 DEF SpacesOwned
    <3>4. \A t, r \in Slots : space'[t] # -1 /\ space'[t] = space'[r] => t = r
      BY <1>2, <2>2, <2>5 DEF SpacesOwned
    <3>5. \A g \in in_use' : g = loading' \/ \E t \in Slots : space'[t] = g
      BY <1>2, <1>4, <2>2, <2>5 DEF SpacesOwned
    <3>6. QED  BY <2>4, <3>1, <3>2, <3>3, <3>4, <3>5 DEF SpacesOwned
  <2>7. ASSUME NEW t \in Slots, space[t]' # -1
        PROVE  HasItsOwn(t)'
    <3>1. CASE t = s
      <4>1. space'[s] = h /\ image'[s] = {} /\ elf'[s] = <<>>  BY <1>1, <1>e, <2>5
      <4>2. Sees(space[s], PagesOfRegion(s), image[s])'  BY <2>2, <4>1 DEF Sees, R
      <4>3. Shows(space[s], image[s], elf[s], <<>>)'  BY <4>1 DEF Shows
      <4>4. QED  BY <3>1, <4>2, <4>3 DEF HasItsOwn
    <3>2. CASE t # s
      <4>1. space[t] # -1 /\ space'[t] = space[t] /\ space[t] # h
        BY <1>2, <2>2, <2>5, <2>7, <3>2 DEF SpacesOwned
      <4>2. user'[space[t]] = user[space[t]] /\ frame'[space[t]] = frame[space[t]]
        BY <1>2, <2>2, <4>1
      <4>3. image'[t] = image[t] /\ elf'[t] = elf[t] /\ PagesOfRegion(t)' = PagesOfRegion(t)
        BY <1>1, <1>e, <3>2
      <4>4. QED  BY <4>1, <4>2, <4>3, SeesAsBefore
    <3>3. QED  BY <3>1, <3>2
  <2>8. Contents'  BY <2>4, <2>7 DEF Contents
  <2>9. QED  BY <2>3, <2>6, <2>8 DEF SpaceInv
<1>5. QED  BY <1>3, <1>4 DEF CreateRing3

(* A directory that was free, empty, for the load that begins.             *)
LEMMA StartLoadSpaces ==
    ASSUME MemInv, MemInv', SpaceInv, PoolPages \subseteq PoolPages',
           NEW s \in Slots, NEW program \in Programs, StartLoad(s, program)
    PROVE  SpaceInv'
<1>1. /\ ~Loading /\ UNCHANGED <<taken, regionAt, image, poolAt, space>>
      /\ load' = [slot |-> s, todo |-> program, got |-> {}]
  BY DEF StartLoad, LoadElf
<1>2. /\ space \in [Slots -> Handles \cup {-1}] /\ in_use \subseteq Handles
      /\ user \in [Handles -> SUBSET Addresses]
      /\ frame \in [Handles -> [Addresses -> Addresses]] /\ loading = -1 /\ SpacesOwned
  BY <1>1 DEF SpaceInv, SpacesOwned, PagingTypeOK
<1>3. PICK h \in Handles :
         /\ h \notin in_use /\ in_use' = in_use \cup {h} /\ loading' = h
         /\ Opened({}, h)
  BY DEF StartLoad, FirstFreeHandle, IsFirst
<1>4. h # -1  BY HandlesAreNot
<1>d. /\ user' \in [Handles -> SUBSET Addresses]
      /\ frame' \in [Handles -> [Addresses -> Addresses]]
      /\ user'[h] = {KERNEL_CODE} /\ \A v \in OwnAddresses : frame'[h][v] = v
      /\ \A g \in Handles \ {h} : user'[g] = user[g] /\ frame'[g] = frame[g]
  BY <1>3, NewDirectory DEF SpaceInv
<1>e. /\ elf' \in [Slots -> Programs \cup {<<>>}] /\ elf'[s] = program
      /\ \A t \in Slots \ {s} : elf'[t] = elf[t]
  BY DEF StartLoad, SpaceInv, PagingTypeOK
<1>5. Loading'
  <2>1. load'.slot = s /\ s # -1  BY <1>1, MemorySizes DEF Slots
  <2>2. QED  BY <2>1 DEF Loading, NoLoad
<1>6. PagingTypeOK'  BY <1>1, <1>2, <1>3, <1>d, <1>e DEF PagingTypeOK
<1>7. SpacesOwned'
  <2>1. \A t \in Slots \ taken' : space'[t] = -1  BY <1>1, <1>2 DEF SpacesOwned
  <2>2. \A t \in Slots : space'[t] # -1 => space'[t] \in in_use' /\ space'[t] # loading'
    BY <1>1, <1>2, <1>3 DEF SpacesOwned
  <2>3. \A t, r \in Slots : space'[t] # -1 /\ space'[t] = space'[r] => t = r
    BY <1>1, <1>2 DEF SpacesOwned
  <2>4. \A g \in in_use' : g = loading' \/ \E t \in Slots : space'[t] = g
    <3>1. \A g \in in_use : \E t \in Slots : space[t] = g
      BY <1>2, HandlesAreNot DEF SpacesOwned
    <3>2. QED  BY <1>1, <1>3, <3>1
  <2>5. QED  BY <1>3, <1>4, <1>5, <2>1, <2>2, <2>3, <2>4 DEF SpacesOwned
<1>8. \A t \in Slots : space[t]' # -1 => HasItsOwn(t)'
  <2>1. SUFFICES ASSUME NEW t \in Slots, space[t]' # -1
                 PROVE  HasItsOwn(t)'
    OBVIOUS
  <2>2. space[t] # -1 /\ space'[t] = space[t] /\ space[t] # h /\ space[t] \in Handles
    BY <1>1, <1>2, <1>3, <2>1 DEF SpacesOwned
  <2>3. user'[space[t]] = user[space[t]] /\ frame'[space[t]] = frame[space[t]]
    BY <1>d, <2>2
  <2>4. t # s  BY <1>1, <1>2, <2>2 DEF SpacesOwned, StartLoad, LoadElf, FirstFreeSlot, IsFirst
  <2>5. /\ image'[t] = image[t] /\ elf'[t] = elf[t]
        /\ PagesOfRegion(t)' = PagesOfRegion(t)
    BY <1>1, <1>e, <2>4 DEF PagesOfRegion
  <2>6. QED  BY <2>2, <2>3, <2>5, SeesAsBefore
<1>9. HasSoFar'
  <2>1. load'.slot = s /\ load'.todo = program /\ load'.got = {}  BY <1>1
  <2>2. Sees(loading, {}, load.got)'  BY <1>3, <1>d, <2>1 DEF Sees
  <2>3. Shows(loading, load.got, elf[load.slot], load.todo)'  BY <1>e, <2>1 DEF Shows
  <2>4. QED  BY <2>1, <2>2, <2>3, LinkedAboveArena DEF HasSoFar
<1>10. QED  BY <1>6, <1>7, <1>8, <1>9 DEF SpaceInv, Contents

(* A load that fails gives its directory back.                             *)
LEMMA FailedLoadSpaces ==
    ASSUME SpaceInv, PoolPages \subseteq PoolPages', Loading, load' = NoLoad, FailedLoad,
           load.slot \in Slots \ taken,
           UNCHANGED <<taken, image>>,
           \A t \in Slots : space[t] # -1 => PagesOfRegion(t)' = PagesOfRegion(t)
    PROVE  SpaceInv'
<1>1. /\ in_use' = in_use \ {loading} /\ loading' = -1 /\ UNCHANGED <<user, frame, space>>
      /\ SpacesOwned /\ space[load.slot] = -1
  BY DEF FailedLoad, SpaceInv, SpacesOwned
<1>e. /\ elf' \in [Slots -> Programs \cup {<<>>}]
      /\ \A t \in Slots \ {load.slot} : elf'[t] = elf[t]
  BY DEF FailedLoad, SpaceInv, PagingTypeOK
<1>2. ~Loading'  BY DEF Loading
<1>3. PagingTypeOK'  BY <1>1, <1>e DEF SpaceInv, PagingTypeOK
<1>4. SpacesOwned'  BY <1>1, <1>2 DEF SpacesOwned
<1>5. ASSUME NEW t \in Slots, space[t]' # -1  PROVE HasItsOwn(t)'
  <2>1. space[t] # -1 /\ t # load.slot  BY <1>1, <1>5
  <2>2. QED  BY <1>1, <1>e, <2>1, SeesAsBefore
<1>6. QED  BY <1>2, <1>3, <1>4, <1>5 DEF SpaceInv, Contents

(* A segment that got its pages: they show in the directory of the load,   *)
(* and no segment still to come will take their place.                     *)
LEMMA SegmentShown ==
    ASSUME MemInv, SpaceInv, PoolPages \subseteq PoolPages', LoadSegment, NEW h, h = loading,
           NEW page \in Pages, NEW segment, segment = Head(load.todo),
           PageAlloc(segment.pages, page), MapPages(h, segment, page),
           load' = [load EXCEPT !.todo = Tail(@), !.got = @ \cup Run(page, segment.pages)],
           UNCHANGED <<loading, elf>>
    PROVE  /\ HasSoFar' /\ h \in Handles
           /\ user' \in [Handles -> SUBSET Addresses]
           /\ frame' \in [Handles -> [Addresses -> Addresses]]
           /\ \A g \in Handles \ {h} : user'[g] = user[g] /\ frame'[g] = frame[g]
<1>1. Loading /\ load.todo # <<>> /\ TypeOK  BY DEF LoadSegment, MemInv
<1>2. load \in [slot : Slots, todo : Seq(Segments), got : SUBSET Pages] /\ segment \in Segments
  BY <1>1, LoadTyped
<1>n. PICK todo, rest, n : todo = load.todo /\ rest = Tail(todo) /\ n = segment.pages
  OBVIOUS
<1>3. todo \in Seq(Segments) /\ n \in Nat /\ segment.at \in Nat
  BY <1>2, <1>n DEF Segments
<1>4. /\ load'.todo = rest /\ load'.got = load.got \cup Run(page, n)
      /\ load'.slot = load.slot
  BY <1>2, <1>n
<1>5. /\ segment = todo[1] /\ 1 \in DOMAIN todo
      /\ \A i \in DOMAIN rest : /\ i \in Int /\ i + 1 \in DOMAIN todo /\ i + 1 # 1
                                /\ rest[i] = todo[i + 1]
  BY <1>1, <1>2, <1>3, <1>n, TailOf
<1>6. /\ Sees(h, {}, load.got) /\ Shows(h, load.got, elf[load.slot], todo)
      /\ \A i \in DOMAIN todo : todo[i].at >= ARENA_PAGES
      /\ PagingTypeOK /\ h \in Handles
  BY <1>1, <1>n DEF SpaceInv, SpacesOwned, PagingTypeOK, Contents, HasSoFar
<1>7. Run(page, n) \subseteq Pages  BY <1>1, <1>3, <1>n, GrantedRun
<1>8. segment.at >= ARENA_PAGES  BY <1>5, <1>6
<1>9. /\ user' \in [Handles -> SUBSET Addresses]
      /\ frame' \in [Handles -> [Addresses -> Addresses]]
      /\ \A g \in Handles \ {h} : user'[g] = user[g] /\ frame'[g] = frame[g]
      /\ user'[h] = user[h] \cup Mappable(segment)
      /\ \A v \in Addresses \ Mappable(segment) : frame'[h][v] = frame[h][v]
      /\ \A v \in Mappable(segment) : /\ frame'[h][v] = page + (v - segment.at)
                                       /\ frame'[h][v] \in Run(page, n)
      /\ OwnAddresses \subseteq Addresses \ Mappable(segment)
  BY <1>2, <1>6, <1>7, <1>8, <1>n, MappedSegment
<1>10. user[h] \subseteq Addresses  BY <1>6 DEF PagingTypeOK
<1>11. Sees(loading, {}, load.got)'
  <2>1. \A v \in OwnAddresses : frame'[h][v] = v  BY <1>6, <1>9 DEF Sees
  <2>2. ASSUME NEW v \in user'[h]
        PROVE  v \in {} \cup PoolPages' \cup {KERNEL_CODE} \/ frame'[h][v] \in load'.got
    <3>1. CASE v \in Mappable(segment)  BY <1>4, <1>9, <3>1
    <3>2. CASE v \notin Mappable(segment)
      <4>1. v \in user[h] /\ frame'[h][v] = frame[h][v]  BY <1>9, <1>10, <3>2, <2>2
      <4>2. QED  BY <1>4, <1>6, <4>1 DEF Sees
    <3>3. QED  BY <3>1, <3>2
  <2>3. QED  BY <2>1, <2>2 DEF Sees
<1>12. ASSUME Linked(elf[load.slot])
       PROVE  Linked(rest) /\ \A f \in load'.got : StandsClear(h, f, rest)'
  <2>1. Linked(todo) /\ \A f \in load.got : StandsClear(h, f, todo)  BY <1>6, <1>12 DEF Shows
  <2>2. Linked(rest)
    <3>1. ASSUME NEW i \in DOMAIN rest
          PROVE  /\ rest[i].at + rest[i].pages <= TABLE_PAGES
                 /\ \A j \in DOMAIN rest \ {i} : At(rest[i]) \cap At(rest[j]) = {}
      <4>1. i + 1 \in DOMAIN todo /\ rest[i] = todo[i + 1] /\ i \in Int  BY <1>5
      <4>2. ASSUME NEW j \in DOMAIN rest \ {i}
            PROVE  At(rest[i]) \cap At(rest[j]) = {}
        <5>1. j + 1 \in DOMAIN todo \ {i + 1} /\ rest[j] = todo[j + 1]  BY <1>5, <4>1
        <5>2. QED  BY <2>1, <4>1, <5>1 DEF Linked
      <4>3. QED  BY <2>1, <4>1, <4>2 DEF Linked
    <3>2. QED  BY <3>1 DEF Linked
  <2>3. ASSUME NEW f \in load.got
        PROVE  StandsClear(h, f, rest)'
    <3>1. PICK v \in user[h] : frame[h][v] = f /\ \A i \in DOMAIN todo : v \notin At(todo[i])
      BY <2>1 DEF StandsClear
    <3>2. v \notin Mappable(segment)  BY <1>5, <3>1 DEF Mappable
    <3>3. v \in user'[h] /\ frame'[h][v] = f  BY <1>9, <1>10, <3>1, <3>2
    <3>4. \A i \in DOMAIN rest : v \notin At(rest[i])  BY <1>5, <3>1
    <3>5. QED  BY <3>3, <3>4 DEF StandsClear
  <2>4. ASSUME NEW f \in Run(page, n)
        PROVE  StandsClear(h, f, rest)'
    <3>1. page \in Int /\ f \in Int /\ page <= f /\ f <= page + n - 1
      BY <1>3 DEF Run, Pages
    <3>2. PICK v \in Int : v = segment.at + (f - page)  BY <1>3, <3>1
    <3>3. v \in At(segment)  BY <1>3, <1>n, <3>1, <3>2 DEF At, Run
    <3>4. segment.at + n <= TABLE_PAGES  BY <1>5, <1>n, <2>1 DEF Linked
    <3>5. v < TABLE_PAGES  BY <1>3, <3>1, <3>2, <3>4, TablesCoverArena
    <3>6. v \in Mappable(segment)  BY <3>3, <3>5 DEF Mappable
    <3>7. v \in user'[h] /\ frame'[h][v] = f
      <4>1. frame'[h][v] = page + (v - segment.at)  BY <1>9, <3>6
      <4>2. page + (v - segment.at) = f  BY <1>3, <3>1, <3>2
      <4>3. QED  BY <1>9, <3>6, <4>1, <4>2
    <3>8. ASSUME NEW i \in DOMAIN rest  PROVE v \notin At(rest[i])
      <4>1. i + 1 \in DOMAIN todo \ {1} /\ rest[i] = todo[i + 1]  BY <1>5
      <4>2. At(todo[1]) \cap At(todo[i + 1]) = {}  BY <1>5, <2>1, <4>1 DEF Linked
      <4>3. QED  BY <1>5, <3>3, <4>1, <4>2
    <3>9. QED  BY <3>7, <3>8 DEF StandsClear
  <2>5. QED  BY <1>4, <2>2, <2>3, <2>4
<1>13. Shows(loading, load.got, elf[load.slot], load.todo)'
  <2>1. loading' = h /\ elf'[load'.slot] = elf[load.slot] /\ load'.todo = rest  BY <1>4
  <2>2. ASSUME Linked(elf[load.slot]), NEW f \in load'.got
        PROVE  StandsClear(loading, f, load.todo)'
    <3>1. StandsClear(h, f, rest)'  BY <1>12, <2>2
    <3>2. QED  BY <2>1, <3>1 DEF StandsClear
  <2>3. QED  BY <1>12, <2>1, <2>2 DEF Shows
<1>14. \A i \in DOMAIN load'.todo : load'.todo[i].at >= ARENA_PAGES  BY <1>4, <1>5, <1>6
<1>15. QED  BY <1>6, <1>9, <1>11, <1>13, <1>14 DEF HasSoFar

LEMMA MapSegmentSpaces ==
    ASSUME MemInv, MemInv', SpaceInv, PoolPages \subseteq PoolPages', MapSegment \/ MapBadSegment
    PROVE  SpaceInv'
<1>1. Loading /\ UNCHANGED <<taken, regionAt, image, poolAt>>
  BY DEF MapSegment, MapBadSegment, LoadSegment, LoadBadSegment
<1>2. \A t \in Slots : PagesOfRegion(t)' = PagesOfRegion(t)  BY <1>1 DEF PagesOfRegion
<1>s. load.slot \in Slots \ taken
  BY <1>1, LoadTyped DEF MemInv, SlotsOwnTheirRegions
<1>3. CASE load' = NoLoad /\ FailedLoad  BY <1>1, <1>2, <1>s, <1>3, FailedLoadSpaces
<1>4. CASE /\ LoadSegment /\ load' # NoLoad
           /\ MapPages(loading, Head(load.todo), call'.page)
           /\ UNCHANGED <<in_use, space, loading, elf>>
  <2> DEFINE segment == Head(load.todo)
  <2>1. PICK page \in Pages :
           /\ PageAlloc(segment.pages, page)
           /\ load' = [load EXCEPT !.todo = Tail(@), !.got = @ \cup Run(page, segment.pages)]
    BY <1>4 DEF LoadSegment
  <2>2. call'.page = page  BY <2>1 DEF PageAlloc
  <2> HIDE DEF segment
  <2>3. /\ HasSoFar' /\ loading \in Handles
        /\ user' \in [Handles -> SUBSET Addresses]
        /\ frame' \in [Handles -> [Addresses -> Addresses]]
        /\ \A g \in Handles \ {loading} : user'[g] = user[g] /\ frame'[g] = frame[g]
    BY <1>4, <2>1, <2>2, SegmentShown DEF segment
  <2>4. Loading'  BY <1>4 DEF Loading
  <2>5. space \in [Slots -> Handles \cup {-1}] /\ SpacesOwned
    BY DEF SpaceInv, PagingTypeOK
  <2>7. PagingTypeOK'  BY <1>4, <2>3 DEF SpaceInv, PagingTypeOK
  <2>8. SpacesOwned'  BY <1>1, <1>4, <2>4, <2>5 DEF SpacesOwned
  <2>9. ASSUME NEW t \in Slots, space[t]' # -1
        PROVE  HasItsOwn(t)'
    <3>1. /\ space[t] # -1 /\ space'[t] = space[t] /\ space[t] # loading
          /\ space[t] \in Handles
      BY <1>4, <2>5, <2>9 DEF SpacesOwned
    <3>2. user'[space[t]] = user[space[t]] /\ frame'[space[t]] = frame[space[t]]
      BY <2>3, <3>1
    <3>3. QED  BY <1>1, <1>2, <1>4, <3>1, <3>2, SeesAsBefore
  <2>11. QED  BY <2>3, <2>7, <2>8, <2>9 DEF SpaceInv, Contents
<1>5. QED  BY <1>3, <1>4 DEF MapSegment, MapBadSegment, LoadBadSegment

(* LoadRegion gives a region as Create does, and the image with it.        *)
LEMMA LoadRegionGives ==
    ASSUME MemInv, NEW s \in Slots, s = load.slot, LoadRegion
    PROVE  /\ s \notin taken /\ Loading /\ load' = NoLoad
           /\ \A t \in Slots \ {s} : /\ PagesOfRegion(t)' = PagesOfRegion(t)
                                     /\ image'[t] = image[t]
           /\ RegionGiven(s)
           /\ s \in taken' => image'[s] = load.got
           /\ s \notin taken' => image' = image
<1>1. s \notin taken /\ Loading /\ load' = NoLoad
  BY DEF LoadRegion, MemInv, SlotsOwnTheirRegions
<1>2. /\ regionAt \in [Slots -> Pages] /\ image \in [Slots -> SUBSET Pages]
      /\ TypeOK /\ NoPageTwice
  BY DEF MemInv, TypeOK
<1>3. CASE regionAt' = [regionAt EXCEPT ![s] = 0] /\ UNCHANGED <<image, taken>>
  <2>1. regionAt'[s] = 0  BY <1>2, <1>3
  <2>2. PagesOfRegion(s)' = {}  BY <2>1 DEF PagesOfRegion
  <2>3. \A t \in Slots \ {s} : PagesOfRegion(t)' = PagesOfRegion(t)
    BY <1>2, <1>3 DEF PagesOfRegion
  <2>4. QED  BY <1>1, <1>3, <2>2, <2>3 DEF RegionGiven
<1>4. ASSUME NEW page \in Pages, PageAlloc(REGION_PAGES, page),
             regionAt' = [regionAt EXCEPT ![s] = page],
             image' = [image EXCEPT ![s] = load.got], taken' = taken \cup {s}
      PROVE  /\ \A t \in Slots \ {s} : /\ PagesOfRegion(t)' = PagesOfRegion(t)
                                       /\ image'[t] = image[t]
             /\ RegionGiven(s) /\ image'[s] = load.got /\ s \in taken'
  <2>1. page # 0  BY <1>2, <1>4, MemorySizes, GrantIsNotNull
  <2>2. regionAt'[s] = page  BY <1>2, <1>4
  <2>3. PagesOfRegion(s)' = Run(page, REGION_PAGES)  BY <2>1, <2>2 DEF PagesOfRegion
  <2>4. \A t \in Slots \ {s} : PagesOfRegion(t)' = PagesOfRegion(t)
    BY <1>2, <1>4 DEF PagesOfRegion
  <2>5. QED  BY <1>2, <1>4, <2>2, <2>3, <2>4 DEF RegionGiven
<1>5. QED  BY <1>1, <1>3, <1>4 DEF LoadRegion

(* The directory of the load becomes that of the new process.              *)
LEMMA FinishLoadSpaces ==
    ASSUME MemInv, MemInv', SpaceInv, PoolPages \subseteq PoolPages', FinishLoad
    PROVE  SpaceInv'
<1>0. PICK s \in Slots : s = load.slot
  BY LoadTyped DEF FinishLoad, LoadRegion, MemInv
<1>1. /\ s \notin taken /\ Loading /\ load' = NoLoad
      /\ \A t \in Slots \ {s} : /\ PagesOfRegion(t)' = PagesOfRegion(t)
                                /\ image'[t] = image[t]
      /\ RegionGiven(s)
      /\ s \in taken' => image'[s] = load.got
      /\ s \notin taken' => image' = image
  BY <1>0, LoadRegionGives DEF FinishLoad
<1>2. /\ space[s] = -1 /\ space \in [Slots -> Handles \cup {-1}] /\ in_use \subseteq Handles
      /\ user \in [Handles -> SUBSET Addresses]
      /\ frame \in [Handles -> [Addresses -> Addresses]] /\ loading \in Handles /\ loading # -1
      /\ Sees(loading, {}, load.got) /\ Shows(loading, load.got, elf[s], <<>>) /\ SpacesOwned
      /\ elf \in [Slots -> Programs \cup {<<>>}]
  BY <1>0, <1>1
  DEF SpaceInv, SpacesOwned, PagingTypeOK, Contents, HasSoFar, FinishLoad, LoadRegion
<1>3. CASE s \notin taken' /\ FailedLoad
  <2>1. UNCHANGED <<taken, image>>  BY <1>1, <1>3 DEF RegionGiven
  <2>2. \A t \in Slots : space[t] # -1 => PagesOfRegion(t)' = PagesOfRegion(t)
    BY <1>1, <1>2
  <2>3. QED  BY <1>0, <1>1, <1>3, <2>1, <2>2, FailedLoadSpaces
<1>4. ASSUME s \in taken',
             user' = [user EXCEPT ![loading] = @ \cup RegionGrant(regionAt'[s])],
             space' = [space EXCEPT ![s] = loading], loading' = -1,
             UNCHANGED <<in_use, frame, elf>>
      PROVE  SpaceInv'
  <2>1. /\ taken' = taken \cup {s} /\ regionAt'[s] \in Nat
        /\ PagesOfRegion(s)' = Run(regionAt'[s], REGION_PAGES)
    BY <1>1, <1>4 DEF RegionGiven, Pages
  <2>2. PagesOfRegion(s)' = RegionGrant(regionAt'[s])  BY <2>1, RegionGranted
  <2> DEFINE R == PagesOfRegion(s)'
  <2>3. R \subseteq Pages /\ user' = [user EXCEPT ![loading] = @ \cup R]
    BY <1>4, <2>2, HeldInArenaNext DEF InArena
  <2> HIDE DEF R
  <2>u. R \subseteq Addresses  BY <2>3, OwnAreAddresses DEF OwnAddresses
  <2>4. PagingTypeOK'  BY <2>u, <1>2, <1>4, <2>3 DEF SpaceInv, PagingTypeOK
  <2>5. ~Loading'  BY <1>1 DEF Loading
  <2>6. space'[s] = loading /\ \A t \in Slots \ {s} : space'[t] = space[t]  BY <1>2, <1>4
  <2>7. SpacesOwned'
    <3>1. \A t \in Slots \ taken' : space'[t] = -1  BY <1>2, <2>1, <2>6 DEF SpacesOwned
    <3>2. \A t \in Slots : space'[t] # -1 => space'[t] \in in_use' /\ space'[t] # loading'
      BY <1>1, <1>2, <1>4, <2>6 DEF SpacesOwned
    <3>3. \A t, r \in Slots : space'[t] # -1 /\ space'[t] = space'[r] => t = r
      BY <1>2, <2>6 DEF SpacesOwned
    <3>4. \A g \in in_use' : g = loading' \/ \E t \in Slots : space'[t] = g
      <4>1. \A g \in in_use : g = loading \/ \E t \in Slots : space[t] = g
        BY <1>2 DEF SpacesOwned
      <4>2. ASSUME NEW g \in in_use, NEW t \in Slots, space[t] = g
            PROVE  space'[t] = g
        <5>1. g # -1  BY <1>2, HandlesAreNot
        <5>2. t # s  BY <1>2, <4>2, <5>1
        <5>3. QED  BY <2>6, <4>2, <5>2
      <4>3. QED  BY <1>4, <2>6, <4>1, <4>2
    <3>5. QED  BY <1>4, <2>5, <3>1, <3>2, <3>3, <3>4 DEF SpacesOwned
  <2>8. ASSUME NEW t \in Slots, space[t]' # -1
        PROVE  HasItsOwn(t)'
    <3>1. CASE t = s
      <4>1. /\ user'[loading] = user[loading] \cup R /\ frame'[loading] = frame[loading]
            /\ elf'[s] = elf[s]
        BY <1>2, <1>4, <2>3
      <4>2. image'[s] = load.got /\ space'[s] = loading  BY <1>1, <1>4, <2>6
      <4>3. Sees(space[s], PagesOfRegion(s), image[s])'  BY <1>2, <4>1, <4>2 DEF Sees, R
      <4>4. Shows(space[s], image[s], elf[s], <<>>)'
        BY <1>2, <4>1, <4>2 DEF Shows, StandsClear
      <4>5. QED  BY <3>1, <4>3, <4>4 DEF HasItsOwn
    <3>2. CASE t # s
      <4>1. space[t] # -1 /\ space'[t] = space[t] /\ space[t] # loading
        BY <1>2, <2>6, <2>8, <3>2 DEF SpacesOwned
      <4>2. user'[space[t]] = user[space[t]] /\ frame'[space[t]] = frame[space[t]]
        BY <1>2, <1>4, <2>3, <4>1
      <4>3. image'[t] = image[t] /\ elf'[t] = elf[t] /\ PagesOfRegion(t)' = PagesOfRegion(t)
        BY <1>1, <1>4, <3>2
      <4>4. QED  BY <4>1, <4>2, <4>3, SeesAsBefore
    <3>3. QED  BY <3>1, <3>2
  <2>9. QED  BY <2>4, <2>5, <2>7, <2>8 DEF SpaceInv, Contents
<1>5. QED  BY <1>0, <1>3, <1>4 DEF FinishLoad

(* A process that ends gives its directory back.                           *)
LEMMA DroppedSpaces ==
    ASSUME SpaceInv, PoolPages \subseteq PoolPages', NEW s \in Slots, ~Loading,
           in_use' = in_use \ {space[s]}, space' = [space EXCEPT ![s] = -1],
           UNCHANGED <<user, frame, loading, load>>, taken \ {s} \subseteq taken',
           elf' \in [Slots -> Programs \cup {<<>>}],
           \A t \in Slots \ {s} : /\ PagesOfRegion(t)' = PagesOfRegion(t)
                                  /\ image'[t] = image[t] /\ elf'[t] = elf[t]
    PROVE  SpaceInv'
<1>1. /\ space \in [Slots -> Handles \cup {-1}] /\ in_use \subseteq Handles
      /\ loading = -1 /\ SpacesOwned
  BY DEF SpaceInv, SpacesOwned, PagingTypeOK
<1>2. ~Loading'  BY DEF Loading
<1>3. space'[s] = -1 /\ \A t \in Slots \ {s} : space'[t] = space[t]  BY <1>1
<1>4. PagingTypeOK'  BY <1>1 DEF SpaceInv, PagingTypeOK
<1>5. SpacesOwned'
  <2>1. \A t \in Slots \ taken' : space'[t] = -1  BY <1>1, <1>3 DEF SpacesOwned
  <2>2. \A t \in Slots : space'[t] # -1 => space'[t] \in in_use' /\ space'[t] # loading'
    BY <1>1, <1>3 DEF SpacesOwned
  <2>3. \A t, r \in Slots : space'[t] # -1 /\ space'[t] = space'[r] => t = r
    BY <1>1, <1>3 DEF SpacesOwned
  <2>4. \A g \in in_use' : g = loading' \/ \E t \in Slots : space'[t] = g
    <3>1. ASSUME NEW g \in in_use'  PROVE \E t \in Slots : space'[t] = g
      <4>1. g \in in_use /\ g # space[s] /\ g # -1  BY <1>1, HandlesAreNot
      <4>2. PICK t \in Slots : space[t] = g  BY <1>1, <4>1 DEF SpacesOwned
      <4>3. space'[t] = g  BY <1>3, <4>1, <4>2
      <4>4. QED  BY <4>3
    <3>2. QED  BY <3>1
  <2>5. QED  BY <1>1, <1>2, <2>1, <2>2, <2>3, <2>4 DEF SpacesOwned
<1>6. ASSUME NEW t \in Slots, space[t]' # -1
      PROVE  HasItsOwn(t)'
  <2>1. t # s /\ space'[t] = space[t] /\ space[t] # -1  BY <1>3, <1>6
  <2>2. QED  BY <2>1, SeesAsBefore
<1>7. QED  BY <1>2, <1>4, <1>5, <1>6 DEF SpaceInv, Contents

LEMMA EndSpaces ==
    ASSUME MemInv, SpaceInv, PoolPages \subseteq PoolPages',
           NEW s \in Slots, Exit(s) \/ KillProcess(s)
    PROVE  SpaceInv'
<1>1. CASE Exit(s)
  <2>1. /\ ~Loading /\ in_use' = in_use \ {space[s]} /\ space' = [space EXCEPT ![s] = -1]
        /\ UNCHANGED <<user, frame, loading, load, taken, regionAt, image, elf>>
        /\ elf \in [Slots -> Programs \cup {<<>>}]
    BY <1>1 DEF Exit, vars, SpaceInv, PagingTypeOK
  <2>2. QED  BY <2>1, DroppedSpaces DEF PagesOfRegion
<1>2. CASE KillProcess(s)
  <2>1. /\ ~Loading /\ in_use' = in_use \ {space[s]} /\ space' = [space EXCEPT ![s] = -1]
        /\ UNCHANGED <<user, frame, loading, load>> /\ taken' = taken \ {s}
        /\ regionAt' = [regionAt EXCEPT ![s] = 0] /\ image' = [image EXCEPT ![s] = {}]
        /\ elf' = [elf EXCEPT ![s] = <<>>]
    BY <1>2 DEF KillProcess, Kill
  <2>2. /\ regionAt \in [Slots -> Pages] /\ image \in [Slots -> SUBSET Pages]
        /\ elf \in [Slots -> Programs \cup {<<>>}]
    BY DEF MemInv, TypeOK, SpaceInv, PagingTypeOK
  <2>3. /\ elf' \in [Slots -> Programs \cup {<<>>}]
        /\ \A t \in Slots \ {s} : /\ PagesOfRegion(t)' = PagesOfRegion(t)
                                  /\ image'[t] = image[t] /\ elf'[t] = elf[t]
    BY <2>1, <2>2 DEF PagesOfRegion
  <2>4. taken \ {s} \subseteq taken'  BY <2>1
  <2>5. QED  BY <2>1, <2>3, <2>4, DroppedSpaces
<1>3. QED  BY <1>1, <1>2

(* What malloc opens is in the pools.                                      *)
LEMMA MallocSpaces ==
    ASSUME MemInv, MemInv', SpaceInv, PoolPages \subseteq PoolPages',
           NEW s \in Slots, NEW size \in 0 .. PAGE_UNITS, Malloc(s, size)
    PROVE  SpaceInv'
<1>1. /\ space[s] # -1 /\ UNCHANGED <<in_use, frame, space, loading, elf>>
      /\ UNCHANGED <<load, taken, regionAt, image>> /\ elf \in [Slots -> Programs \cup {<<>>}]
  BY DEF Malloc, Kmalloc, SpaceInv, PagingTypeOK
<1>2. PICK p \in Pools : SlotUnits[p] >= size /\ Kmalloc(p)
  BY DEF Malloc, PoolFor, IsFirst
<1>3. size \in Nat  BY MemorySizes
<1>4. \A t \in Slots : image'[t] = image[t] /\ PagesOfRegion(t)' = PagesOfRegion(t)
  BY <1>1 DEF PagesOfRegion
<1>5. taken \subseteq taken' /\ taken' \subseteq Slots  BY <1>1 DEF MemInv, TypeOK
<1>6. CASE UNCHANGED user  BY <1>1, <1>4, <1>5, <1>6, NothingMoved
<1>7. ASSUME NEW o \in objects' \ objects,
             user' = [user EXCEPT ![space[s]] = @ \cup GrantedPages(o.addr, size)]
      PROVE  SpaceInv'
  <2> DEFINE G == GrantedPages(o.addr, size)
  <2>1. G \subseteq PoolPages' /\ G \subseteq Pages
    BY <1>2, <1>3, <1>7, ObjectInPool, HeldInArenaNext DEF InArena
  <2>2. /\ space \in [Slots -> Handles \cup {-1}] /\ space[s] \in Handles
        /\ user \in [Handles -> SUBSET Addresses] /\ SpacesOwned
    BY <1>1 DEF SpaceInv, PagingTypeOK
  <2>3. user' = [user EXCEPT ![space[s]] = @ \cup G]  BY <1>7
  <2> HIDE DEF G
  <2>u. G \subseteq Addresses  BY <2>1, OwnAreAddresses DEF OwnAddresses
  <2>4. \A h \in Handles : user[h] \subseteq user'[h] /\ user'[h] \subseteq user[h] \cup G
    BY <2>2, <2>3
  <2>5. PagingTypeOK'  BY <1>1, <2>u, <2>2, <2>3 DEF SpaceInv, PagingTypeOK
  <2>6. Loading' = Loading  BY <1>1 DEF Loading
  <2>7. SpacesOwned'  BY <1>1, <2>2, <2>6 DEF SpacesOwned
  <2>8. ASSUME NEW t \in Slots, space[t]' # -1
        PROVE  HasItsOwn(t)'
    <3>1. space'[t] = space[t] /\ space[t] \in Handles /\ elf'[t] = elf[t]
      BY <1>1, <2>2, <2>8
    <3>2. HasItsOwn(t)  BY <2>8, <3>1 DEF SpaceInv, Contents
    <3>3. user[space[t]] \subseteq user'[space[t]]
          /\ user'[space[t]] \subseteq user[space[t]] \cup PoolPages'
      BY <2>1, <2>4, <3>1
    <3>4. Sees(space[t], PagesOfRegion(t), image[t])'
      BY <1>1, <1>4, <3>1, <3>2, <3>3 DEF HasItsOwn, Sees
    <3>5. Shows(space[t], image[t], elf[t], <<>>)'
      BY <1>1, <1>4, <3>1, <3>2, <3>3 DEF HasItsOwn, Shows, StandsClear
    <3>6. QED  BY <3>4, <3>5 DEF HasItsOwn
  <2>9. ~Loading'  BY <1>2, <2>6 DEF Kmalloc
  <2>10. QED  BY <2>5, <2>7, <2>8, <2>9 DEF SpaceInv, Contents
<1>8. QED  BY <1>6, <1>7 DEF Malloc

LEMMA PagingInitHolds == PagingInit => SpaceInv
<1> SUFFICES ASSUME PagingInit  PROVE SpaceInv  OBVIOUS
<1>1. ~Loading  BY DEF PagingInit, Init, Loading
<1>2. PagingTypeOK  BY DEF PagingInit, PagingTypeOK, Identity
<1>3. SpacesOwned  BY <1>1 DEF PagingInit, SpacesOwned
<1>4. Contents  BY <1>1 DEF PagingInit, Contents
<1>5. QED  BY <1>2, <1>3, <1>4 DEF SpaceInv

LEMMA PagingNextHolds == MemInv /\ MemInv' /\ SpaceInv /\ [PagingNext]_pagingVars => SpaceInv'
<1> SUFFICES ASSUME MemInv, MemInv', SpaceInv, [PagingNext]_pagingVars  PROVE SpaceInv'
  OBVIOUS
<1>1. PoolPages \subseteq PoolPages'  BY StepIsMemoryStep, PoolsGrow
<1>2. CASE UNCHANGED pagingVars \/ \E o \in objects : Free(o)
  <2>1. /\ UNCHANGED <<in_use, frame, user, space, loading, elf>>
        /\ UNCHANGED <<load, taken, regionAt, image>>
        /\ elf \in [Slots -> Programs \cup {<<>>}]
    BY <1>2 DEF pagingVars, spaceVars, vars, Free, Kfree, SpaceInv, PagingTypeOK
  <2>2. \A t \in Slots : image'[t] = image[t] /\ PagesOfRegion(t)' = PagesOfRegion(t)
    BY <2>1 DEF PagesOfRegion
  <2>3. taken \subseteq taken' /\ taken' \subseteq Slots  BY <2>1 DEF MemInv, TypeOK
  <2>4. QED  BY <1>1, <2>1, <2>2, <2>3, NothingMoved
<1>3. QED
  BY <1>1, <1>2, KernelThreadSpaces, Ring3Spaces, StartLoadSpaces, MapSegmentSpaces,
     FinishLoadSpaces, EndSpaces, MallocSpaces
  DEF PagingNext

LEMMA PagingInvariant == PagingSpec => [](MemInv /\ SpaceInv)
BY PagingInitHolds, PagingNextHolds, PagingRunsMemory, MemoryInvariant, PTL DEF PagingSpec

(***************************************************************************)
(* What it gives.                                                          *)
(***************************************************************************)
LEMMA ReachIs ==
    ASSUME MemInv, SpaceInv, NEW s \in Ring3
    PROVE  /\ s \in Slots /\ PagesOfRegion(s) \subseteq Reach(s)
           /\ Linked(elf[s]) => image[s] \subseteq Reach(s)
           /\ Reach(s) \subseteq PagesOfRegion(s) \cup image[s] \cup PoolPages \cup {KERNEL_CODE}
<1>1. s \in Slots /\ space[s] # -1  BY DEF Ring3, MemInv, TypeOK
<1>2. Sees(space[s], PagesOfRegion(s), image[s]) /\ Shows(space[s], image[s], elf[s], <<>>)
  BY <1>1 DEF SpaceInv, Contents, HasItsOwn
<1>3. PoolPages \subseteq Pages /\ PagesOfRegion(s) \subseteq Pages
  BY <1>1, HeldInArena DEF InArena
<1>4. PagesOfRegion(s) \subseteq Reach(s)
  <2>1. ASSUME NEW f \in PagesOfRegion(s)  PROVE f \in Reach(s)
    <3>1. f \in user[space[s]] /\ frame[space[s]][f] = f
      BY <1>2, <1>3 DEF Sees, OwnAddresses
    <3>2. QED  BY <3>1 DEF Reach
  <2>2. QED  BY <2>1
<1>5. ASSUME Linked(elf[s])  PROVE image[s] \subseteq Reach(s)
  BY <1>2, <1>5 DEF Shows, StandsClear, Reach
<1>6. ASSUME NEW v \in user[space[s]]
      PROVE  frame[space[s]][v] \in PagesOfRegion(s) \cup image[s] \cup PoolPages \cup {KERNEL_CODE}
  <2>1. CASE v \in PagesOfRegion(s) \cup PoolPages \cup {KERNEL_CODE}
    <3>1. frame[space[s]][v] = v  BY <1>2, <1>3, <2>1 DEF Sees, OwnAddresses
    <3>2. QED  BY <2>1, <3>1
  <2>2. CASE frame[space[s]][v] \in image[s]  BY <2>2
  <2>3. QED  BY <1>2, <2>1, <2>2 DEF Sees
<1>7. Reach(s) \subseteq PagesOfRegion(s) \cup image[s] \cup PoolPages \cup {KERNEL_CODE}
  BY <1>6 DEF Reach
<1>8. QED  BY <1>1, <1>4, <1>5, <1>7

LEMMA OwnIs == ASSUME NEW s \in Slots  PROVE Own(s) = PagesOfRegion(s) \cup image[s]
BY HoldsNow DEF HoldsByKind, Own

(* A process of ring 3 reaches its region, its image, pages of the heap    *)
(* and the code of the kernel, and nothing else: whatever directories,     *)
(* slots and pages were used for before, and however loads failed.         *)
THEOREM NothingElseIsReached == PagingSpec => []ReachesOnlyItsOwn
<1>1. MemInv /\ SpaceInv => ReachesOnlyItsOwn
  BY ReachIs, OwnIs DEF ReachesOnlyItsOwn
<1>2. QED  BY <1>1, PagingInvariant, PTL

(* And all of its own, the pages of its program included if the tables     *)
(* cover its segments and no two share a page: proc_load_elf does not look *)
(* at what paging_map_page returns.                                        *)
THEOREM AllItsOwnIsReached == PagingSpec => []ReachesAllItsOwn
<1>1. MemInv /\ SpaceInv => ReachesAllItsOwn
  BY ReachIs, OwnIs DEF ReachesAllItsOwn
<1>2. QED  BY <1>1, PagingInvariant, PTL

(* With as many directories as slots, a free slot finds a free one.        *)
LEMMA FreeHandleLeft ==
    ASSUME SpaceInv, taken \subseteq Slots, taken # Slots, ~Loading  PROVE in_use # Handles
<1> SUFFICES ASSUME in_use = Handles  PROVE FALSE  OBVIOUS
<1>1. PICK t \in Slots : t \notin taken  OBVIOUS
<1>2. loading = -1 /\ SpacesOwned  BY DEF SpaceInv, SpacesOwned
<1>3. \A h \in Handles : \E s \in Slots \ {t} : space[s] = h
  <2>1. SUFFICES ASSUME NEW h \in Handles  PROVE \E s \in Slots \ {t} : space[s] = h
    OBVIOUS
  <2>2. h # -1  BY HandlesAreNot
  <2>3. PICK s \in Slots : space[s] = h  BY <1>2, <2>2 DEF SpacesOwned
  <2>4. s # t  BY <1>1, <1>2, <2>2, <2>3 DEF SpacesOwned
  <2>5. QED  BY <2>3, <2>4
<1> DEFINE f == [h \in Handles |-> CHOOSE s \in Slots \ {t} : space[s] = h]
<1>4. f \in [Handles -> Slots \ {t}] /\ \A h \in Handles : space[f[h]] = h
  BY <1>3
<1> HIDE DEF f
<1>5. MAX_ADDR_SPACES = MAX_PROCESSES /\ MAX_PROCESSES \in Nat \ {0}
  BY EnoughSpaces, MemorySizes
<1>6. IsFiniteSet(Handles) /\ Cardinality(Handles) = MAX_PROCESSES
  BY <1>5, FS_Interval DEF Handles
<1>7. IsFiniteSet(Slots) /\ Cardinality(Slots) = MAX_PROCESSES
  BY <1>5, FS_Interval DEF Slots
<1>8. IsFiniteSet(Slots \ {t}) /\ Cardinality(Slots \ {t}) = MAX_PROCESSES - 1
  BY <1>7, FS_RemoveElement
<1>9. Cardinality(Slots \ {t}) < Cardinality(Handles)  BY <1>5, <1>6, <1>8
<1>10. \E x, y \in Handles : x # y /\ f[x] = f[y]
  BY <1>4, <1>6, <1>8, <1>9, FS_PigeonHole
<1>11. QED  BY <1>4, <1>10

(* Every directory in use has one owner, whatever order of creations,      *)
(* failed loads, exits and kills; so a free slot always finds one that is  *)
(* free, and only page_alloc can refuse a new process.                     *)
THEOREM HandlesAreOwned == PagingSpec => []HandlesHaveOwners
<1>1. ASSUME MemInv, SpaceInv  PROVE HandlesHaveOwners
  <2>1. taken \subseteq Slots /\ SpacesOwned  BY <1>1 DEF MemInv, TypeOK, SpaceInv
  <2>2. \A s \in Slots : space[s] # -1 <=> s \in Ring3  BY <2>1 DEF SpacesOwned, Ring3
  <2>3. Ring3 \subseteq Slots  BY <2>1 DEF Ring3
  <2>4. in_use = {space[s] : s \in Ring3} \cup {h \in {loading} : Loading}
    <3>1. ASSUME NEW h \in in_use
          PROVE  h \in {space[s] : s \in Ring3} \cup {g \in {loading} : Loading}
      <4>1. h # -1
        BY <1>1, HandlesAreNot DEF SpaceInv, PagingTypeOK
      <4>2. CASE h = loading  BY <2>1, <4>1, <4>2 DEF SpacesOwned
      <4>3. ASSUME NEW s \in Slots, space[s] = h  PROVE h \in {space[r] : r \in Ring3}
        BY <2>2, <4>1, <4>3
      <4>4. QED  BY <2>1, <4>2, <4>3 DEF SpacesOwned
    <3>2. ASSUME NEW s \in Ring3  PROVE space[s] \in in_use
      BY <2>1, <2>2, <2>3 DEF SpacesOwned
    <3>3. Loading => loading \in in_use  BY <2>1 DEF SpacesOwned
    <3>4. QED  BY <3>1, <3>2, <3>3
  <2>5. \A s, r \in Ring3 : space[s] = space[r] => s = r
    BY <2>1, <2>2, <2>3 DEF SpacesOwned
  <2>6. \A s \in Ring3 : space[s] # loading  BY <2>1, <2>2, <2>3 DEF SpacesOwned
  <2>7. taken # Slots /\ ~Loading => in_use # Handles  BY <1>1, <2>1, FreeHandleLeft
  <2>8. QED  BY <2>4, <2>5, <2>6, <2>7 DEF HandlesHaveOwners
<1>2. MemInv /\ SpaceInv => HandlesHaveOwners  BY <1>1
<1>3. QED  BY <1>2, PagingInvariant, PTL
===============================================================================
