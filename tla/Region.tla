-------------------------------- MODULE Region --------------------------------
(***************************************************************************)
(* The regions of memory.c: whole pages with a header in front, of which    *)
(* region_alloc gives one block after another until the room is used up.    *)
(* A region is the bytes it holds from its base on; sizes are size_t, 32    *)
(* bits.                                                                    *)
(***************************************************************************)
EXTENDS Naturals

REGION_PAGE == 4096
HEADER == 24
SIZES == 4294967296

\* ALIGN, which wraps
Aligned(n, a) == LET up == (n + a - 1) % SIZES IN up - (up % a)

\* region_new: how many pages it asks page_alloc for
RegionPages(capacity) == Aligned((capacity + HEADER) % SIZES, REGION_PAGE) \div REGION_PAGE

RegionNew(capacity) ==
    [used |-> 0, capacity |-> RegionPages(capacity) * REGION_PAGE - HEADER,
     backing_pages |-> RegionPages(capacity)]

\* region_alloc
Grants(r, size) == (r.used + Aligned(size, 8)) % SIZES <= r.capacity

\* The bytes of the region the caller asked for and gets.
Block(r, size) == r.used .. r.used + size - 1
RegionAlloc(r, size) ==
    [used |-> r.used + Aligned(size, 8), capacity |-> r.capacity,
     backing_pages |-> r.backing_pages]

\* A region that region_new made and region_alloc used.
IsRegion(r) ==
    /\ r = [used |-> r.used, capacity |-> r.capacity, backing_pages |-> r.backing_pages]
    /\ r.backing_pages \in Nat \ {0} /\ r.backing_pages < 1048576
    /\ r.capacity = r.backing_pages * REGION_PAGE - HEADER
    /\ r.used \in 0 .. r.capacity
    /\ r.used % 8 = 0
==============================================================================
