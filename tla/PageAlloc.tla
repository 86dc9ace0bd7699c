------------------------------ MODULE PageAlloc ------------------------------
(***************************************************************************)
(* The page allocator of memory.c: a bitmap of the pages of the arena and  *)
(* a hint from which the next search starts.  A page is its index; page 0  *)
(* is reserved so that 0 can mean "no room".                               *)
(***************************************************************************)
EXTENDS Integers

CONSTANT ARENA_PAGES        \* pages of the arena (2048)

ASSUME ArenaSize == ARENA_PAGES \in Nat \ {0}

VARIABLES
    used,   \* the pages whose entry of page_bitmap is 1
    hint,   \* next_free_hint
    call    \* the latest page_alloc and its answer: [n, page]

pageVars == <<used, hint, call>>

Pages == 0 .. ARENA_PAGES - 1
Run(s, n) == s .. s + n - 1     \* n pages from s on

IsFirst(i, S) == i \in S /\ \A j \in S : i <= j

(* The starts, from page h on, that one pass of the search accepts.        *)
FreeRuns(h, n) ==
    {s \in h .. ARENA_PAGES - n : Run(s, n) \cap used = {}}

(* A second pass from the beginning when the first one finds nothing.      *)
Candidates_OnePass(n) == FreeRuns(hint, n)  \* mutant: what lies below the hint is lost
Candidates(n) ==
    IF FreeRuns(hint, n) # {} THEN FreeRuns(hint, n) ELSE FreeRuns(0, n)

(* page_alloc(n) returns page s, which is not 0.                           *)
PageAlloc_Overlap(n, s) ==      \* mutant: the last page of the run is not marked
    /\ n > 0
    /\ IsFirst(s, Candidates(n))
    /\ used' = used \cup Run(s, n - 1)
    /\ hint' = s + n
    /\ call' = [n |-> n, page |-> s]
PageAlloc(n, s) ==
    /\ n > 0
    /\ IsFirst(s, Candidates(n))
    /\ used' = used \cup Run(s, n)
    /\ hint' = s + n
    /\ call' = [n |-> n, page |-> s]

(* page_alloc(n) returns 0: nothing was asked for, or both passes failed.  *)
NoPages(n) ==
    /\ n > 0 => Candidates(n) = {}
    /\ hint' = IF n > 0 THEN 0 ELSE hint
    /\ call' = [n |-> n, page |-> 0]
    /\ UNCHANGED used

PageFree(s, n) ==
    /\ used' = used \ Run(s, n)
    /\ hint' = IF s < hint THEN s ELSE hint
    /\ UNCHANGED call
==============================================================================
