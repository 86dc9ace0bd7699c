------------------------------ MODULE PageStore ------------------------------
(***************************************************************************)
(* What the page allocator of memory.c promises to its callers, without    *)
(* saying how it looks for pages: page_alloc(n) hands out n consecutive    *)
(* pages that nobody has, and says no only when there are none; page_free  *)
(* takes pages back that were in use.                                      *)
(***************************************************************************)
EXTENDS Integers

CONSTANT ARENA_PAGES        \* pages of the arena (2048)

VARIABLES
    used,   \* the pages in use
    call    \* the latest request and its answer: [n, page], page 0 is a refusal

Pages == 0 .. ARENA_PAGES - 1
Run(s, n) == s .. s + n - 1     \* n pages from s on

FreeRun(s, n) == s + n <= ARENA_PAGES /\ Run(s, n) \cap used = {}

Init ==
    /\ used \subseteq Pages
    /\ 0 \in used
    /\ call = [n |-> 0, page |-> 0]

Grant(n, s) ==
    /\ n > 0
    /\ FreeRun(s, n)
    /\ used' = used \cup Run(s, n)
    /\ call' = [n |-> n, page |-> s]

Refuse ==
    /\ call' \in [n : Nat, page : {0}]
    /\ call'.n > 0 => \A s \in Pages : ~FreeRun(s, call'.n)
    /\ UNCHANGED used

Release(s, n) ==
    /\ Run(s, n) \subseteq used \ {0}
    /\ used' = used \ Run(s, n)
    /\ UNCHANGED call

Next ==
    \/ \E n \in 1 .. ARENA_PAGES, s \in Pages : Grant(n, s) \/ Release(s, n)
    \/ Refuse

Spec == Init /\ [][Next]_<<used, call>>
==============================================================================
