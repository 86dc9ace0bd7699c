------------------------------- MODULE MCPaging -------------------------------
(* Small instance of Paging: a program of two segments, one that reaches    *)
(* beyond the last table, one whose segments share a page, and one whose    *)
(* segment is empty; a pool of two slots in one page.                       *)
EXTENDS Paging

Segment(v, n) == [at |-> v, pages |-> n]
MCPrograms == {<<Segment(ARENA_PAGES, 1), Segment(ARENA_PAGES + 1, 1)>>,
               <<Segment(ARENA_PAGES + 1, 2)>>,
               <<Segment(ARENA_PAGES, 1), Segment(ARENA_PAGES, 1)>>,
               <<Segment(ARENA_PAGES, 0)>>}
MCSlotUnits == <<1>>
==============================================================================
