------------------------------- MODULE MCMemory -------------------------------
(* Small instance of Memory: a program of two segments and one whose        *)
(* segment is empty; two pools, of two slots and of one.                   *)
EXTENDS Memory

Segment(n) == [at |-> ARENA_PAGES, pages |-> n]
MCPrograms == {<<Segment(2), Segment(1)>>, <<Segment(0)>>}
MCSlotUnits == <<1, 2>>
==============================================================================
