------------------------------ MODULE MCEditor ------------------------------
(* Rows of two bytes, lines of one or two letters; the file exists or not. *)
EXTENDS Editor

CONSTANTS a, x, y

MCBootTrees ==
    {RootOnly,
     [RootOnly EXCEPT ![1] = [Entry(FALSE, ROOT_IDX, a) EXCEPT
         !.size = 3, !.data = <<x, NewLine, y>>]]}
MCPath == <<a>>
MCTexts == {<<x>>, <<y>>, <<x, y>>}
MCBytes == {x, y, NewLine}
MCBeyond == <<x>>
==============================================================================
