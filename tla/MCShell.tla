------------------------------- MODULE MCShell -------------------------------
(* Small instances of Shell: /gopher/index.txt is /a/b here, and one of the *)
(* programs of the root, /b, is made at boot.                               *)
EXTENDS Shell

CONSTANTS a, b, x, y

MCNames == {a, b}
MCBytes == {x, y}
MCBootText == [name |-> b, text |-> <<x>>]
MCBootPrograms == <<MCBootText>>

Abs(p) == [abs |-> TRUE, comps |-> p]
Rel(p) == [abs |-> FALSE, comps |-> p]
MCArgs == {Abs(<<>>), Rel(<<a>>), Rel(<<b>>), Abs(<<a>>), Abs(<<a, b>>), Rel(<<b, a>>)}
MCFewArgs == {Abs(<<b>>), Abs(<<a, b>>)}
MCGarbled == [idx |-> None]
==============================================================================
