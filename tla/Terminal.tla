------------------------------ MODULE Terminal ------------------------------
(***************************************************************************)
(* What keyboard.c promises to who reads a line: the keys arrive in the    *)
(* order in which they were typed, each of them once, except for those     *)
(* typed while too many wait; and each does what its name says to a line   *)
(* with a cursor in it.                                                    *)
(***************************************************************************)
EXTENDS Integers, Sequences

CONSTANTS
    Keys,       \* characters, and the keys below
    MAX_KEYS,   \* keys that can wait
    MAX_LINE,   \* characters of a line
    Enter, Back, Left, Right, Copy, Paste

Characters == Keys \ {Enter, Back, Left, Right, Copy, Paste}

VARIABLES
    typed,      \* the keys that wait
    before,     \* the line up to the cursor
    after,      \* the line from the cursor on
    clip        \* what was copied

Init == typed = <<>> /\ before = <<>> /\ after = <<>> /\ clip = <<>>

Butlast(s) == SubSeq(s, 1, Len(s) - 1)
Last(s) == s[Len(s)]
Free == MAX_LINE - Len(before) - Len(after)
Fitting == SubSeq(clip, 1, IF Len(clip) < Free THEN Len(clip) ELSE Free)

Type ==
    /\ Len(typed) < MAX_KEYS
    /\ LET waiting == typed IN typed' \in {Append(waiting, key) : key \in Keys}
    /\ UNCHANGED <<before, after, clip>>

\* What a key does to the line.
Edit(key) ==
    \/ /\ key = Enter
       /\ before' = <<>> /\ after' = <<>> /\ UNCHANGED clip
    \/ /\ key = Back /\ before # <<>>
       /\ before' = Butlast(before) /\ UNCHANGED <<after, clip>>
    \/ /\ key = Left /\ before # <<>>
       /\ before' = Butlast(before) /\ after' = <<Last(before)>> \o after /\ UNCHANGED clip
    \/ /\ key = Right /\ after # <<>>
       /\ before' = Append(before, Head(after)) /\ after' = Tail(after) /\ UNCHANGED clip
    \/ /\ key = Copy
       /\ clip' = before \o after /\ UNCHANGED <<before, after>>
    \/ /\ key = Paste
       /\ before' = before \o Fitting /\ UNCHANGED <<after, clip>>
    \/ /\ key \in Characters /\ Free > 0
       /\ before' = Append(before, key) /\ UNCHANGED <<after, clip>>
    \/ /\ \/ key \in {Back, Left} /\ before = <<>>
          \/ key = Right /\ after = <<>>
          \/ key \in Characters /\ Free = 0
       /\ UNCHANGED <<before, after, clip>>

Take == typed # <<>> /\ typed' = Tail(typed) /\ Edit(Head(typed))

Next == Type \/ Take

Spec == Init /\ [][Next]_<<typed, before, after, clip>>
==============================================================================
