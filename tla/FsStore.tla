------------------------------- MODULE FsStore -------------------------------
(***************************************************************************)
(* What filesystem.c promises to the shell, in terms of paths: a tree of   *)
(* directories and files that commands change in one place at a time, and  *)
(* a copy of it on disk that save makes and load brings back.              *)
(***************************************************************************)
EXTENDS Integers, SequencesExt

CONSTANTS
    Names,      \* the names a file can have
    DEPTH,      \* the longest path that is considered
    Initial,    \* the tree after the start of the machine
    Directory,  \* what a directory holds
    Damaged,    \* the tree after a load that failed
    Blank,      \* a disk on which nothing was ever saved
    Broken      \* a disk after a save that failed, in whole or in part

VARIABLES
    tree,       \* what each path that exists holds, or Damaged
    saved       \* the tree that the disk holds, Blank or Broken

Paths == UNION {[1 .. n -> Names] : n \in 0 .. DEPTH}
Existing == DOMAIN tree
IsDirectory(p) == p \in Existing /\ tree[p] = Directory
CanHold(p) == p # <<>> /\ IsDirectory(Front(p))

Init == tree = Initial /\ saved = Blank

MakeDir(p) ==
    /\ CanHold(p)
    /\ p \notin Existing
    /\ tree' = tree @@ (p :> Directory)
    /\ UNCHANGED saved

\* A new file, or one that is written again from its beginning.
MakeFile(p) ==
    /\ CanHold(p)
    /\ ~IsDirectory(p)
    /\ tree' = (p :> <<>>) @@ tree
    /\ UNCHANGED saved

Extend(p) ==
    /\ p \in Existing /\ ~IsDirectory(p)
    /\ Existing \subseteq DOMAIN tree'
    /\ tree'[p] # Directory
    /\ IsPrefix(tree[p], tree'[p])
    /\ tree' = [tree EXCEPT ![p] = tree'[p]]
    /\ UNCHANGED saved

Delete(p) ==
    /\ p \in Existing \ {<<>>}
    /\ \A q \in Existing : ~IsStrictPrefix(p, q)
    /\ tree' = [q \in Existing \ {p} |-> tree[q]]
    /\ UNCHANGED saved

\* All that lies below p moves to q.  When q lies below p itself, nothing is
\* left of it: see NodesFormATree in module Shell.
Move(p, q) ==
    /\ p \in Existing \ {<<>>}
    /\ CanHold(q)
    /\ q \notin Existing
    /\ LET under == {r \in Existing : IsPrefix(p, r)}
           New(r) == q \o SubSeq(r, Len(p) + 1, Len(r))
           moved == [t \in {New(r) : r \in under} |->
                        tree[p \o SubSeq(t, Len(q) + 1, Len(t))]]
           stayed == [r \in Existing \ under |-> tree[r]]
       IN tree' = IF IsPrefix(p, q) THEN stayed ELSE stayed @@ moved
    /\ UNCHANGED saved

\* A save under way leaves nothing to rely on until its last sector is there.
Save ==
    /\ saved' \in {tree, Broken} \ {Damaged}
    /\ UNCHANGED tree

Load ==
    /\ saved \notin {Blank, Broken}
    /\ tree' = saved
    /\ UNCHANGED saved

\* A load that fails after it has begun to rebuild the tree, or that finds a
\* broken copy, leaves a tree about which nothing is promised; neither is
\* anything about what is saved from it.
LoadFails ==
    /\ saved # Blank
    /\ tree' = Damaged
    /\ UNCHANGED saved

Restart ==
    /\ tree' = Initial
    /\ UNCHANGED saved

Next ==
    \/ /\ Damaged \notin {tree, tree'}
       /\ \/ \E p \in Paths : MakeDir(p) \/ MakeFile(p) \/ Extend(p) \/ Delete(p)
          \/ \E p, q \in Paths : Move(p, q)
    \/ Save \/ Load \/ LoadFails \/ Restart

Spec == Init /\ [][Next]_<<tree, saved>>
==============================================================================
