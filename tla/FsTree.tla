------------------------------- MODULE FsTree -------------------------------
(***************************************************************************)
(* The file system of filesystem.c: an array of nodes, each of which names *)
(* its parent by index.  A path is the sequence of its components; "/" is  *)
(* <<>>.  A slot that does not exist is Empty: every operation that takes  *)
(* one writes all the fields that are read later.                          *)
(*                                                                         *)
(* The operations that walk a path with fs_split_parent do so one          *)
(* component at a time, since each step may create a directory and any of  *)
(* them may be the last.  `op` is the one under way; fs_lock and a kernel  *)
(* that does not preempt keep everything else out until it has ended.      *)
(***************************************************************************)
EXTENDS Integers, Sequences, FiniteSets

CONSTANTS
    MAX_FILES,      \* slots of the array (256)
    MAX_FILE_SIZE,  \* bytes of a file (64 KB)
    REGION_SIZE,    \* bytes of the shell's region (64 KB)
    Names,          \* names of files and directories
    Root,           \* the name of the node 0, "/"
    Bytes,          \* what files are made of
    NULL

ASSUME FsSizes ==
    /\ MAX_FILES \in Nat \ {0}
    /\ MAX_FILE_SIZE \in Nat
    /\ REGION_SIZE \in Nat
    /\ Root \notin Names
    /\ NULL \notin Seq(Bytes)

Slots == 0 .. MAX_FILES - 1
ROOT_IDX == 0
None == -1          \* what a search returns when it fails

VARIABLES
    files,      \* the array
    op,         \* the operation under way
    room        \* bytes left in shell_region; nothing gives any back

fsVars == <<files, op, room>>

Node == [exists : BOOLEAN, is_dir : BOOLEAN, parent : Slots \cup {None},
         name : Names \cup {Root}, size : Nat, data : Seq(Bytes) \cup {NULL}]
Empty == [exists |-> FALSE, is_dir |-> FALSE, parent |-> ROOT_IDX, name |-> Root,
          size |-> 0, data |-> NULL]
Entry(dir, parent, name) ==
    [Empty EXCEPT !.exists = TRUE, !.is_dir = dir, !.parent = parent, !.name = name]

\* fs_init
RootNode == Entry(TRUE, None, Root)
RootOnly == [i \in Slots |-> IF i = ROOT_IDX THEN RootNode ELSE Empty]

Idle == [kind |-> "none", cmd |-> "none", path |-> <<>>, at |-> 0, dir |-> ROOT_IDX,
         node |-> None, writes |-> <<>>]
Busy == op # Idle

------------------------------------------------------------------------------
(* Searches                                                                 *)

Existing(f) == {i \in Slots : f[i].exists}
Children(f, d) == {i \in Existing(f) : f[i].parent = d}
Lowest(S) == IF S = {} THEN None ELSE CHOOSE i \in S : \A j \in S : i <= j

AllocNode == Lowest(Slots \ (Existing(files) \cup {ROOT_IDX}))
FindChild(f, d, name) == Lowest({i \in Children(f, d) : f[i].name = name})

\* fs_resolve, the node at the end of a path in the array f
Resolve(f, path) ==
    LET cur[i \in 0 .. Len(path)] ==
            IF i = 0 THEN ROOT_IDX
            ELSE IF cur[i - 1] = None THEN None
            ELSE FindChild(f, cur[i - 1], path[i])
    IN cur[Len(path)]

\* fs_find, fs_is_dir, fs_size_of
Find(path) ==
    LET i == Resolve(files, path) IN IF i = None \/ ~files[i].exists THEN None ELSE i
IsDir(i) == i # None /\ files[i].is_dir
SizeOf(i) == IF i = None \/ files[i].is_dir THEN 0 ELSE files[i].size

\* fs_list: at most max children, those of the first slots.
List(path, max) ==
    LET d == Resolve(files, path)
        first(S) == {i \in S : Cardinality({j \in S : j < i}) < max}
    IN IF IsDir(d) THEN first(Children(files, d)) ELSE {}

\* fs_read of a whole file.  Where a failed load has left NULL the caller
\* reads whatever lies at the bottom of the memory.
Reads(i) == IF files[i].data = NULL THEN [1 .. files[i].size -> Bytes] ELSE {files[i].data}

------------------------------------------------------------------------------
(* fs_split_parent: op.dir is cur, op.at the components before the last one *)

Begin(kind, cmd, path, node, writes) ==
    op' = [kind |-> kind, cmd |-> cmd, path |-> path, at |-> 0, dir |-> ROOT_IDX,
           node |-> node, writes |-> writes]

Walking == op.kind \in {"mkdir", "create", "rename"}
MoreDirs == Walking /\ op.at < Len(op.path) - 1
AtLeaf == Walking /\ op.at = Len(op.path) - 1
Next1 == FindChild(files, op.dir, op.path[op.at + 1])
Leaf == op.path[Len(op.path)]

\* The path is "/": it has no last component.
NoLeaf ==
    /\ Walking /\ op.path = <<>>
    /\ op' = Idle
    /\ UNCHANGED <<files, room>>

Enter ==
    /\ MoreDirs
    /\ Next1 # None /\ files[Next1].is_dir
    /\ op' = [op EXCEPT !.at = @ + 1, !.dir = Next1]
    /\ UNCHANGED <<files, room>>

FileInTheWay ==
    /\ MoreDirs
    /\ Next1 # None /\ ~files[Next1].is_dir
    /\ op' = Idle
    /\ UNCHANGED <<files, room>>

MakeParent ==
    /\ MoreDirs
    /\ Next1 = None /\ AllocNode # None
    /\ files' = [files EXCEPT ![AllocNode] = Entry(TRUE, op.dir, op.path[op.at + 1])]
    /\ op' = [op EXCEPT !.at = @ + 1, !.dir = AllocNode]
    /\ UNCHANGED room

NoRoomForParent ==
    /\ MoreDirs
    /\ Next1 = None /\ AllocNode = None
    /\ op' = Idle
    /\ UNCHANGED <<files, room>>

------------------------------------------------------------------------------
(* What fs_create, fs_mkdir and fs_rename do with the parent they get       *)

Found == FindChild(files, op.dir, Leaf)

\* A name in use refuses a directory and a rename, and a directory refuses a
\* file; a new node needs a slot.
Refused ==
    /\ AtLeaf
    /\ \/ op.kind \in {"mkdir", "rename"} /\ Found # None
       \/ op.kind = "create" /\ Found # None /\ files[Found].is_dir
       \/ op.kind \in {"mkdir", "create"} /\ Found = None /\ AllocNode = None
    /\ op' = Idle
    /\ UNCHANGED <<files, room>>

Mkdir ==
    /\ AtLeaf /\ op.kind = "mkdir"
    /\ Found = None /\ AllocNode # None
    /\ files' = [files EXCEPT ![AllocNode] = Entry(TRUE, op.dir, Leaf)]
    /\ op' = Idle
    /\ UNCHANGED room

Rename_NoTest ==       \* mutant: the name may be in use
    /\ AtLeaf /\ op.kind = "rename"
    /\ files' = [files EXCEPT ![op.node].parent = op.dir, ![op.node].name = Leaf]
    /\ op' = Idle
    /\ UNCHANGED room

Rename ==
    /\ AtLeaf /\ op.kind = "rename"
    /\ Found = None
    /\ files' = [files EXCEPT ![op.node].parent = op.dir, ![op.node].name = Leaf]
    /\ op' = Idle
    /\ UNCHANGED room

\* The file that fs_create returns is then written with fs_append.
Writing(i) == op' = [Idle EXCEPT !.kind = "append", !.cmd = op.cmd, !.node = i,
                                 !.writes = op.writes]

Truncate ==
    /\ AtLeaf /\ op.kind = "create"
    /\ Found # None /\ ~files[Found].is_dir
    /\ files' = [files EXCEPT ![Found].size = 0, ![Found].data = NULL]
    /\ Writing(Found)
    /\ UNCHANGED room

Create ==
    /\ AtLeaf /\ op.kind = "create"
    /\ Found = None /\ AllocNode # None
    /\ files' = [files EXCEPT ![AllocNode] = Entry(FALSE, op.dir, Leaf)]
    /\ Writing(AllocNode)
    /\ UNCHANGED room

\* fs_append copies the file to new memory.  One that does not fit leaves the
\* file as it is, and its callers go on with the next one.
Fits(i, n) == files[i].size + n <= MAX_FILE_SIZE /\ files[i].size + n <= room

Append1 ==
    /\ op.kind = "append" /\ op.writes # <<>>
    /\ LET i == op.node
           bytes == Head(op.writes)
       IN IF Fits(i, Len(bytes))
          THEN /\ files' = [files EXCEPT
                     ![i].data = (IF @ = NULL THEN <<>> ELSE @) \o bytes,
                     ![i].size = @ + Len(bytes)]
               /\ room' = room - (files[i].size + Len(bytes))
          ELSE UNCHANGED <<files, room>>
    /\ op' = [op EXCEPT !.writes = Tail(@)]

Written ==
    /\ op.kind = "append" /\ op.writes = <<>>
    /\ op' = Idle
    /\ UNCHANGED <<files, room>>

OpStep ==
    \/ NoLeaf \/ Enter \/ FileInTheWay \/ MakeParent \/ NoRoomForParent
    \/ Refused \/ Mkdir \/ Rename \/ Truncate \/ Create \/ Append1 \/ Written

------------------------------------------------------------------------------
(* Operations that only resolve their path                                  *)

Rmdir(path) ==
    LET i == Resolve(files, path) IN
    /\ i \notin {None, ROOT_IDX} /\ files[i].is_dir
    /\ Children(files, i) = {}
    /\ files' = [files EXCEPT ![i] = Empty]
    /\ UNCHANGED <<op, room>>

Delete_Anything(path) ==       \* mutant: directories too
    LET i == Resolve(files, path) IN
    /\ i \notin {None, ROOT_IDX}
    /\ files' = [files EXCEPT ![i] = Empty]
    /\ UNCHANGED <<op, room>>

Delete(path) ==
    LET i == Resolve(files, path) IN
    /\ i \notin {None, ROOT_IDX} /\ ~files[i].is_dir
    /\ files' = [files EXCEPT ![i] = Empty]
    /\ UNCHANGED <<op, room>>

BeginRename(old, new) ==
    LET i == Resolve(files, old) IN
    /\ i \notin {None, ROOT_IDX}
    /\ Begin("rename", "mv", new, i, <<>>)
    /\ UNCHANGED <<files, room>>
==============================================================================
