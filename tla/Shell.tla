-------------------------------- MODULE Shell --------------------------------
(***************************************************************************)
(* The commands of shell.c that work on files, over the file system and    *)
(* the disk, from the first prompt on.  The current directory is a string: *)
(* nothing ties it to the directory it was when `cd` looked.               *)
(*                                                                         *)
(* A command that fails without having changed anything is a stuttering    *)
(* step.  Names longer than MAX_NAME and paths longer than 127 characters  *)
(* are left out.                                                           *)
(***************************************************************************)
EXTENDS FsDisk

CONSTANTS
    BootPrograms,   \* what kernel_main puts in the root: a sequence of texts
    BootDir,        \* the directory that gopherd_main makes, and
    BootIndex,      \* the text it puts there
    Args,       \* what is typed as a path: [abs, comps]
    Commands,   \* the commands that are typed, and "crash"
    LS_MAX,     \* entries that `ls` lists (32)
    MAX_SAVES   \* bound on the saves

VARIABLES
    cwd,        \* the current directory
    tree,       \* history: what each path holds, or Damaged
    saved,      \* history: the tree that the disk holds, Blank or Broken
    saves       \* history: how many saves began

vars == <<fsVars, disk, io, cwd, tree, saved, saves>>

CONSTANTS Directory, Damaged, Blank, Broken

DEPTH == MAX_FILES - 1
Paths == UNION {[1 .. n -> Names] : n \in 0 .. DEPTH}

\* What each path that resolves holds.
TreeOf(f) ==
    [p \in {q \in Paths : Resolve(f, q) # None} |->
        LET node == f[Resolve(f, p)] IN
        IF node.is_dir THEN Directory ELSE IF node.size = 0 THEN <<>> ELSE node.data]

\* The array when the shell starts: the programs in the root, in the order in
\* which kernel_main makes them, then gopherd's directory with a file in it.
TextFile(parent, f) ==
    [Entry(FALSE, parent, f.name) EXCEPT !.size = Len(f.text), !.data = f.text]
BootNode(i) ==
    LET n == Len(BootPrograms) IN
    CASE i = ROOT_IDX -> RootNode
      [] i \in 1 .. n -> TextFile(ROOT_IDX, BootPrograms[i])
      [] i = n + 1 -> Entry(TRUE, ROOT_IDX, BootDir)
      [] i = n + 2 -> TextFile(n + 1, BootIndex)
      [] OTHER -> Empty
BootFiles == [i \in Slots |-> BootNode(i)]

\* Nothing fails at boot: there is a node for each, no two have one name, and
\* every text is as long as a file may be.
BootTexts == [name : Names, text : UNION {[1 .. n -> Bytes] : n \in 1 .. MAX_FILE_SIZE}]
ASSUME BootIsMade ==
    /\ BootPrograms \in Seq(BootTexts) /\ BootDir \in Names /\ BootIndex \in BootTexts
    /\ Len(BootPrograms) + 2 < MAX_FILES
    /\ \A i, j \in DOMAIN BootPrograms : BootPrograms[i].name = BootPrograms[j].name => i = j
    /\ \A i \in DOMAIN BootPrograms : BootPrograms[i].name # BootDir

Store == INSTANCE FsStore WITH Initial <- TreeOf(BootFiles)

ASSUME ArgsAreNames == \A arg \in Args : arg.abs \in BOOLEAN /\ arg.comps \in Seq(Names)

TypeOK ==
    /\ files \in [Slots -> Node]
    /\ op.kind \in {"none", "mkdir", "create", "rename", "append"}
    /\ op.dir \in Slots /\ op.node \in Slots \cup {None}
    /\ room \in 0 .. REGION_SIZE
    /\ io.left # <<>> => io.lba * SECTOR_ITEMS < 1 + MAX_FILES + MAX_FILES * MAX_FILE_SIZE
    /\ cwd \in Seq(Names)

Init ==
    /\ files = BootFiles
    /\ op = Idle
    /\ room = REGION_SIZE
    /\ disk = [l \in Lba |-> Sector(<<>>)]
    /\ io = NoIo
    /\ cwd = <<>>
    /\ tree = TreeOf(files)
    /\ saved = Blank
    /\ saves = 0

------------------------------------------------------------------------------
Prompt(cmd) == cmd \in Commands /\ ~Busy /\ ~Saving

\* join_path
Join(arg) == IF arg.abs THEN arg.comps ELSE cwd \o arg.comps

\* Every command but load keeps track of the tree unless it is damaged.
Follow == tree' = IF tree = Damaged THEN Damaged ELSE TreeOf(files')
Files == Follow /\ UNCHANGED <<disk, io, saved, saves>>

CmdMkdir(a) ==
    /\ Prompt("mkdir")
    /\ Begin("mkdir", "mkdir", Join(a), None, <<>>)
    /\ UNCHANGED <<files, room, cwd>> /\ Files

CmdRmdir(a) == Prompt("rmdir") /\ Rmdir(Join(a)) /\ UNCHANGED cwd /\ Files
CmdDel(a) == Prompt("rm") /\ Delete(Join(a)) /\ UNCHANGED cwd /\ Files
CmdRen(a, b) == Prompt("mv") /\ BeginRename(Join(a), Join(b)) /\ UNCHANGED cwd /\ Files

\* What `cat` prints, if it does; fs_read refuses an empty file.
Cat(path) ==
    LET i == Find(path) IN IF IsDir(i) \/ SizeOf(i) = 0 THEN {} ELSE Reads(i)

\* What `ls` lists.
Ls(path) ==
    {[name |-> files[i].name, dir |-> IsDir(i), size |-> SizeOf(i)] : i \in List(path, LS_MAX)}

CmdCopy(a, b) ==
    /\ Prompt("cp")
    /\ \E data \in Cat(Join(a)) : Begin("create", "cp", Join(b), None, <<data>>)
    /\ UNCHANGED <<files, room, cwd>> /\ Files

CmdCd(a) ==
    /\ Prompt("cd")
    /\ IsDir(Find(Join(a)))
    /\ cwd' = Join(a)
    /\ UNCHANGED <<files, op, room>> /\ Files

CmdCdUp ==
    /\ Prompt("cd")
    /\ cwd # <<>>
    /\ cwd' = Front(cwd)
    /\ UNCHANGED <<files, op, room>> /\ Files

Operation == OpStep /\ UNCHANGED cwd /\ Files

\* As soon as a sector is written the old copy is gone; the new one is there
\* when every write was done.
CmdSave ==
    /\ Prompt("save")
    /\ saves < MAX_SAVES
    /\ BeginSave
    /\ saves' = saves + 1
    /\ UNCHANGED <<cwd, tree, saved>>

SaveSector ==
    /\ \E written \in BOOLEAN : WriteSector(written)
    /\ saved' = IF io'.left = <<>> /\ io'.ok /\ tree # Damaged THEN tree ELSE Broken
    /\ UNCHANGED <<cwd, tree, saves>>

\* cmd_load; `bad` is the first sector that cannot be read.
CmdLoad ==
    /\ Prompt("load")
    /\ \E bad \in 0 .. SECTORS :
          \/ LoadRefused(bad) /\ UNCHANGED <<cwd, tree>>
          \/ /\ Load(bad)
             /\ cwd' = IF Loaded(bad).ok THEN <<>> ELSE cwd
             /\ tree' = IF Loaded(bad).ok /\ saved # Broken THEN TreeOf(files') ELSE Damaged
    /\ UNCHANGED <<saved, saves>>

\* The power fails and the machine starts again, up to the first prompt.
Crash ==
    /\ "crash" \in Commands
    /\ files' = BootFiles
    /\ op' = Idle
    /\ room' = REGION_SIZE
    /\ io' = NoIo
    /\ cwd' = <<>>
    /\ tree' = TreeOf(files')
    /\ UNCHANGED <<disk, saved, saves>>

Next ==
    \/ \E a \in Args : CmdMkdir(a) \/ CmdRmdir(a) \/ CmdDel(a) \/ CmdCd(a)
    \/ \E a, b \in Args : CmdRen(a, b) \/ CmdCopy(a, b)
    \/ CmdCdUp \/ Operation \/ CmdSave \/ SaveSector \/ CmdLoad \/ Crash

Spec == Init /\ [][Next]_vars

------------------------------------------------------------------------------
(* Properties                                                               *)

\* Whatever was made, moved or removed, what `ls` lists in a directory can be
\* opened by that name, and `cat` prints as many bytes as were listed: no entry
\* hides another one of its name, as fs_find_child would let it.
ListedEntriesOpen ==
    \A p \in Paths : \A entry \in Ls(p) :
        LET q == Append(p, entry.name) IN
        IF entry.dir THEN IsDir(Find(q))
        ELSE /\ Find(q) # None /\ ~IsDir(Find(q))
             /\ entry.size = 0 <=> Cat(q) = {}
             /\ \A text \in Cat(q) : Len(text) = entry.size

\* Every node can be reached from the root: as many paths as nodes.
AllReachable == tree # Damaged /\ Cardinality(DOMAIN tree) = Cardinality(Existing(files))

\* Whether d is i or lies below it.
Inside(d, i) ==
    LET up[k \in 0 .. MAX_FILES] ==
            IF k = 0 THEN d ELSE IF up[k - 1] = None THEN None ELSE files[up[k - 1]].parent
    IN \E k \in 0 .. MAX_FILES : up[k] = i

\* Only a rename of a directory into itself takes nodes out of the tree.
OnlyRenameIntoItselfDetaches ==
    [][AllReachable /\ ~AllReachable' => op.kind = "rename" /\ Inside(op.dir, op.node)]_vars

\* "Modelo: arbol de nodos": between two commands every node has a path.
NodesFormATree == Busy \/ AllReachable

\* A load that fails over a whole image leaves, of what was saved, less of it:
\* no path that was not there and no contents mixed up, only contents missing.
\* What the tree held before the load is lost.
FailedLoadLeavesAPart ==
    [][\A bad \in 0 .. SECTORS :
          Load(bad) /\ saved \notin {Blank, Broken} =>
              LET left == TreeOf(files') IN
              \A p \in DOMAIN left : p \in DOMAIN saved /\ left[p] \in {saved[p], NULL}]_vars

\* The file system changes as FsStore says, one path at a time, with its copy
\* on disk and whatever fails.
ImplementsStore == Store!Spec
==============================================================================
