------------------------------- MODULE FsDisk -------------------------------
(***************************************************************************)
(* fs_save and fs_load over the disk of disk.c.  The stream of bytes that  *)
(* they write and read is a sequence of items: the header, one record for  *)
(* each node, one item for each byte of contents; a sector holds           *)
(* SECTOR_ITEMS of them, and a record does not cross the end of a sector.  *)
(*                                                                         *)
(* A save is one step per sector.  Nothing runs between two of them but    *)
(* the power may fail there, and any write may fail, which fs_save does    *)
(* not notice.  A load is one step, which a read error ends anywhere.      *)
(***************************************************************************)
EXTENDS FsTree, SequencesExt

CONSTANTS
    SECTOR_ITEMS,   \* items in a sector
    SECTORS,        \* sectors from FS_DISK_START_LBA to the end of the disk
    Garbled,        \* the record that contents give when they are read as one
    Junk            \* the byte that a record gives when it is read as contents

ASSUME DiskSizes ==
    /\ SECTOR_ITEMS \in Nat \ {0}
    /\ SECTORS \in Nat \ {0}
    /\ Junk \in Bytes

VARIABLES
    disk,       \* the sectors
    io          \* the save under way: [lba, left, ok]; ok is history

Lba == 0 .. SECTORS - 1
NoIo == [lba |-> 0, left |-> <<>>, ok |-> TRUE]
Saving == io.left # <<>>
Zeros == [what |-> "zeros"]

\* The total of bytes is written too; nothing reads it.
Header_NoRoot(f) ==     \* mutant: the root is not counted
    [what |-> "header", num_nodes |-> Cardinality(Existing(f)) - 1]
Header(f) == [what |-> "header", num_nodes |-> Cardinality(Existing(f))]
Record(f, i) == [what |-> "record", idx |-> i, is_dir |-> f[i].is_dir,
                 parent |-> f[i].parent, name |-> f[i].name, size |-> f[i].size]
Byte(b) == [what |-> "byte", byte |-> b]

\* One sequence made of part[i] for each slot i, in the order of the array.
InOrder(part) == FlattenSeq([i \in 1 .. MAX_FILES |-> part[i - 1]])

\* What fs_save writes when the files hold `contents`.
Stream(contents) ==
    <<Header(files)>>
    \o InOrder([i \in Slots |-> IF files[i].exists THEN <<Record(files, i)>> ELSE <<>>])
    \o InOrder([i \in Slots |-> [k \in 1 .. files[i].size |-> Byte(contents[i][k])]])

BeginSave ==
    /\ \E contents \in [Slots -> UNION {Reads(i) : i \in Slots}] :
          /\ \A i \in Slots : contents[i] \in Reads(i)
          /\ io' = [NoIo EXCEPT !.left = Stream(contents)]
    /\ UNCHANGED <<fsVars, disk>>

Sector(items) == [k \in 1 .. SECTOR_ITEMS |-> IF k <= Len(items) THEN items[k] ELSE Zeros]

\* io_write_flush; written is whether the drive has the sector afterwards.  It
\* does not look at what disk_write_sector returns, and that would not always
\* tell: see Ata, WriteSucceedsUnderAnError in DeviceProofs.
WriteSector(written) ==
    /\ Saving
    /\ written => io.lba \in Lba
    /\ disk' = IF written THEN [disk EXCEPT ![io.lba] = Sector(io.left)] ELSE disk
    /\ io' = [lba |-> io.lba + 1, ok |-> io.ok /\ written,
              left |-> SubSeq(io.left, SECTOR_ITEMS + 1, Len(io.left))]
    /\ UNCHANGED fsVars

------------------------------------------------------------------------------
(* fs_load, when the sectors from `bad` on cannot be read                   *)

\* disk_read_sector: no items stand for an error.
ReadSector(lba, bad) == IF lba < bad THEN disk[lba] ELSE <<>>
Readable(bad) == FlattenSeq([k \in 1 .. SECTORS |-> ReadSector(k - 1, bad)])
HasHeader(bad) == bad > 0 /\ disk[0][1].what = "header"

AsRecord(item) ==
    CASE item.what = "record" -> item
      [] item.what = "zeros" -> [idx |-> ROOT_IDX]
      [] OTHER -> Garbled
AsByte(item) == IF item.what = "byte" THEN item.byte ELSE Junk

LoadedNode(rec) ==
    [exists |-> TRUE, is_dir |-> rec.is_dir, parent |-> rec.parent,
     name |-> rec.name, size |-> rec.size, data |-> NULL]

\* The table of nodes: it stops at a record that is not there or has no slot.
Wrong(items, k) == k > Len(items) \/ AsRecord(items[k]).idx \notin Slots

PutNode(f, item) ==
    LET rec == AsRecord(item) IN
    IF rec.idx = ROOT_IDX THEN f ELSE [f EXCEPT ![rec.idx] = LoadedNode(rec)]

LoadNodes_NoReset(items, n) ==      \* mutant: the old tree stays below the new one
    LET good == Lowest({k \in 1 .. n : Wrong(items, k)} \cup {n + 1}) - 1
    IN [f |-> FoldLeft(PutNode, files, SubSeq(items, 1, good)), ok |-> good = n,
        rest |-> SubSeq(items, n + 1, Len(items)), room |-> room]

LoadNodes(items, n) ==
    LET good == Lowest({k \in 1 .. n : Wrong(items, k)} \cup {n + 1}) - 1
    IN [f |-> FoldLeft(PutNode, RootOnly, SubSeq(items, 1, good)), ok |-> good = n,
        rest |-> SubSeq(items, n + 1, Len(items)), room |-> room]

\* The contents of the next file, unless something has failed before.
LoadContents(s, i) ==
    LET n == s.f[i].size IN
    CASE ~s.ok \/ ~s.f[i].exists \/ s.f[i].is_dir \/ n = 0 -> s
      [] s.room < n -> [s EXCEPT !.ok = FALSE]
      [] Len(s.rest) < n -> [s EXCEPT !.ok = FALSE, !.room = @ - n]
      [] OTHER -> [s EXCEPT !.f[i].data = [k \in 1 .. n |-> AsByte(s.rest[k])],
                            !.rest = SubSeq(@, n + 1, Len(@)),
                            !.room = @ - n]

Loaded(bad) ==
    LET items == Readable(bad) IN
    FoldLeft(LoadContents, LoadNodes(Tail(items), Head(items).num_nodes),
             [i \in 1 .. MAX_FILES |-> i - 1])

\* No header can be read, or it is not one: the tree stays.
LoadRefused(bad) ==
    /\ ~HasHeader(bad)
    /\ UNCHANGED <<fsVars, disk, io>>

Load(bad) ==
    /\ HasHeader(bad)
    /\ files' = Loaded(bad).f
    /\ room' = Loaded(bad).room
    /\ UNCHANGED <<op, disk, io>>
==============================================================================
