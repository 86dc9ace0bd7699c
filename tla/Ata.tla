--------------------------------- MODULE Ata ---------------------------------
(***************************************************************************)
(* The disk driver of disk.c: one drive, 28-bit sector numbers, polled.    *)
(* Nothing here has a state.  A command is judged by the drive's answers:  *)
(* what its status register shows at each poll of each wait.               *)
(***************************************************************************)
EXTENDS Naturals

\* The bits of the status register; the driver looks at the first four.
Flags == {"BSY", "DRQ", "ERR", "DF", "other"}
POLLS == 100000
Statuses == [1 .. POLLS -> SUBSET Flags]

\* ata_wait_not_busy
NotBusy(s) == \E k \in 1 .. POLLS : "BSY" \notin s[k]

\* ata_wait_drq
DataRequested(s) ==
    \E k \in 1 .. POLLS : /\ "DRQ" \in s[k]
                          /\ \A j \in 1 .. k : {"ERR", "DF"} \cap s[j] = {}

------------------------------------------------------------------------------
(* disk_init: the first status after IDENTIFY, the wait for the drive, the  *)
(* registers in which a packet device signs, and the wait for its data.     *)

Identified == [first : SUBSET Flags, busy : Statuses, mid : 0 .. 255, high : 0 .. 255,
               data : Statuses]

DiskInit(a) ==
    /\ a.first # {}
    /\ NotBusy(a.busy)
    /\ a.mid = 0 /\ a.high = 0
    /\ DataRequested(a.data)

\* The drive's place is empty: every register reads the same byte, all zeros
\* or, where the bus floats, all ones.
Empty(a) ==
    \/ a.first = {}
    \/ /\ a.first = Flags /\ a.mid = 255 /\ a.high = 255
       /\ \A k \in 1 .. POLLS : a.busy[k] = Flags /\ a.data[k] = Flags

------------------------------------------------------------------------------
(* disk_read_sector and disk_write_sector                                   *)

\* The registers that take the number of the sector.
LbaRegisters(lba) ==
    [drive_head |-> 224 + ((lba \div 16777216) % 16),
     lba_low |-> lba % 256,
     lba_mid |-> (lba \div 256) % 256,
     lba_high |-> (lba \div 65536) % 256]

\* The sector the drive takes them for.
SectorOf(r) ==
    (r.drive_head % 16) * 16777216 + r.lba_high * 65536 + r.lba_mid * 256 + r.lba_low

\* One more than the last sector 28 bits can name.
LBA_LIMIT == 268435456

\* The waits before the command, after it, for the data and, in a write, for
\* the cache to reach the medium.
Answers == [before : Statuses, after : Statuses, data : Statuses, flush : Statuses]

ReadSucceeds(have_disk, a) ==
    have_disk /\ NotBusy(a.before) /\ NotBusy(a.after) /\ DataRequested(a.data)

\* The flush is waited for, but its outcome is not looked at.
WriteSucceeds(have_disk, a) ==
    have_disk /\ NotBusy(a.before) /\ NotBusy(a.after) /\ DataRequested(a.data)

\* The drive says it could not do what it was told.
ReportsError(s) == \A k \in 1 .. POLLS : "BSY" \notin s[k] /\ "ERR" \in s[k]
==============================================================================
