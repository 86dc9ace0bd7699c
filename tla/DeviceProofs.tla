----------------------------- MODULE DeviceProofs -----------------------------
(* What the drivers and the allocators that are plain computations do with   *)
(* every sector, place, mode, point and size.                                *)
EXTENDS Trap, Segments, Ata, Pci, Graphics, Region, PageTables, Packets, Rtc,
        WellFoundedInduction, TLAPS

------------------------------------------------------------------------------
(* disk.c                                                                     *)

\* Every sector up to the limit of 28 bits is the one the drive is told, so no
\* two of them are ever confused: the four masks and shifts lose nothing.
THEOREM TheDriveIsToldTheSector ==
    ASSUME NEW lba \in Nat, lba < LBA_LIMIT
    PROVE  /\ SectorOf(LbaRegisters(lba)) = lba
           /\ LbaRegisters(lba) \in [drive_head : 224 .. 239, lba_low : 0 .. 255,
                                     lba_mid : 0 .. 255, lba_high : 0 .. 255]
<1> DEFINE n1 == lba \div 256
           n2 == lba \div 65536
           n3 == lba \div 16777216
<1>0. lba \in Nat /\ lba < 268435456
  BY SMT DEF LBA_LIMIT
<1>1. /\ n1 \in Nat /\ n2 \in Nat /\ n3 \in Nat
      /\ n2 = n1 \div 256 /\ n3 = n2 \div 256
  BY <1>0, SMT
<1>2. lba % 256 \in 0 .. 255 /\ lba = 256 * n1 + (lba % 256)
  BY <1>0, SMT
<1> HIDE DEF n1, n2, n3
<1>3. n1 % 256 \in 0 .. 255 /\ n1 = 256 * n2 + (n1 % 256)
  BY <1>1, SMT
<1>4. n2 % 256 \in 0 .. 255 /\ n2 = 256 * n3 + (n2 % 256)
  BY <1>1, SMT
<1>5. n3 < 16 /\ n3 % 16 = n3 /\ (224 + n3) % 16 = n3
  BY <1>0, <1>1, <1>2, <1>3, <1>4, SMT
<1>6. LbaRegisters(lba) = [drive_head |-> 224 + n3, lba_low |-> lba % 256,
                           lba_mid |-> n1 % 256, lba_high |-> n2 % 256]
  BY <1>5, SMT DEF LbaRegisters, n1, n2, n3
<1>7. lba = n3 * 16777216 + (n2 % 256) * 65536 + (n1 % 256) * 256 + (lba % 256)
  BY <1>0, <1>1, <1>2, <1>3, <1>4, SMT
<1>8. SectorOf(LbaRegisters(lba)) = lba
  BY <1>5, <1>6, <1>7, SMT DEF SectorOf
<1>9. 224 + n3 \in 224 .. 239
  BY <1>1, <1>5, SMT
<1>10. QED
  BY <1>2, <1>3, <1>4, <1>6, <1>8, <1>9, SMT

\* Beyond the limit sectors wrap around: the driver does not check.
THEOREM SectorsWrapAround ==
    \A lba \in Nat : LbaRegisters(lba + LBA_LIMIT) = LbaRegisters(lba)
<1> TAKE lba \in Nat
<1> DEFINE x == lba + LBA_LIMIT
<1>1. /\ x % 256 = lba % 256
      /\ (x \div 256) % 256 = (lba \div 256) % 256
      /\ (x \div 65536) % 256 = (lba \div 65536) % 256
      /\ (x \div 16777216) % 16 = (lba \div 16777216) % 16
  BY SMT DEF LBA_LIMIT
<1>2. QED
  BY <1>1, SMT DEF LbaRegisters

\* A place without a drive is never taken for a disk, whether its registers
\* read zeros, as the comment of disk_init expects, or the ones of a bus that
\* floats.
THEOREM AnEmptyPlaceIsNoDisk ==
    \A a \in Identified : Empty(a) => ~DiskInit(a)
<1> SUFFICES ASSUME NEW a \in Identified, Empty(a), a.first # {}, NotBusy(a.busy)
             PROVE  FALSE
  BY DEF DiskInit
<1>1. \A k \in 1 .. POLLS : a.busy[k] = Flags
  BY DEF Empty
<1>2. QED
  BY <1>1 DEF NotBusy, Flags

\* disk_write_sector can say the sector was written when the drive has reported
\* that it could not write it: the outcome of the flush is not looked at.
THEOREM WriteSucceedsUnderAnError ==
    \E a \in Answers : WriteSucceeds(TRUE, a) /\ ReportsError(a.flush)
<1> DEFINE ready == [k \in 1 .. POLLS |-> {"DRQ"}]
           failed == [k \in 1 .. POLLS |-> {"ERR"}]
           a == [before |-> ready, after |-> ready, data |-> ready, flush |-> failed]
<1>1. ready \in Statuses /\ failed \in Statuses
  BY DEF Statuses, Flags
<1>2. 1 \in 1 .. POLLS /\ 1 .. 1 \subseteq 1 .. POLLS
  BY SMT DEF POLLS
<1>3. NotBusy(ready)
  BY <1>2 DEF NotBusy
<1>4. DataRequested(ready)
  <2>1. "DRQ" \in ready[1] /\ \A j \in 1 .. 1 : {"ERR", "DF"} \cap ready[j] = {}
    BY <1>2
  <2>2. QED
    BY <1>2, <2>1 DEF DataRequested
<1>5. ReportsError(failed)
  BY DEF ReportsError
<1> HIDE DEF ready, failed
<1>6. a \in Answers
  BY <1>1 DEF Answers
<1>7. WriteSucceeds(TRUE, a) /\ ReportsError(a.flush)
  BY <1>3, <1>4, <1>5 DEF WriteSucceeds
<1>8. QED
  BY <1>6, <1>7

------------------------------------------------------------------------------
(* pci.c                                                                      *)

\* Two registers are read at one address only if they are the same register of
\* the same function: the fields of the address do not run into one another.
THEOREM RegistersAreToldApart ==
    \A p, q \in Places, i, j \in Offsets :
        PciAddress(p, i) = PciAddress(q, j) => p = q /\ i = j
<1> SUFFICES ASSUME NEW p \in Places, NEW q \in Places, NEW i \in Offsets, NEW j \in Offsets,
                    PciAddress(p, i) = PciAddress(q, j)
             PROVE  p = q /\ i = j
  OBVIOUS
<1>1. PICK b1 \in Buses, s1 \in PciSlots, f1 \in Functions : p = <<b1, s1, f1>>
  BY DEF Places
<1>2. PICK b2 \in Buses, s2 \in PciSlots, f2 \in Functions : q = <<b2, s2, f2>>
  BY DEF Places
<1>3. b1 * 65536 + s1 * 2048 + f1 * 256 + i = b2 * 65536 + s2 * 2048 + f2 * 256 + j
  BY <1>1, <1>2, SMT DEF PciAddress, Offsets, Buses, PciSlots, Functions
<1>4. i = j /\ f1 = f2 /\ s1 = s2 /\ b1 = b2
  BY <1>3, SMT DEF Offsets, Buses, PciSlots, Functions
<1>5. QED
  BY <1>1, <1>2, <1>4

\* A set of numbers that is not empty has a smallest one.
LEMMA Smallest ==
    ASSUME NEW T, T \subseteq Nat, T # {}
    PROVE  \E m \in T : \A n \in T : m <= n
<1>1. PICK m \in T : \A n \in T : ~ (<<n, m>> \in OpToRel(<, Nat))
  BY WFMin, NatLessThanWellFounded, Zenon
<1>2. \A n \in T : ~ (n < m)
  BY <1>1, Zenon DEF OpToRel
<1>3. QED
  BY <1>2

\* When the card is there, what pci_find_device fills in is the description of
\* one such card, and of the first the loops come to.
THEOREM FindsTheFirst ==
    ASSUME NEW space, NEW vendor, NEW device,
           Sought(space, vendor, device) # {}
    PROVE  \E place \in Sought(space, vendor, device) :
               /\ IsFirst(place, Sought(space, vendor, device))
               /\ PciFindDevice(space, vendor, device) = DeviceAt(space, place)
<1> DEFINE sought == Sought(space, vendor, device)
           visits == {Visit(place) : place \in sought}
<1>1. \A place \in sought : Visit(place) \in Nat
  <2> SUFFICES ASSUME NEW place \in Places
               PROVE  Visit(place) \in Nat
    BY DEF Sought
  <2>1. PICK b \in Buses, s \in PciSlots, f \in Functions : place = <<b, s, f>>
    BY DEF Places
  <2>2. Visit(place) = b * 256 + s * 8 + f
    BY <2>1 DEF Visit
  <2>3. QED
    BY <2>2 DEF Buses, PciSlots, Functions
<1>2. visits \subseteq Nat /\ visits # {}
  BY <1>1
<1>3. PICK m \in visits : \A n \in visits : m <= n
  BY <1>2, Smallest
<1>4. PICK place \in sought : Visit(place) = m
  BY <1>3
<1>5. IsFirst(place, sought)
  BY <1>3, <1>4 DEF IsFirst
<1> DEFINE first == CHOOSE p \in sought : IsFirst(p, sought)
<1>6. first \in sought /\ IsFirst(first, sought)
  BY <1>5
<1>7. PciFindDevice(space, vendor, device) = DeviceAt(space, first)
  BY DEF PciFindDevice
<1>8. QED
  BY <1>6, <1>7

\* Letting the card use the memory sets two bits of its command register and
\* leaves every other bit of the word as it was.
THEOREM MasteringKeepsTheRest ==
    \A cmd \in Word :
        /\ Mastering(cmd) \in Word
        /\ Mastering(cmd) % 2 = 1 /\ (Mastering(cmd) \div 4) % 2 = 1
        /\ (Mastering(cmd) \div 2) % 2 = (cmd \div 2) % 2
        /\ Mastering(cmd) \div 8 = cmd \div 8
<1> TAKE cmd \in Word
<1> DEFINE high == cmd \div 8
           low == cmd % 8
<1>0. cmd \in Nat /\ cmd < 4294967296
  BY SMT DEF Word
<1>1. high \in Nat /\ high < 536870912 /\ cmd = 8 * high + low /\ low \in 0 .. 7
  BY <1>0, SMT
<1>2. /\ cmd % 2 = low % 2 /\ (cmd \div 2) % 2 = (low \div 2) % 2
      /\ (cmd \div 4) % 2 = low \div 4
  BY <1>0, SMT
<1> HIDE DEF high, low
<1> DEFINE set == low + (IF low % 2 = 1 THEN 0 ELSE 1) + (IF low \div 4 = 1 THEN 0 ELSE 4)
           m == Mastering(cmd)
<1>3. /\ set \in 0 .. 7 /\ set % 2 = 1 /\ set \div 4 = 1
      /\ (set \div 2) % 2 = (low \div 2) % 2
  BY <1>1, SMT
<1>4. m = 8 * high + set
  BY <1>0, <1>1, <1>2, SMT DEF Mastering
<1> HIDE DEF set, m
<1>5. /\ m \in Nat /\ m < 4294967296 /\ m % 2 = set % 2 /\ m \div 8 = high
      /\ (m \div 2) % 2 = (set \div 2) % 2 /\ (m \div 4) % 2 = set \div 4
  BY <1>1, <1>3, <1>4, SMT
<1>6. m \in Word
  BY <1>5, SMT DEF Word
<1>7. QED
  BY <1>2, <1>3, <1>5, <1>6 DEF m, high

------------------------------------------------------------------------------
(* graphics.c                                                                 *)

\* A pixel's byte is in the frame buffer, and its row and column are read off
\* it: no pixel runs over the end of its line.
LEMMA PixelIsItsPlace ==
    ASSUME NEW x \in Int, NEW y \in Int, NEW n \in Frame
    PROVE  n \in PixelAt(x, y) <=> n % 320 = x /\ n \div 320 = y
<1>1. n \in Nat /\ n < 64000
  BY SMT DEF Frame, WIDTH, HEIGHT
<1>2. n % 320 \in 0 .. 319 /\ n \div 320 \in 0 .. 199 /\ n = (n \div 320) * 320 + (n % 320)
  BY <1>1, SMT
<1>3. ASSUME OnScreen(x, y), n = y * 320 + x
      PROVE  n % 320 = x /\ n \div 320 = y
  BY <1>3 DEF OnScreen, WIDTH, HEIGHT
<1>4. ASSUME n % 320 = x, n \div 320 = y
      PROVE  OnScreen(x, y) /\ n = y * 320 + x
  BY <1>1, <1>2, <1>4, SMT DEF OnScreen, WIDTH, HEIGHT
<1>5. n \in PixelAt(x, y) <=> OnScreen(x, y) /\ n = y * 320 + x
  BY DEF PixelAt, WIDTH
<1>6. QED
  BY <1>3, <1>4, <1>5

\* Whatever point a program names in its system call, on the screen or off it,
\* at most one byte is written and it is one of the frame buffer.
THEOREM DrawingStaysInTheFrame ==
    \A x, y \in Int : PixelAt(x, y) \subseteq Frame
<1> TAKE x, y \in Int
<1>1. CASE OnScreen(x, y)
  <2>1. x \in Int /\ y \in Int /\ 0 <= x /\ x < 320 /\ 0 <= y /\ y < 200
    BY <1>1, SMT DEF OnScreen, WIDTH, HEIGHT
  <2>2. y * 320 + x \in Nat /\ y * 320 + x < 64000
    BY <2>1, SMT
  <2>3. QED
    BY <2>2, <1>1, SMT DEF PixelAt, Frame, WIDTH, HEIGHT
<1>2. CASE ~OnScreen(x, y)
  BY <1>2 DEF PixelAt
<1>3. QED
  BY <1>1, <1>2

\* A rectangle is drawn where it meets the screen and nowhere else: the part
\* that sticks out is cut off and does not come back in at the other side.
THEOREM RectIsClipped ==
    \A x, y, w, h \in Int :
        Rect(x, y, w, h) =
            {n \in Frame : /\ x <= n % 320 /\ n % 320 < x + w
                           /\ y <= n \div 320 /\ n \div 320 < y + h}
<1> TAKE x, y, w, h \in Int
<1>1. Rect(x, y, w, h) \subseteq Frame
  BY DrawingStaysInTheFrame DEF Rect, Hline
<1>2. ASSUME NEW n \in Frame
      PROVE  n \in Rect(x, y, w, h) <=>
                 /\ x <= n % 320 /\ n % 320 < x + w
                 /\ y <= n \div 320 /\ n \div 320 < y + h
  <2> DEFINE col == n % 320
             row == n \div 320
  <2>1. col \in Int /\ row \in Int
    <3>1. n \in Nat
      BY SMT DEF Frame
    <3>2. QED
      BY <3>1
  <2>2. n \in Rect(x, y, w, h) <=>
            \E j \in 0 .. h - 1 : \E i \in 0 .. w - 1 : n \in PixelAt(x + i, y + j)
    BY DEF Rect, Hline
  <2>3. \A j \in 0 .. h - 1, i \in 0 .. w - 1 :
            n \in PixelAt(x + i, y + j) <=> col = x + i /\ row = y + j
    BY PixelIsItsPlace
  <2> HIDE DEF col, row
  <2>4. ASSUME x <= col, col < x + w, y <= row, row < y + h
        PROVE  n \in Rect(x, y, w, h)
    <3>1. /\ row - y \in 0 .. h - 1 /\ col - x \in 0 .. w - 1
          /\ col = x + (col - x) /\ row = y + (row - y)
      BY <2>1, <2>4
    <3>2. QED
      BY <2>2, <2>3, <3>1
  <2>5. ASSUME n \in Rect(x, y, w, h)
        PROVE  x <= col /\ col < x + w /\ y <= row /\ row < y + h
    <3>1. PICK j \in 0 .. h - 1, i \in 0 .. w - 1 : col = x + i /\ row = y + j
      BY <2>2, <2>3, <2>5
    <3>2. QED
      BY <3>1, <2>1
  <2>6. QED
    BY <2>4, <2>5 DEF col, row
<1>3. QED
  BY <1>1, <1>2

\* What "& 0x7F" leaves of the register that holds the lock.
LEMMA BitIsCleared ==
    \A v \in 0 .. 255 : WithoutBit7(v) \in 0 .. 127 /\ ~(WithoutBit7(v) >= 128)
BY DEF WithoutBit7

\* Its first eight registers are unlocked before the table is written.
LEMMA TheLockIsTakenOff ==
    ASSUME NEW crtc \in [0 .. 24 -> 0 .. 255]
    PROVE  ~Protected(Unlocked(crtc))
<1> DEFINE retraced == WriteCrtc(crtc, 3, WithBit7(crtc[3]))
<1>1. crtc[3] \in 0 .. 255 /\ crtc[17] \in 0 .. 255
  OBVIOUS
<1>2. retraced[17] = crtc[17] /\ 17 \in DOMAIN retraced
  BY DEF WriteCrtc
<1> HIDE DEF retraced
<1>3. Unlocked(crtc) = [retraced EXCEPT ![17] = WithoutBit7(retraced[17])]
  BY DEF Unlocked, WriteCrtc, retraced
<1>4. Unlocked(crtc)[17] = WithoutBit7(crtc[17])
  BY <1>2, <1>3
<1>5. QED
  BY <1>1, <1>4, BitIsCleared DEF Protected

\* After a change of mode the CRT controller holds what the table says, whatever
\* it held before and whether or not it was locked: the lock is off by the time
\* the first eight registers are written, and it stays off for the next change.
THEOREM ModeTakesEffect ==
    ASSUME NEW vga, vga.crtc \in [0 .. 24 -> 0 .. 255],
           NEW regs \in [1 .. REGISTERS -> 0 .. 255]
    PROVE  /\ WriteRegisters(vga, regs).crtc = CrtcOf(regs)
           /\ ~Protected(WriteRegisters(vga, regs).crtc)
<1> DEFINE unlocked == Unlocked(vga.crtc)
<1>1. ~Protected(unlocked)
  BY TheLockIsTakenOff
<1> HIDE DEF unlocked
<1>2. CrtcWritten(unlocked, regs) = CrtcOf(regs)
  BY <1>1 DEF CrtcWritten, CrtcOf
<1>3. WriteRegisters(vga, regs).crtc = CrtcOf(regs)
  BY <1>2 DEF WriteRegisters, unlocked
<1>4. regs[24] \in 0 .. 255
  <2>1. 24 \in 1 .. REGISTERS
    BY DEF REGISTERS
  <2>2. QED  BY <2>1
<1>5. CrtcOf(regs)[17] = WithoutBit7(regs[24])
  BY DEF CrtcOf
<1>6. ~(CrtcOf(regs)[17] >= 128)
  BY <1>4, <1>5, BitIsCleared
<1>7. QED
  BY <1>3, <1>6 DEF Protected

------------------------------------------------------------------------------
(* memory.c                                                                   *)

\* A region has the room that was asked for, behind its header and inside the
\* pages it took, for every size that does not wrap around.
THEOREM RegionHoldsWhatWasAsked ==
    ASSUME NEW capacity \in Nat, capacity + HEADER + REGION_PAGE <= SIZES
    PROVE  /\ IsRegion(RegionNew(capacity))
           /\ capacity <= RegionNew(capacity).capacity
           /\ RegionNew(capacity).capacity < capacity + REGION_PAGE
<1> DEFINE n == capacity + 24
           up == n + 4095
           pages == up \div 4096
<1>1. n < 4294967296 /\ up < 4294967296
  BY SMT DEF HEADER, REGION_PAGE, SIZES
<1>2. n % 4294967296 = n /\ up % 4294967296 = up
  BY <1>1, SMT
<1>3. up - (up % 4096) = 4096 * pages /\ pages \in Nat
  BY SMT
<1>4. (4096 * pages) \div 4096 = pages
  BY <1>3, SMT
<1>5. RegionPages(capacity) = pages
  BY <1>2, <1>3, <1>4, SMT DEF RegionPages, Aligned, HEADER, REGION_PAGE, SIZES
<1>6. n <= 4096 * pages /\ 4096 * pages < n + 4096 /\ 1 <= pages /\ pages < 1048576
  BY <1>1, SMT
<1> HIDE DEF n, up, pages
<1>7. RegionNew(capacity) = [used |-> 0, capacity |-> pages * 4096 - 24, backing_pages |-> pages]
  BY <1>5, SMT DEF RegionNew, REGION_PAGE, HEADER
<1>8. /\ capacity <= pages * 4096 - 24 /\ pages * 4096 - 24 < capacity + 4096
      /\ 0 \in 0 .. pages * 4096 - 24 /\ 0 % 8 = 0
  BY <1>3, <1>6, SMT DEF n
<1>9. QED
  BY <1>3, <1>6, <1>7, <1>8, SMT DEF IsRegion, REGION_PAGE, HEADER

\* The blocks of a region never overlap and never leave it: a block begins where
\* the ones before it end, ends within the region and, for every size that does
\* not wrap around, has all the bytes that were asked for.
THEOREM BlocksAreApart ==
    ASSUME NEW r, IsRegion(r), NEW size \in Nat, size + 7 + r.used < SIZES, Grants(r, size)
    PROVE  /\ Block(r, size) \subseteq r.used .. RegionAlloc(r, size).used - 1
           /\ RegionAlloc(r, size).used <= r.capacity
           /\ r.used <= RegionAlloc(r, size).used
           /\ IsRegion(RegionAlloc(r, size))
<1> DEFINE up == size + 7
           block == up - (up % 8)
           used == r.used
<1>1. used \in Nat /\ used <= r.capacity /\ used % 8 = 0 /\ r.capacity \in Int
  BY SMT DEF IsRegion, REGION_PAGE, HEADER
<1>2. up < 4294967296 /\ used + up < 4294967296 /\ up \in Nat
  BY <1>1, SMT DEF SIZES
<1>3. Aligned(size, 8) = block
  BY <1>2, SMT DEF Aligned, SIZES
<1>4. block \in Nat /\ size <= block /\ block <= up /\ block % 8 = 0
  BY SMT
<1> HIDE DEF up, block, used
<1>5. used + block < 4294967296 /\ (used + block) % 4294967296 = used + block
  BY <1>1, <1>2, <1>4, SMT
<1>6. used + block <= r.capacity
  BY <1>3, <1>5, SMT DEF Grants, SIZES, used
<1>7. (used + block) % 8 = 0
  BY <1>1, <1>4, SMT
<1>8. RegionAlloc(r, size) =
          [used |-> used + block, capacity |-> r.capacity, backing_pages |-> r.backing_pages]
  BY <1>3, SMT DEF RegionAlloc, used
<1>9. Block(r, size) \subseteq used .. used + block - 1
  BY <1>1, <1>4, SMT DEF Block, used
<1>10. used + block \in 0 .. r.capacity
  BY <1>1, <1>4, <1>6, SMT
<1>11. IsRegion(RegionAlloc(r, size))
  BY <1>7, <1>8, <1>10, SMT DEF IsRegion
<1>12. QED
  BY <1>1, <1>4, <1>6, <1>8, <1>9, <1>11 DEF used

------------------------------------------------------------------------------
(* paging.c                                                                   *)

\* Every page that has a table has an entry of its own.
LEMMA EntriesOfPages ==
    /\ \A p \in Nat : HasEntry(p) => EntryOf(p) \in Entries
    /\ \A p, q \in Nat : EntryOf(p) = EntryOf(q) => p = q
    /\ \A p \in Nat : HasEntry(p) <=> p < MAPPED_PAGES
    /\ \A a \in Nat : PageOf(a) \in Nat
<1>1. \A p \in Nat : HasEntry(p) => EntryOf(p) \in Entries
  <2> SUFFICES ASSUME NEW p \in Nat, HasEntry(p) PROVE EntryOf(p) \in Entries
    OBVIOUS
  <2>1. /\ p \div 1024 \in Nat /\ p \div 1024 < NUM_PAGE_TABLES
        /\ p % 1024 \in Nat /\ p % 1024 < 1024
    BY SMT DEF HasEntry, PAGES_PER_TABLE
  <2>2. QED
    BY <2>1, SMT DEF EntryOf, Entries, PAGES_PER_TABLE
<1>2. \A p, q \in Nat : EntryOf(p) = EntryOf(q) => p = q
  <2> SUFFICES ASSUME NEW p \in Nat, NEW q \in Nat, EntryOf(p) = EntryOf(q) PROVE p = q
    OBVIOUS
  <2>1. p \div 1024 = q \div 1024 /\ p % 1024 = q % 1024
    BY SMT DEF EntryOf, PAGES_PER_TABLE
  <2>2. p = 1024 * (p \div 1024) + (p % 1024) /\ q = 1024 * (q \div 1024) + (q % 1024)
    BY SMT
  <2>3. QED
    BY <2>1, <2>2, SMT
<1>3. \A p \in Nat : HasEntry(p) <=> p < MAPPED_PAGES
  BY SMT DEF HasEntry, PAGES_PER_TABLE, NUM_PAGE_TABLES, MAPPED_PAGES
<1>4. \A a \in Nat : PageOf(a) \in Nat
  BY SMT DEF PageOf, PAGE_SIZE_4K
<1>5. QED
  BY <1>1, <1>2, <1>3, <1>4, SMT

\* What an address of ring 3 meets after a grant: the entry of its page, opened
\* when the loop comes to the page.
LEMMA EntryAfterGrant ==
    ASSUME NEW tables, NEW start, NEW size, NEW p \in Nat, HasEntry(p)
    PROVE  GrantIn(tables, start, size, TRUE)[EntryOf(p)] =
              IF p \in LoopPages(start, size)
              THEN WithUser(tables[EntryOf(p)], TRUE)
              ELSE tables[EntryOf(p)]
<1>1. EntryOf(p) \in Entries
  BY EntriesOfPages
<1>2. (\E q \in LoopPages(start, size) : EntryOf(p) = EntryOf(q)) <=> p \in LoopPages(start, size)
  BY EntriesOfPages DEF LoopPages
<1>3. QED
  BY <1>1, <1>2 DEF GrantIn

\* A grant of at least one byte that ends below 4 GB opens to ring 3 the pages
\* that hold a byte of the range, whole, and no other page (paging.c:85); what it
\* opens stays where it was.
THEOREM GrantOpensThePagesOfTheRange ==
    ASSUME NEW tables \in Tables, NEW start \in Nat, NEW size \in Nat \ {0},
           start + size + PAGE_SIZE_4K <= ADDRESSES,
           NEW addr \in Nat, HasEntry(PageOf(addr))
    PROVE  /\ UserMay(GrantIn(tables, start, size, TRUE), addr) <=>
                 \/ UserMay(tables, addr)
                 \/ \E b \in Nat : start <= b /\ b < start + size /\ PageOf(b) = PageOf(addr)
           /\ Translate(GrantIn(tables, start, size, TRUE), addr) = Translate(tables, addr)
<1> DEFINE after == GrantIn(tables, start, size, TRUE)
           p == PageOf(addr)
           first == start \div 4096
           last == (start + size - 1) \div 4096
<1>0. p \in Nat /\ HasEntry(p) /\ EntryOf(p) \in Entries
  BY EntriesOfPages, SMT
<1>1. EndPage(start, size) = last + 1
  <2>1. (start + size + 4095) % 4294967296 = start + size + 4095
    BY SMT DEF PAGE_SIZE_4K, ADDRESSES
  <2>2. (start + size + 4095) \div 4096 = last + 1
    BY SMT
  <2>3. (start + size + 4096 - 1) % 4294967296 = start + size + 4095
    BY <2>1, SMT
  <2>4. QED
    BY <2>2, <2>3, SMT DEF EndPage, PageOf, PAGE_SIZE_4K, ADDRESSES
<1>2. /\ first \in Nat /\ last \in Nat
      /\ first * 4096 <= start /\ start < first * 4096 + 4096
      /\ last * 4096 <= start + size - 1 /\ start + size - 1 < last * 4096 + 4096
  BY SMT
<1>3. p \in LoopPages(start, size) <=> first <= p /\ p <= last
  <2>1. p \in LoopPages(start, size) <=> first <= p /\ p < last + 1
    BY <1>0, <1>1, SMT DEF LoopPages, PageOf, PAGE_SIZE_4K
  <2> HIDE DEF p, first, last
  <2>2. QED
    BY <2>1, <1>0, <1>2, SMT
<1>4. (first <= p /\ p <= last) <=>
          \E b \in Nat : start <= b /\ b < start + size /\ PageOf(b) = p
  <2>1. ASSUME first <= p, p <= last
        PROVE  \E b \in Nat : start <= b /\ b < start + size /\ PageOf(b) = p
    <3> DEFINE b == IF p = first THEN start ELSE p * 4096
    <3> HIDE DEF p, last
    <3>1. b \in Nat /\ start <= b /\ b < start + size
      BY <2>1, <1>0, <1>2, SMT
    <3>2. b \div 4096 = p
      BY <1>0, SMT
    <3>3. QED
      BY <3>1, <3>2, SMT DEF PageOf, PAGE_SIZE_4K
  <2>2. ASSUME NEW b \in Nat, start <= b, b < start + size, PageOf(b) = p
        PROVE  first <= p /\ p <= last
    <3>1. p = b \div 4096
      BY <2>2, SMT DEF PageOf, PAGE_SIZE_4K
    <3>2. p * 4096 <= b /\ b < p * 4096 + 4096
      BY <3>1, SMT
    <3> HIDE DEF p, first, last
    <3>3. QED
      BY <3>2, <2>2, <1>0, <1>2, SMT
  <2>3. QED
    BY <2>1, <2>2, SMT
<1> HIDE DEF p, first, last
<1>5. after[EntryOf(p)] = IF p \in LoopPages(start, size)
                          THEN WithUser(tables[EntryOf(p)], TRUE)
                          ELSE tables[EntryOf(p)]
  BY <1>0, EntryAfterGrant
<1> HIDE DEF after
<1>6. tables[EntryOf(p)] \in Ptes
  BY <1>0, SMT DEF Tables
<1>7. after[EntryOf(p)].us <=> tables[EntryOf(p)].us \/ p \in LoopPages(start, size)
  BY <1>5, <1>6, SMT DEF Ptes, WithUser
<1>8. after[EntryOf(p)].phys = tables[EntryOf(p)].phys
  BY <1>5, <1>6, SMT DEF Ptes, WithUser
<1>9. UserMay(after, addr) <=>
          \/ UserMay(tables, addr)
          \/ \E b \in Nat : start <= b /\ b < start + size /\ PageOf(b) = PageOf(addr)
  BY <1>0, <1>3, <1>4, <1>7, SMT DEF UserMay, p
<1>10. Translate(after, addr) = Translate(tables, addr)
  BY <1>8 DEF Translate, p
<1>11. QED
  BY <1>9, <1>10 DEF after

\* A new directory leads every address of its 32 MB to itself, and opens to ring 3
\* the shared code and nothing else.
THEOREM NewTablesOpenTheSharedCode ==
    ASSUME NEW code \in Nat, NEW size \in Nat, code + size + PAGE_SIZE_4K <= ADDRESSES,
           NEW addr \in Nat, HasEntry(PageOf(addr))
    PROVE  /\ Translate(NewTables(code, size), addr) = addr
           /\ UserMay(NewTables(code, size), addr) <=>
                 \E b \in Nat : code <= b /\ b < code + size /\ PageOf(b) = PageOf(addr)
<1> DEFINE p == PageOf(addr)
<1>1. IdentityMap \in Tables
  <2>1. \A e \in Entries : e[1] * TABLE_SPAN + e[2] * PAGE_SIZE_4K \in Nat
    BY SMT DEF Entries, PAGE_SIZE_4K, TABLE_SPAN
  <2>2. QED
    BY <2>1, SMT DEF IdentityMap, Tables, Ptes
<1>2. p \in Nat /\ EntryOf(p) \in Entries
  BY EntriesOfPages, SMT
<1>3. IdentityMap[EntryOf(p)] =
          [phys |-> (p \div PAGES_PER_TABLE) * TABLE_SPAN + (p % PAGES_PER_TABLE) * PAGE_SIZE_4K,
           rw |-> TRUE, us |-> FALSE]
  <2>1. EntryOf(p)[1] = p \div PAGES_PER_TABLE /\ EntryOf(p)[2] = p % PAGES_PER_TABLE
    BY DEF EntryOf
  <2>2. IdentityMap[EntryOf(p)] =
          [phys |-> EntryOf(p)[1] * TABLE_SPAN + EntryOf(p)[2] * PAGE_SIZE_4K,
           rw |-> TRUE, us |-> FALSE]
    BY <1>2 DEF IdentityMap
  <2>3. QED
    BY <2>1, <2>2
<1>4. Translate(IdentityMap, addr) = addr
  <2>1. addr = p * 4096 + (addr % 4096)
    BY SMT DEF PageOf, PAGE_SIZE_4K
  <2>2. p * 4096 = (p \div 1024) * 4194304 + (p % 1024) * 4096
    <3> HIDE DEF p
    <3>1. p = (p \div 1024) * 1024 + (p % 1024)
      BY <1>2, SMT
    <3>2. QED
      BY <3>1, <1>2, SMT
  <2>3. QED
    BY <1>3, <2>1, <2>2, SMT DEF Translate, PAGE_SIZE_4K, PAGES_PER_TABLE, TABLE_SPAN
<1>5. ~UserMay(IdentityMap, addr)
  BY <1>3, SMT DEF UserMay
<1>6. CASE size = 0
  <2>1. NewTables(code, size) = IdentityMap
    BY <1>6, SMT DEF NewTables
  <2>2. ~\E b \in Nat : code <= b /\ b < code + size /\ PageOf(b) = PageOf(addr)
    BY <1>6, SMT
  <2>3. QED
    BY <2>1, <2>2, <1>4, <1>5, SMT
<1>7. CASE size # 0
  <2>1. size > 0 /\ size \in Nat \ {0}
    BY <1>7
  <2>2. NewTables(code, size) = GrantIn(IdentityMap, code, size, TRUE)
    BY <2>1 DEF NewTables
  <2>3. /\ UserMay(GrantIn(IdentityMap, code, size, TRUE), addr) <=>
              \/ UserMay(IdentityMap, addr)
              \/ \E b \in Nat : code <= b /\ b < code + size /\ PageOf(b) = PageOf(addr)
        /\ Translate(GrantIn(IdentityMap, code, size, TRUE), addr) = Translate(IdentityMap, addr)
    BY <1>1, <2>1, GrantOpensThePagesOfTheRange, Zenon
  <2>4. QED
    BY <1>4, <1>5, <2>2, <2>3
<1>8. QED
  BY <1>6, <1>7, SMT

\* paging_map_page moves the page of one address and no other: the address leads
\* into the frame, at the same place in the page, with the rights asked for.
THEOREM MapMovesOnePage ==
    ASSUME NEW tables \in Tables, NEW virt \in Nat, HasEntry(PageOf(virt)), NEW phys \in Nat,
           NEW user \in BOOLEAN, NEW writable \in BOOLEAN,
           NEW addr \in Nat, HasEntry(PageOf(addr))
    PROVE  LET after == MapPage(tables, virt, phys, user, writable)
           IN IF PageOf(addr) = PageOf(virt)
              THEN /\ Translate(after, addr) = PageOf(phys) * PAGE_SIZE_4K + (addr % PAGE_SIZE_4K)
                   /\ UserMay(after, addr) = user
                   /\ UserMayWrite(after, addr) = (user /\ writable)
              ELSE /\ Translate(after, addr) = Translate(tables, addr)
                   /\ UserMay(after, addr) = UserMay(tables, addr)
<1> DEFINE after == MapPage(tables, virt, phys, user, writable)
<1>1. /\ PageOf(addr) \in Nat /\ PageOf(virt) \in Nat
      /\ EntryOf(PageOf(addr)) \in Entries /\ EntryOf(PageOf(virt)) \in Entries
  BY EntriesOfPages, SMT
<1>2. EntryOf(PageOf(addr)) = EntryOf(PageOf(virt)) <=> PageOf(addr) = PageOf(virt)
  BY <1>1, EntriesOfPages, SMT
<1>3. after[EntryOf(PageOf(addr))] =
          IF PageOf(addr) = PageOf(virt)
          THEN [phys |-> phys - (phys % PAGE_SIZE_4K), rw |-> writable, us |-> user]
          ELSE tables[EntryOf(PageOf(addr))]
  BY <1>1, <1>2, SMT DEF MapPage, Tables
<1>4. phys - (phys % PAGE_SIZE_4K) = PageOf(phys) * PAGE_SIZE_4K
  BY SMT DEF PageOf, PAGE_SIZE_4K
<1>5. CASE PageOf(addr) = PageOf(virt)
  BY <1>3, <1>4, <1>5, SMT DEF Translate, UserMay, UserMayWrite
<1>6. CASE PageOf(addr) # PageOf(virt)
  BY <1>3, <1>6, SMT DEF Translate, UserMay
<1>7. QED
  BY <1>5, <1>6, SMT

------------------------------------------------------------------------------
(* netdefs.h                                                                  *)

\* Half words: what HTONS stores is read from the wire high byte first, and NTOHS
\* gives the value back.
THEOREM SwapsHalfWords ==
    \A v \in Nat : v < HALF =>
        /\ InMemory16(Swap16(v)) = <<v \div BYTE, v % BYTE>>
        /\ Swap16(Swap16(v)) = v
<1> SUFFICES ASSUME NEW v \in Nat, v < HALF
             PROVE  /\ InMemory16(Swap16(v)) = <<v \div BYTE, v % BYTE>>
                    /\ Swap16(Swap16(v)) = v
  OBVIOUS
<1> DEFINE h == v \div 256
           l == v % 256
<1>1. h \in 0 .. 255 /\ l \in 0 .. 255 /\ v = h * 256 + l
  BY SMT DEF HALF
<1> HIDE DEF h, l
<1>2. (v * 256) % 65536 = l * 256
  BY <1>1, SMT
<1>3. v \div 256 = h /\ v % 256 = l
  BY SMT DEF h, l
<1>4. Swap16(v) = l * 256 + h
  BY <1>2, <1>3, SMT DEF Swap16, BYTE, HALF
<1>5. Swap16(v) % 256 = h /\ Swap16(v) \div 256 = l /\ (Swap16(v) * 256) % 65536 = h * 256
  BY <1>1, <1>4, SMT
<1>6. InMemory16(Swap16(v)) = <<h, l>>
  BY <1>5, SMT DEF InMemory16, BYTE
<1>7. Swap16(Swap16(v)) = v
  BY <1>1, <1>5, SMT DEF Swap16, BYTE, HALF
<1>8. QED
  BY <1>3, <1>6, <1>7, SMT DEF BYTE

\* The bytes of a word, got by the shifts and masks of net_bswap32.
Splits(v, a, b, c, d) ==
    /\ v % BYTE = d /\ (v \div BYTE) % BYTE = c /\ (v \div HALF) % BYTE = b
    /\ v \div BYTE3 = a /\ (v \div BYTE3) % BYTE = a

LEMMA BytesOfAWord ==
    \A a, b, c, d \in 0 .. 255 : Splits(WordOf(a, b, c, d), a, b, c, d)
<1> TAKE a, b, c, d \in 0 .. 255
<1> DEFINE v == WordOf(a, b, c, d)
           n2 == a * 256 + b
           n1 == n2 * 256 + c
<1>1. n2 \in Nat /\ n2 \div 256 = a /\ n2 % 256 = b
  BY SMT
<1>2. n1 \in Nat /\ n1 \div 256 = n2 /\ n1 % 256 = c
  <2> HIDE DEF n2
  <2>1. QED
    BY <1>1, SMT
<1>3. v = n1 * 256 + d
  BY SMT DEF WordOf, BYTE, HALF, BYTE3
<1> HIDE DEF n1, n2, v
<1>4. v \in Nat /\ v \div 256 = n1 /\ v % 256 = d
  BY <1>2, <1>3, SMT
<1>5. v \div 65536 = (v \div 256) \div 256 /\ v \div 16777216 = ((v \div 256) \div 256) \div 256
  BY <1>4, SMT
<1>6. a % 256 = a
  BY SMT
<1>7. /\ v % 256 = d /\ (v \div 256) % 256 = c /\ (v \div 65536) % 256 = b
      /\ v \div 16777216 = a /\ (v \div 16777216) % 256 = a
  BY <1>1, <1>2, <1>4, <1>5, <1>6, SMT
<1>8. QED
  BY <1>7, SMT DEF Splits, v, BYTE, HALF, BYTE3

\* Words: the same of HTONL and NTOHL.
THEOREM SwapsWords ==
    \A a, b, c, d \in 0 .. 255 :
        /\ InMemory32(Swap32(WordOf(a, b, c, d))) = <<a, b, c, d>>
        /\ Swap32(Swap32(WordOf(a, b, c, d))) = WordOf(a, b, c, d)
<1> TAKE a, b, c, d \in 0 .. 255
<1>1. Splits(WordOf(a, b, c, d), a, b, c, d) /\ Splits(WordOf(d, c, b, a), d, c, b, a)
  BY BytesOfAWord
<1>2. Swap32(WordOf(a, b, c, d)) = WordOf(d, c, b, a)
  BY <1>1, Zenon DEF Swap32, Splits
<1>3. Swap32(WordOf(d, c, b, a)) = WordOf(a, b, c, d)
  BY <1>1, Zenon DEF Swap32, Splits
<1>4. InMemory32(WordOf(d, c, b, a)) = <<a, b, c, d>>
  BY <1>1, Zenon DEF InMemory32, Splits
<1>5. QED
  BY <1>2, <1>3, <1>4, Zenon

\* A sum of 32 bits has 16 after two rounds of the loop, which then ends
\* (netdefs.h:65, netdefs.h:83).
THEOREM TwoRoundsFold ==
    \A sum \in Nat : sum < HALF * HALF =>
        Folded(sum) \in Nat /\ Folded(sum) < HALF /\ Round(Folded(sum)) = Folded(sum)
<1> SUFFICES ASSUME NEW sum \in Nat, sum < HALF * HALF
             PROVE  Folded(sum) \in Nat /\ Folded(sum) < HALF /\ Round(Folded(sum)) = Folded(sum)
  OBVIOUS
<1>1. sum < 4294967296
  BY SMT DEF HALF
<1>2. Round(sum) \in Nat /\ Round(sum) <= 131070
  BY <1>1, SMT DEF Round, HALF
<1>3. Folded(sum) \in Nat /\ Folded(sum) < 65536
  BY <1>2, SMT DEF Folded, Round, HALF
<1>4. Round(Folded(sum)) = Folded(sum)
  BY <1>3, SMT DEF Round, HALF
<1>5. QED
  BY <1>3, <1>4, SMT DEF HALF

\* A round keeps the remainder by 65535, and a sum that is not 0 stays so: that is
\* what makes the checksum verify.
LEMMA RoundKeepsTheRemainder ==
    \A sum \in Nat : /\ Round(sum) \in Nat
                     /\ Round(sum) % 65535 = sum % 65535
                     /\ sum > 0 => Round(sum) > 0
<1> SUFFICES ASSUME NEW sum \in Nat
             PROVE  /\ Round(sum) \in Nat
                    /\ Round(sum) % 65535 = sum % 65535
                    /\ sum > 0 => Round(sum) > 0
  OBVIOUS
<1> DEFINE h == sum \div 65536
           l == sum % 65536
<1>1. h \in Nat /\ l \in Nat /\ sum = h * 65536 + l
  BY SMT
<1> HIDE DEF h, l
<1>2. sum = h * 65535 + (h + l)
  BY <1>1, SMT
<1>3. (h * 65535 + (h + l)) % 65535 = (h + l) % 65535
  BY <1>1, SMT
<1>4. Round(sum) = IF h > 0 THEN l + h ELSE sum
  BY SMT DEF Round, HALF, h, l
<1>5. QED
  BY <1>1, <1>2, <1>3, <1>4, SMT

\* A sum completed by the checksum that the code computes for it is 0 modulo 65535
\* and folds to all ones, which is what a receiver looks for, whatever the sum.
THEOREM FinishedSumVerifies ==
    \A sum \in Nat : sum + HALF <= HALF * HALF =>
        /\ (sum + Finish(sum)) % (HALF - 1) = 0
        /\ Folded(sum + Finish(sum)) = HALF - 1
<1> SUFFICES ASSUME NEW sum \in Nat, sum + HALF <= HALF * HALF
             PROVE  /\ (sum + Finish(sum)) % (HALF - 1) = 0
                    /\ Folded(sum + Finish(sum)) = HALF - 1
  OBVIOUS
<1> DEFINE f == Folded(sum)
           t == sum + Finish(sum)
<1>1. f \in Nat /\ f < 65536 /\ Finish(sum) = 65535 - f
  BY TwoRoundsFold, SMT DEF HALF, Finish
<1>2. f % 65535 = sum % 65535 /\ (sum > 0 => f > 0)
  BY RoundKeepsTheRemainder DEF Folded
<1>3. t \in Nat /\ t > 0 /\ t < HALF * HALF
  <2> HIDE DEF f
  <2>1. CASE sum = 0
    <3>1. f = 0
      BY <2>1, SMT DEF f, Folded, Round, HALF
    <3>2. QED
      BY <3>1, <2>1, <1>1, SMT DEF HALF
  <2>2. CASE sum > 0
    BY <2>2, <1>1, SMT DEF HALF
  <2>3. QED
    BY <2>1, <2>2
<1>4. t % 65535 = 0
  <2> HIDE DEF f
  <2>1. t = sum + 65535 - f
    BY <1>1
  <2>2. QED
    BY <2>1, <1>1, <1>2, SMT
<1>5. Folded(t) \in Nat /\ Folded(t) < 65536
  BY <1>3, TwoRoundsFold, SMT DEF HALF
<1>6. Folded(t) % 65535 = 0 /\ Folded(t) > 0
  BY <1>3, <1>4, RoundKeepsTheRemainder DEF Folded
<1> HIDE DEF t
<1>7. Folded(t) = 65535
  BY <1>5, <1>6, SMT
<1>8. QED
  BY <1>4, <1>7, SMT DEF t, HALF
\* Nothing that the kernel sends is refused on its way or longer than Ethernet
\* allows, whatever length it is asked to send: data is cut before.
THEOREM PacketsFitTheWire ==
    \A len \in Nat : /\ FrameSent(SegmentLength(len)) \in 60 .. 1514
                     /\ FrameSent(EchoLength(len)) \in 60 .. 1514
BY SMT DEF FrameSent, SegmentLength, EchoLength, Cut,
           ETH_HEADER, IP_HEADER, TCP_HEADER, ICMP_HEADER

(***************************************************************************)
(* What rtc_read gives back of a date, for every date and every mode.      *)
(***************************************************************************)

\* BCD of two digits is undone, and so is the identity of the binary mode.
LEMMA FieldIsUndone ==
    ASSUME NEW b \in Modes, NEW n \in 0 .. 99
    PROVE  Decoded(Field(n, b), b) = n
<1>1. CASE b.is_binary
  BY <1>1 DEF Decoded, Field
<1>2. CASE ~b.is_binary
  <2>1. /\ n \div 10 \in 0 .. 9
        /\ n % 10 \in 0 .. 9
        /\ n = 10 * (n \div 10) + (n % 10)
    OBVIOUS
  <2> DEFINE v == 16 * (n \div 10) + (n % 10)
  <2>2. v % 16 = n % 10 /\ v \div 16 = n \div 10
    BY <2>1
  <2>3. QED
    BY <1>2, <2>1, <2>2 DEF Decoded, Field, BcdToBin
<1>3. QED
  BY <1>1, <1>2

\* The hour of a chip that counts to 24.
LEMMA HourIn24 ==
    ASSUME NEW b \in Modes, b.is_24h, NEW h \in 0 .. 23
    PROVE  Hour(HourField(h, b), b) = h
<1> DEFINE v == Field(h, b)
<1>1. v \in 0 .. 127 /\ v % 128 = v
  BY DEF Field
<1>2. Decoded(v, b) = h
  BY FieldIsUndone
<1>3. CASE b.is_binary
  BY <1>3 DEF Hour, HourField, Field
<1>4. CASE ~b.is_binary
  BY <1>1, <1>2, <1>4 DEF Hour, HourField
<1>5. QED
  BY <1>3, <1>4

\* The hour of a chip that counts to 12, for what the chip calls 1 to 12.
LEMMA HourIn12 ==
    ASSUME NEW b \in Modes, ~b.is_24h, NEW n \in 1 .. 12
    PROVE  /\ Hour(Field(n, b), b) = n
           /\ Hour(Field(n, b) + 128, b) = (n + 12) % 24
<1> DEFINE v == Field(n, b)
<1>1. /\ v \in 0 .. 127
      /\ v % 128 = v
      /\ v + 128 \in 128 .. 255
      /\ (v + 128) % 128 = v
  BY DEF Field
<1>2. Decoded(v, b) = n
  BY FieldIsUndone
<1>3. Hour(v, b) = n
  <2>1. CASE b.is_binary
    BY <1>1, <1>2, <2>1 DEF Hour, Decoded
  <2>2. CASE ~b.is_binary
    BY <1>1, <1>2, <2>2 DEF Hour
  <2>3. QED
    BY <2>1, <2>2
<1>4. Hour(v + 128, b) = (n + 12) % 24
  BY <1>1, <1>2 DEF Hour
<1>5. QED
  BY <1>3, <1>4

\* In 12 hours the code gives the hour back, but for those that the chip calls
\* 12: it takes midnight for noon and noon for midnight (rtc.c:67 and 73).
LEMMA HourOfADay ==
    ASSUME NEW b \in Modes, ~b.is_24h, NEW h \in 0 .. 23
    PROVE  Hour(HourField(h, b), b) = IF h % 12 = 0 THEN (h + 12) % 24 ELSE h
<1>1. CASE h = 0 \/ h = 12
  <2>1. h % 12 = 0
    BY <1>1
  <2>2. HourField(h, b) = Field(12, b) + (IF h = 12 THEN 128 ELSE 0)
    BY <1>1, <2>1 DEF HourField
  <2>3. /\ Hour(Field(12, b), b) = 12
        /\ Hour(Field(12, b) + 128, b) = 24 % 24
    <3>1. 12 \in 1 .. 12
      OBVIOUS
    <3>2. 12 + 12 = 24
      OBVIOUS
    <3>3. QED
      BY HourIn12, <3>1, <3>2
  <2>4. Field(12, b) \in Nat
    BY DEF Field
  <2>5. CASE h = 0
    BY <2>1, <2>2, <2>3, <2>4, <2>5
  <2>6. CASE h = 12
    BY <2>1, <2>2, <2>3, <2>4, <2>6
  <2>7. QED
    BY <1>1, <2>5, <2>6
<1>2. CASE h \in 1 .. 11
  <2>1. h % 12 = h /\ h # 0
    BY <1>2
  <2>2. HourField(h, b) = Field(h, b) + 0 /\ Field(h, b) \in Nat
    BY <1>2, <2>1 DEF HourField, Field
  <2>3. QED
    BY HourIn12, <1>2, <2>1, <2>2
<1>3. CASE h \in 13 .. 23
  <2> DEFINE n == h - 12
  <2>1. n \in 1 .. 11 /\ h % 12 = n /\ (n + 12) % 24 = h
    BY <1>3
  <2>2. HourField(h, b) = Field(n, b) + 128
    BY <1>3, <2>1 DEF HourField
  <2>3. Hour(Field(n, b) + 128, b) = (n + 12) % 24
    BY HourIn12, <2>1
  <2>4. QED
    BY <2>1, <2>2, <2>3
<1>4. QED
  BY <1>1, <1>2, <1>3

\* The year, with a register for the century, or without one from 1970 to 2069.
LEMMA YearIsUndone ==
    ASSUME NEW b \in Modes, NEW y \in Years, YearIsKnown(y, b),
           NEW r, r.year = Field(y % 100, b), r.century = CenturyField(y, b)
    PROVE  FullYear(r, b) = y
<1>1. y % 100 \in 0 .. 99 /\ y = 100 * (y \div 100) + (y % 100)
  BY DEF Years
<1>2. Decoded(Field(y % 100, b), b) = y % 100
  BY FieldIsUndone, <1>1
<1>3. CASE b.has_century
  <2> DEFINE c == y \div 100
  <2>1. c \in 1 .. 99
    BY DEF Years
  <2>2. Field(c, b) \in 1 .. 254
    BY <2>1 DEF Field
  <2>3. Decoded(Field(c, b), b) = c
    BY FieldIsUndone, <2>1
  <2>4. Century(CenturyField(y, b), b) = c
    BY <1>3, <2>2, <2>3 DEF Century, CenturyField
  <2>5. QED
    BY <1>1, <1>2, <2>1, <2>4 DEF Year, FullYear
<1>4. CASE ~b.has_century
  <2>1. Century(CenturyField(y, b), b) = 0
    BY <1>4 DEF Century, CenturyField
  <2>2. y % 100 = IF y < 2000 THEN y - 1900 ELSE y - 2000
    BY <1>4 DEF YearIsKnown, Years
  <2>3. QED
    BY <1>2, <1>4, <2>1, <2>2 DEF Year, FullYear, YearIsKnown, Years
<1>5. QED
  BY <1>3, <1>4

\* rtc_read gives back every date, in either coding, with or without a register
\* for the century, except for the hours that a chip of 12 hours calls 12.
THEOREM ReadsTheDate ==
    ASSUME NEW d \in Dates, NEW b \in Modes,
           YearIsKnown(d.year, b),
           b.is_24h \/ d.hour % 12 # 0
    PROVE  RtcRead(Registers(d, b), b) = d
<1>1. /\ d.second \in 0 .. 59 /\ d.minute \in 0 .. 59 /\ d.hour \in 0 .. 23
      /\ d.day \in 1 .. 31 /\ d.month \in 1 .. 12 /\ d.year \in Years
      /\ d = [second |-> d.second, minute |-> d.minute, hour |-> d.hour,
              day |-> d.day, month |-> d.month, year |-> d.year]
  BY DEF Dates
<1>2. /\ Decoded(Field(d.second, b), b) = d.second
      /\ Decoded(Field(d.minute, b), b) = d.minute
      /\ Decoded(Field(d.day, b), b) = d.day
      /\ Decoded(Field(d.month, b), b) = d.month
  <2>1. /\ d.second \in 0 .. 99 /\ d.minute \in 0 .. 99
        /\ d.day \in 0 .. 99 /\ d.month \in 0 .. 99
    BY <1>1
  <2>2. QED
    BY FieldIsUndone, <2>1
<1>3. Hour(HourField(d.hour, b), b) = d.hour
  <2>1. CASE b.is_24h
    BY HourIn24, <1>1, <2>1
  <2>2. CASE ~b.is_24h
    BY HourOfADay, <1>1, <2>2
  <2>3. QED
    BY <2>1, <2>2
<1>4. FullYear(Registers(d, b), b) = d.year
  <2> DEFINE r == Registers(d, b)
  <2>1. r.year = Field(d.year % 100, b) /\ r.century = CenturyField(d.year, b)
    BY DEF Registers
  <2>2. QED
    BY YearIsUndone, <1>1, <2>1
<1>5. QED
  BY <1>1, <1>2, <1>3, <1>4 DEF RtcRead, Registers

\* On a chip of 12 hours noon is read as midnight and midnight as noon.
THEOREM NoonAndMidnightAreSwapped ==
    ASSUME NEW d \in Dates, NEW b \in Modes,
           ~b.is_24h, d.hour \in {0, 12}
    PROVE  RtcRead(Registers(d, b), b).hour = 12 - d.hour
<1>1. RtcRead(Registers(d, b), b).hour = Hour(HourField(d.hour, b), b)
  BY DEF RtcRead, Registers
<1>2. d.hour \in 0 .. 23 /\ d.hour % 12 = 0 /\ (d.hour + 12) % 24 = 12 - d.hour
  OBVIOUS
<1>3. QED
  BY HourOfADay, <1>1, <1>2

\* When the seconds of two passes agree, all that the first one read is of one
\* second: rtc_read never mixes two dates.
THEOREM AgreedPassIsOfOneSecond ==
    ASSUME NEW at, TwoPasses(at), SecondsAgree(at)
    PROVE  \A k \in 1 .. 7 : at[k] = at[1]
<1>1. at[1] \in Nat /\ at[8] \in Nat /\ at[14] \in Nat
  BY DEF TwoPasses
<1>2. at[1] <= at[8] /\ at[8] <= at[14] /\ at[14] - at[1] < 60
  BY DEF TwoPasses
<1>3. at[1] % 60 = at[8] % 60
  BY DEF SecondsAgree, Second
<1>4. at[8] = at[1]
  BY <1>1, <1>2, <1>3
<1>5. TAKE k \in 1 .. 7
<1>6. at[k] \in Nat /\ at[1] <= at[k] /\ at[k] <= at[8]
  BY DEF TwoPasses
<1>7. QED
  BY <1>1, <1>4, <1>6

------------------------------------------------------------------------------
(* Traps: what a handler finds on its stack, and what it leaves of the code  *)
(* it stopped, for every vector, every context and every stack.              *)

\* The words of a stack, whatever they are: addresses, numbers and flags.
IsWords(Values) == Nat \subseteq Values /\ BOOLEAN \subseteq Values

\* The words of a frame one by one, when the stub and the CPU agree about the
\* error code: the place of the code that was stopped is the words 11 to 13.
LEMMA WordsOfTheFrame ==
    ASSUME NEW Values, NEW c, IsContext(c, Values), NEW error,
           NEW n \in Vectors, n \in PushesError <=> n \in ExpectsError,
           NEW s, s = Entered(n, c, error)
    PROVE  /\ s = [k \in Nat |-> s[k]]
           /\ s[DS] = c.ds
           /\ s[1] = c.general.edi /\ s[2] = c.general.esi /\ s[3] = c.general.ebp
           /\ s[5] = c.general.ebx /\ s[6] = c.general.edx /\ s[7] = c.general.ecx
           /\ s[EAX] = c.general.eax
           /\ s[INT_NO] = n
           /\ s[ERR_CODE] = IF n \in PushesError THEN error ELSE 0
           /\ s[EIP] = c.eip /\ s[CS] = c.cs /\ s[EFLAGS] = c.iflag
           /\ \A k \in Nat : s[k + 14] = Push(c.user, c.stack)[k]
<1> DEFINE under == Push(c.user, c.stack)
           place == Push(<<c.eip, c.cs, c.iflag>>, under)
           e == IF n \in PushesError THEN error ELSE 0
           stub == StubPushes(n, CpuPushes(n, c, error))
<1>1. under = [k \in Nat |-> under[k]]
  BY DEF Push
<1> HIDE DEF under
<1>2. /\ place[0] = c.eip /\ place[1] = c.cs /\ place[2] = c.iflag
      /\ \A k \in Nat : place[k + 3] = under[k]
  BY DEF Push
<1> HIDE DEF place
<1>3. /\ stub[0] = n /\ stub[1] = e
      /\ \A k \in Nat : stub[k + 2] = place[k]
  <2>1. CASE n \in PushesError
    <3>1. stub = Push(<<n>>, Push(<<error>>, place))
      BY <2>1 DEF StubPushes, CpuPushes, place, under
    <3> DEFINE inner == Push(<<error>>, place)
    <3>2. inner[0] = error /\ \A k \in Nat : inner[k + 1] = place[k]
      BY DEF Push
    <3> HIDE DEF inner
    <3>3. stub[0] = n /\ \A k \in Nat : stub[k + 1] = inner[k]
      BY <3>1 DEF Push, inner
    <3>4. stub[1] = inner[0]
      BY <3>3
    <3>5. ASSUME NEW k \in Nat
          PROVE  stub[k + 2] = place[k]
      <4>1. k + 1 \in Nat /\ k + 2 = (k + 1) + 1
        OBVIOUS
      <4>2. stub[(k + 1) + 1] = inner[k + 1]
        BY <4>1, <3>3
      <4>3. QED
        BY <4>1, <4>2, <3>2
    <3>6. QED
      BY <2>1, <3>2, <3>3, <3>4, <3>5
  <2>2. CASE n \notin PushesError
    <3>1. stub = Push(<<n, 0>>, place)
      BY <2>2 DEF StubPushes, CpuPushes, place, under
    <3>2. QED
      BY <2>2, <3>1 DEF Push
  <2>3. QED
    BY <2>1, <2>2
<1>4. s = Push(CommonWords(c), stub)
  BY DEF Entered
<1> HIDE DEF stub, e
<1>5. \A k \in Nat : s[k + 9] = stub[k]
  BY <1>4 DEF Push, CommonWords
<1>6. /\ s[0] = c.ds
      /\ s[1] = c.general.edi /\ s[2] = c.general.esi /\ s[3] = c.general.ebp
      /\ s[5] = c.general.ebx /\ s[6] = c.general.edx /\ s[7] = c.general.ecx
      /\ s[8] = c.general.eax
  BY <1>4 DEF Push, CommonWords
<1>7. s[9] = n /\ s[10] = e
  BY <1>3, <1>5
<1>8. \A k \in Nat : s[k + 11] = place[k]
  BY <1>3, <1>5
<1>9. s[11] = c.eip /\ s[12] = c.cs /\ s[13] = c.iflag
  BY <1>2, <1>8
<1>10. \A k \in Nat : s[k + 14] = under[k]
  BY <1>2, <1>8
<1>11. s = [k \in Nat |-> s[k]]
  BY <1>4 DEF Push
<1>12. QED
  BY <1>6, <1>7, <1>9, <1>10, <1>11 DEF DS, EAX, INT_NO, ERR_CODE, EIP, CS, EFLAGS, e, under

\* The frame of ring 0 is of three words, that of ring 3 of five.
LEMMA WhatLiesAbove ==
    ASSUME NEW Values, NEW c, IsContext(c, Values),
           NEW s, \A k \in Nat : s[k + 14] = Push(c.user, c.stack)[k]
    PROVE  /\ Ring3(c) => c.user = <<s[14], s[15]>> /\ c.stack = Drop(16, s)
           /\ ~Ring3(c) => c.user = <<>> /\ c.stack = Drop(14, s)
<1>1. c.stack = [k \in Nat |-> c.stack[k]]
  BY DEF IsContext, Contexts, Stacks
<1>2. CASE Ring3(c)
  <2>1. PICK x \in Values, y \in Values : c.user = <<x, y>>
    BY <1>2 DEF IsContext, Contexts
  <2>2. /\ Push(<<x, y>>, c.stack)[0] = x
        /\ Push(<<x, y>>, c.stack)[1] = y
        /\ \A k \in Nat : Push(<<x, y>>, c.stack)[k + 2] = c.stack[k]
    BY DEF Push
  <2>3. s[14] = x /\ s[15] = y
    <3>1. s[0 + 14] = x /\ s[1 + 14] = y
      BY <2>1, <2>2
    <3>2. QED
      BY <3>1
  <2>4. \A k \in Nat : s[k + 16] = c.stack[k]
    <3>1. TAKE k \in Nat
    <3>2. k + 2 \in Nat /\ k + 16 = (k + 2) + 14
      OBVIOUS
    <3>3. s[(k + 2) + 14] = Push(c.user, c.stack)[k + 2]
      BY <3>2
    <3>4. QED
      BY <3>2, <3>3, <2>1, <2>2
  <2>5. c.stack = Drop(16, s)
    BY <1>1, <2>4 DEF Drop
  <2>6. QED
    BY <1>2, <2>1, <2>3, <2>5
<1>3. CASE ~Ring3(c)
  <2>1. c.user = <<>>
    BY <1>3 DEF IsContext
  <2>2. \A k \in Nat : Push(<<>>, c.stack)[k] = c.stack[k]
    BY DEF Push
  <2>3. \A k \in Nat : s[k + 14] = c.stack[k]
    BY <2>1, <2>2
  <2>4. c.stack = Drop(14, s)
    BY <1>1, <2>3 DEF Drop
  <2>5. QED
    BY <1>3, <2>1, <2>4
<1>4. QED
  BY <1>2, <1>3

\* The way out of the stubs undoes the way in, but for eax, which is what its
\* word of the frame says.
LEMMA FrameReturns ==
    ASSUME NEW Values, NEW c, IsContext(c, Values), NEW t,
           t[DS] = c.ds,
           t[1] = c.general.edi, t[2] = c.general.esi, t[3] = c.general.ebp,
           t[5] = c.general.ebx, t[6] = c.general.edx, t[7] = c.general.ecx,
           t[EIP] = c.eip, t[CS] = c.cs, t[EFLAGS] = c.iflag,
           \A k \in Nat : t[k + 14] = Push(c.user, c.stack)[k]
    PROVE  Returned(t) = [c EXCEPT !.general = [c.general EXCEPT !.eax = t[EAX]]]
<1>1. /\ Returned(t).user = c.user
      /\ Returned(t).stack = c.stack
  <2>1. Ring3(c) <=> Level(t[CS]) = 3
    BY DEF Ring3
  <2>2. /\ Ring3(c) => c.user = <<t[14], t[15]>> /\ c.stack = Drop(16, t)
        /\ ~Ring3(c) => c.user = <<>> /\ c.stack = Drop(14, t)
    BY WhatLiesAbove
  <2>3. CASE Ring3(c)
    <3>1. Returned(t).user = <<t[14], t[15]>> /\ Returned(t).stack = Drop(16, t)
      BY ONLY <2>1, <2>3 DEF Returned, EFLAGS
    <3>2. QED
      BY <2>2, <2>3, <3>1
  <2>4. CASE ~Ring3(c)
    <3>1. Returned(t).user = <<>> /\ Returned(t).stack = Drop(14, t)
      BY ONLY <2>1, <2>4 DEF Returned, EFLAGS
    <3>2. QED
      BY <2>2, <2>4, <3>1
  <2>5. QED
    BY <2>3, <2>4
<1>2. /\ Returned(t).eip = c.eip /\ Returned(t).cs = c.cs
      /\ Returned(t).iflag = c.iflag /\ Returned(t).ds = c.ds
  BY DEF Returned
<1>3. Returned(t).general = [c.general EXCEPT !.eax = t[EAX]]
  <2>1. c.general = [g \in General |-> c.general[g]]
    BY DEF IsContext, Contexts
  <2>2. QED
    BY <2>1 DEF Returned, General
<1>4. c = [eip |-> c.eip, cs |-> c.cs, iflag |-> c.iflag, user |-> c.user,
           stack |-> c.stack, ds |-> c.ds, general |-> c.general]
  BY DEF IsContext, Contexts
<1>5. Returned(t) = [eip |-> c.eip, cs |-> c.cs, iflag |-> c.iflag, user |-> c.user,
                     stack |-> c.stack, ds |-> c.ds,
                     general |-> [c.general EXCEPT !.eax = t[EAX]]]
  BY <1>1, <1>2, <1>3 DEF Returned
<1>6. QED
  BY <1>4, <1>5

\* An interrupt leaves everything of the code it stops as it was, wherever that
\* is: the place, the flag, both stacks and the registers.
THEOREM InterruptIsInvisible ==
    ASSUME NEW Values, NEW c, IsContext(c, Values), NEW error, NEW line \in Irqs
    PROVE  Returned(Entered(VectorOf(line), c, error)) = c
<1> DEFINE s == Entered(VectorOf(line), c, error)
<1>1. /\ VectorOf(line) \in Vectors
      /\ VectorOf(line) \notin PushesError /\ VectorOf(line) \notin ExpectsError
  BY DEF VectorOf, Irqs, Vectors, PushesError, ExpectsError
<1>2. /\ s[DS] = c.ds
      /\ s[1] = c.general.edi /\ s[2] = c.general.esi /\ s[3] = c.general.ebp
      /\ s[5] = c.general.ebx /\ s[6] = c.general.edx /\ s[7] = c.general.ecx
      /\ s[EAX] = c.general.eax
      /\ s[EIP] = c.eip /\ s[CS] = c.cs /\ s[EFLAGS] = c.iflag
      /\ \A k \in Nat : s[k + 14] = Push(c.user, c.stack)[k]
  BY <1>1, WordsOfTheFrame
<1> HIDE DEF s
<1>3. Returned(s) = [c EXCEPT !.general = [c.general EXCEPT !.eax = c.general.eax]]
  BY <1>2, FrameReturns
<1>4. c.general = [c.general EXCEPT !.eax = c.general.eax]
  BY DEF IsContext, Contexts
<1>5. c = [c EXCEPT !.general = c.general]
  BY DEF IsContext, Contexts
<1>6. QED
  BY <1>3, <1>4, <1>5 DEF s

\* A system call returns with its result in eax and with everything else as it
\* was.  This is what the context switches below a system call rely on.
THEOREM SyscallReturns ==
    ASSUME NEW Values, NEW c, IsContext(c, Values), NEW error, NEW result
    PROVE  Returned(IsrHandler(Entered(SYSCALL, c, error), result))
             = [c EXCEPT !.general = [c.general EXCEPT !.eax = result]]
<1> DEFINE s == Entered(SYSCALL, c, error)
           t == IsrHandler(s, result)
<1>1. SYSCALL \in Vectors /\ SYSCALL \notin PushesError /\ SYSCALL \notin ExpectsError
  BY DEF SYSCALL, Vectors, PushesError, ExpectsError
<1>2. /\ s = [k \in Nat |-> s[k]]
      /\ s[DS] = c.ds
      /\ s[1] = c.general.edi /\ s[2] = c.general.esi /\ s[3] = c.general.ebp
      /\ s[5] = c.general.ebx /\ s[6] = c.general.edx /\ s[7] = c.general.ecx
      /\ s[INT_NO] = SYSCALL
      /\ s[EIP] = c.eip /\ s[CS] = c.cs /\ s[EFLAGS] = c.iflag
      /\ \A k \in Nat : s[k + 14] = Push(c.user, c.stack)[k]
  BY <1>1, WordsOfTheFrame
<1> HIDE DEF s
<1>3. t = [s EXCEPT ![EAX] = result]
  BY <1>2 DEF IsrHandler
<1>4. t[EAX] = result /\ \A k \in Nat : k # EAX => t[k] = s[k]
  BY <1>2, <1>3 DEF EAX
<1> HIDE DEF t
<1>5. /\ t[DS] = c.ds
      /\ t[1] = c.general.edi /\ t[2] = c.general.esi /\ t[3] = c.general.ebp
      /\ t[5] = c.general.ebx /\ t[6] = c.general.edx /\ t[7] = c.general.ecx
      /\ t[EIP] = c.eip /\ t[CS] = c.cs /\ t[EFLAGS] = c.iflag
  BY <1>2, <1>4 DEF EAX, DS, EIP, CS, EFLAGS
<1>6. \A k \in Nat : t[k + 14] = Push(c.user, c.stack)[k]
  BY <1>2, <1>4 DEF EAX
<1>7. QED
  BY <1>4, <1>5, <1>6, FrameReturns DEF t, s

\* An exception of ring 3 goes on at kernel_reap_current_process, in ring 0, with
\* interrupts as the program had them, on the stack of its own process in the
\* kernel (two words below its top); it does not stop the machine.
THEOREM FaultEndsTheProcess ==
    ASSUME NEW Values, NEW c, IsContext(c, Values), Ring3(c), NEW error, NEW result,
           NEW n \in Exceptions, n \in PushesError <=> n \in ExpectsError
    PROVE  LET s == Entered(n, c, error)
               after == Returned(IsrHandler(s, result))
           IN /\ ~Halts(s)
              /\ after.eip = REAP /\ ~Ring3(after)
              /\ after.iflag = c.iflag
              /\ after.user = <<>>
              /\ \A k \in Nat : after.stack[k + 2] = c.stack[k]
<1> DEFINE s == Entered(n, c, error)
           t == IsrHandler(s, result)
<1>1. /\ n \in Vectors /\ n # SYSCALL
      /\ s = [k \in Nat |-> s[k]]
      /\ s[INT_NO] = n /\ s[CS] = c.cs /\ s[EFLAGS] = c.iflag
      /\ \A k \in Nat : s[k + 14] = Push(c.user, c.stack)[k]
  <2>1. n \in Vectors /\ n # SYSCALL
    BY DEF Vectors, Exceptions, SYSCALL
  <2>2. QED
    BY <2>1, WordsOfTheFrame
<1> HIDE DEF s
<1>2. ~Halts(s)
  BY <1>1 DEF Halts, Ring3
<1>3. t = [s EXCEPT ![EIP] = REAP, ![CS] = KERNEL_CODE]
  BY <1>1 DEF IsrHandler
<1>4. /\ t[EIP] = REAP /\ t[CS] = KERNEL_CODE
      /\ \A k \in Nat : k \notin {EIP, CS} => t[k] = s[k]
  BY <1>1, <1>3 DEF EIP, CS
<1> HIDE DEF t
<1>5. Level(t[CS]) # 3
  BY <1>4 DEF Level, KERNEL_CODE
<1>6. /\ Returned(t).eip = REAP /\ Returned(t).cs = KERNEL_CODE
      /\ Returned(t).iflag = c.iflag /\ Returned(t).user = <<>>
      /\ Returned(t).stack = Drop(14, t)
  <2>1. t[EFLAGS] = c.iflag
    BY <1>1, <1>4 DEF EFLAGS, EIP, CS
  <2>2. QED
    BY <1>4, <1>5, <2>1 DEF Returned, EFLAGS
<1>7. ASSUME NEW k \in Nat
      PROVE  Drop(14, t)[k + 2] = c.stack[k]
  <2>1. Drop(14, t)[k + 2] = t[(k + 2) + 14]
    BY DEF Drop
  <2>2. (k + 2) + 14 \in Nat /\ (k + 2) + 14 = k + 16 /\ k + 16 \notin {EIP, CS}
    BY DEF EIP, CS
  <2>3. t[k + 16] = s[k + 16]
    BY <1>4, <2>2
  <2>4. c.stack = Drop(16, s)
    BY <1>1, WhatLiesAbove
  <2>5. QED
    BY <2>1, <2>2, <2>3, <2>4 DEF Drop
<1>8. QED
  BY <1>2, <1>5, <1>6, <1>4, <1>7 DEF t, s, Ring3

\* Where the stub counts on an error code that the CPU does not push, or the
\* other way round, the handler takes the address of the code for its segment:
\* the vectors are 17, 21, 29 and 30 (isr.s:75, 79, 87 and 88).
THEOREM FourStubsMisplaceTheFrame ==
    /\ {n \in Exceptions : ~(n \in PushesError <=> n \in ExpectsError)} = {17, 21, 29, 30}
    /\ \A n \in {17, 21, 29, 30} : \A c, error : Entered(n, c, error)[CS] = c.eip
<1>1. {n \in Exceptions : ~(n \in PushesError <=> n \in ExpectsError)} = {17, 21, 29, 30}
  BY DEF Exceptions, PushesError, ExpectsError
<1>2. ASSUME NEW n \in {17, 21, 29, 30}, NEW c, NEW error
      PROVE  Entered(n, c, error)[CS] = c.eip
  <2> DEFINE place == Push(<<c.eip, c.cs, c.iflag>>, Push(c.user, c.stack))
             cpu == Push(<<error>>, place)
             stub == Push(<<n, 0>>, cpu)
  <2>1. n \in PushesError /\ n \notin ExpectsError
    BY DEF PushesError, ExpectsError
  <2>2. Entered(n, c, error) = Push(CommonWords(c), stub)
    BY <2>1 DEF Entered, StubPushes, CpuPushes
  <2>3. place[0] = c.eip
    BY DEF Push
  <2> HIDE DEF place
  <2>4. cpu[1] = place[0]
    BY DEF Push
  <2> HIDE DEF cpu
  <2>5. stub[3] = cpu[1]
    BY DEF Push
  <2> HIDE DEF stub
  <2>6. Entered(n, c, error)[12] = stub[3]
    BY <2>2 DEF Push, CommonWords
  <2>7. QED
    BY <2>3, <2>4, <2>5, <2>6 DEF CS
<1>3. QED
  BY <1>1, <1>2

\* The code of ring 3 reaches the handlers by `int n` for n = 0x80 alone; any
\* other number ends the process as a general protection fault.
THEOREM OnlyTheSystemCallGate ==
    \A n \in Vectors :
        RaisedBySoftware(n, 3) = IF n = SYSCALL THEN SYSCALL ELSE GENERAL_PROTECTION
BY DEF RaisedBySoftware, GateLevel, Present, SYSCALL, Irqs

\* Every line has its own vector, apart from those of the exceptions and of the
\* system call; its handler runs the line that was raised and acknowledges each
\* controller that took part.
THEOREM EveryLineIsItsOwn ==
    ASSUME NEW Values, NEW c, IsContext(c, Values), NEW error, NEW line \in Irqs
    PROVE  /\ Present(VectorOf(line)) /\ VectorOf(line) \notin Exceptions \cup {SYSCALL}
           /\ DispatchedLine(Entered(VectorOf(line), c, error)) = line
           /\ Acknowledged(line) = ControllersOf(line)
<1>1. VectorOf(line) = 32 + line /\ line \in 0 .. 15
  BY DEF VectorOf, Irqs
<1>2. /\ VectorOf(line) \in Vectors
      /\ VectorOf(line) \notin PushesError /\ VectorOf(line) \notin ExpectsError
      /\ VectorOf(line) \notin Exceptions \cup {SYSCALL}
      /\ Present(VectorOf(line))
  BY <1>1 DEF Vectors, PushesError, ExpectsError, Exceptions, SYSCALL, Present, Irqs
<1>3. Entered(VectorOf(line), c, error)[INT_NO] = VectorOf(line)
  BY <1>2, WordsOfTheFrame
<1>4. DispatchedLine(Entered(VectorOf(line), c, error)) = line
  BY <1>1, <1>3 DEF DispatchedLine
<1>5. Acknowledged(line) = ControllersOf(line)
  <2>1. CASE line < 8
    BY <2>1, <1>1 DEF Acknowledged, ControllersOf
  <2>2. CASE line >= 8
    BY <2>2, <1>1 DEF Acknowledged, ControllersOf
  <2>3. QED
    BY <1>1, <2>1, <2>2
<1>6. QED
  BY <1>2, <1>4, <1>5

\* irq_register opens its own line only: one of the second controller stays shut,
\* whatever else is registered, until somebody registers line 2 (idt.c:49).
THEOREM SecondControllerStaysShut ==
    ASSUME NEW registered \in SUBSET Irqs, CASCADE \notin registered, NEW line \in 8 .. 15
    PROVE  ~GetsThrough(line, registered)
BY DEF GetsThrough, OpenLines, Irqs, CASCADE

\* The selectors that the code loads name segments of the kind and the level that
\* they are loaded for; ring 3 has no selector of the kernel's level.
THEOREM SelectorsFit ==
    /\ IsCode(KERNEL_CODE) /\ LevelOfSegment(KERNEL_CODE) = Level(KERNEL_CODE)
    /\ IsData(KERNEL_DATA) /\ LevelOfSegment(KERNEL_DATA) = Level(KERNEL_DATA)
    /\ IsCode(USER_CODE) /\ LevelOfSegment(USER_CODE) = 3 /\ Level(USER_CODE) = 3
    /\ IsData(USER_DATA) /\ LevelOfSegment(USER_DATA) = 3 /\ Level(USER_DATA) = 3
    /\ LevelOfSegment(TSS_SELECTOR) = 0
BY DEF IsCode, IsData, LevelOfSegment, Level, AccessOf, Access,
       KERNEL_CODE, KERNEL_DATA, USER_CODE, USER_DATA, TSS_SELECTOR

\* What read and write give for a descriptor that they do not serve is what they
\* give for one byte: the errors are positive (types.h:14), though
\* gopheros_abi.h:67 has the callers look for a negative number.
THEOREM AnErrorCanBeACount ==
    ASSUME NEW Values, NEW b, NEW count \in Nat \ {0}, NEW bad \in Nat \ {0, 1, 2}
    PROVE  /\ SyscallResults(2, bad, b, count, Values) \subseteq SyscallResults(2, 0, b, count, Values)
           /\ SyscallResults(3, bad, b, count, Values) = SyscallResults(3, 1, b, 1, Values)
BY DEF SyscallResults, SysRead, SysWrite, AlwaysZero, NotImplemented, EINVAL

\* ioctl reports an unknown request and a clock without a place to put it; every
\* other request gives 0, except the one for tests, so a program can tell them.
THEOREM IoctlAnswers ==
    ASSUME NEW Values, NEW request \in Nat \ {5}, NEW arg1, NEW count
    PROVE  SyscallResults(11, request, arg1, count, Values) =
              IF request \notin 1 .. 4 THEN {ENOSYS}
              ELSE IF request = 4 /\ arg1 = 0 THEN {EINVAL}
              ELSE {0}
<1>1. SyscallResults(11, request, arg1, count, Values) = SysIoctl(request, arg1, Values)
  BY DEF SyscallResults, AlwaysZero, NotImplemented
<1>2. CASE request \in 1 .. 3
  BY <1>1, <1>2 DEF SysIoctl
<1>3. CASE request = 4
  BY <1>1, <1>3 DEF SysIoctl
<1>4. CASE request \notin 1 .. 4
  BY <1>1, <1>4 DEF SysIoctl
<1>5. QED
  BY <1>2, <1>3, <1>4

\* The timer ticks at the rate asked for, but for the remainder of the division,
\* from 19 Hz on (kernel.c:93 asks for 100); below that the divisor does not fit
\* and its upper bits are lost.
THEOREM TimerKeepsTheRate ==
    /\ \A hz \in Nat \ {0} : hz >= 19 /\ hz <= PIT_FREQ => PitDivisor(PitBytes(hz)) = PIT_FREQ \div hz
    /\ PitDivisor(PitBytes(18)) = (PIT_FREQ \div 18) - 65536
<1>1. ASSUME NEW hz \in Nat \ {0}, hz >= 19, hz <= PIT_FREQ
      PROVE  PitDivisor(PitBytes(hz)) = PIT_FREQ \div hz
  <2> DEFINE d == PIT_FREQ \div hz
  <2>1. d \in Nat /\ d > 0 /\ d < 65536
    <3>1. d \in Nat /\ d * hz <= 1193182 /\ 1193182 < d * hz + hz
      BY <1>1, SMT DEF PIT_FREQ
    <3> HIDE DEF d
    <3>2. d > 0
      BY <3>1, <1>1, SMT DEF PIT_FREQ
    <3>3. d * 19 <= d * hz
      BY <3>1, <1>1, SMT
    <3>4. QED
      BY <3>1, <3>2, <3>3, SMT
  <2> HIDE DEF d
  <2>2. (d \div 256) % 256 = d \div 256 /\ d = (d % 256) + (d \div 256) * 256
    BY <2>1, SMT
  <2>3. PitBytes(hz) = <<d % 256, d \div 256>>
    BY <2>2, SMT DEF PitBytes, d
  <2>4. QED
    BY <2>1, <2>2, <2>3, SMT DEF PitDivisor, d
<1>2. PitDivisor(PitBytes(18)) = (PIT_FREQ \div 18) - 65536
  BY SMT DEF PitDivisor, PitBytes, PIT_FREQ
<1>3. QED
  BY <1>1, <1>2

\* The CPU finds in a descriptor the base that was packed into it, and a limit that
\* is counted in bytes or in pages as the flag says: the flat segments cover all of
\* the 4 GB, though four bits of the limit are dropped.
THEOREM DescriptorsKeepBaseAndLimit ==
    ASSUME NEW base \in Nat, base < BYTE3 * BYTE, NEW limit \in Nat, limit < 16 * HALF,
           NEW access
    PROVE  /\ Base(GdtEntry(base, limit, access, 0)) = base
           /\ Limit(GdtEntry(base, limit, access, 0)) = limit
           /\ Base(Flat(access)) = 0
           /\ Limit(Flat(access)) = FLAT_LIMIT
<1>1. base < 4294967296 /\ limit < 1048576
  BY SMT DEF BYTE, BYTE3, HALF
<1>2. Base(GdtEntry(base, limit, access, 0)) = base
  <2> DEFINE h == base \div 65536
  <2>1. base = h * 65536 + (base % 65536) /\ h \in Nat /\ h < 65536 /\ base \div 16777216 = h \div 256
    BY <1>1, SMT
  <2>2. base % 65536 \in Nat
    BY SMT
  <2> HIDE DEF h
  <2>3. (h \div 256) % 256 = h \div 256 /\ h = (h % 256) + (h \div 256) * 256
    BY <2>1, SMT
  <2>4. Base(GdtEntry(base, limit, access, 0)) =
            (base % 65536) + (h % 256) * 65536 + ((h \div 256) % 256) * 16777216
    BY <2>1, SMT DEF Base, GdtEntry, BYTE, HALF, BYTE3, h
  <2>5. QED
    BY <2>1, <2>2, <2>3, <2>4, SMT
<1>3. Limit(GdtEntry(base, limit, access, 0)) = limit
  <2> DEFINE g == (limit \div 65536) % 16
  <2>1. g \in Nat /\ g < 16 /\ limit = (limit % 65536) + g * 65536
    BY <1>1, SMT
  <2> HIDE DEF g
  <2>2. GdtEntry(base, limit, access, 0).granularity = g
    BY <2>1, SMT DEF GdtEntry, HALF, g
  <2>3. GdtEntry(base, limit, access, 0).limit_low = limit % 65536
    BY SMT DEF GdtEntry, HALF
  <2>4. g % 16 = g /\ g \div 128 = 0
    BY <2>1, SMT
  <2>5. QED
    BY <2>1, <2>2, <2>3, <2>4, SMT DEF Limit, HALF
<1>4. Base(Flat(access)) = 0
  BY SMT DEF Base, Flat, GdtEntry, BYTE, HALF, BYTE3
<1>5. Limit(Flat(access)) = FLAT_LIMIT
  BY SMT DEF Limit, Flat, GdtEntry, HALF, FLAT_LIMIT, FLAT_GRAN
<1>6. QED
  BY <1>2, <1>3, <1>4, <1>5

\* Ring 3 has no port: the map of ports would begin behind the end of the TSS, in
\* whatever is there (gdt.c:61).
THEOREM NoPortForRing3 ==
    ASSUME NEW tss \in Nat, tss < BYTE3 * BYTE, NEW port \in Nat
    PROVE  ~PortIsOpen(port, tss)
<1>1. TSS_SIZE - 1 \in Nat /\ TSS_SIZE - 1 < 16 * HALF
  BY SMT DEF TSS_SIZE, HALF
<1>2. Limit(TssEntry(tss)) = TSS_SIZE - 1
  BY <1>1, DescriptorsKeepBaseAndLimit DEF TssEntry
<1>3. QED
  BY <1>2, SMT DEF PortIsOpen, IOMAP_BASE, TSS_SIZE

\* Every selector in use lies within the limit of the table.
THEOREM SelectorsAreInTheTable ==
    \A s \in {KERNEL_CODE, KERNEL_DATA, USER_CODE, USER_DATA, TSS_SELECTOR} : InTable(s)
BY DEF InTable, GDT_LIMIT, KERNEL_CODE, KERNEL_DATA, USER_CODE, USER_DATA, TSS_SELECTOR

\* A gate leads to the address of its stub, clears IF, and may be used by `int` from
\* the level that Trap assumes: only the one of system calls from ring 3.
THEOREM GatesLeadToTheirStubs ==
    ASSUME NEW stub \in Nat, stub < BYTE3 * BYTE, NEW n \in Vectors
    PROVE  LET gate == IdtGate(stub, KERNEL_CODE, IF n = SYSCALL THEN USER_GATE ELSE KERNEL_GATE)
           IN /\ Offset(gate) = stub
              /\ IsInterruptGate(gate)
              /\ LevelOfGate(gate) = GateLevel(n)
<1> DEFINE gate == IdtGate(stub, KERNEL_CODE, IF n = SYSCALL THEN USER_GATE ELSE KERNEL_GATE)
<1>1. Offset(gate) = stub
  <2>1. (stub \div 65536) % 65536 = stub \div 65536
        /\ stub = (stub % 65536) + (stub \div 65536) * 65536
    BY SMT DEF BYTE, BYTE3
  <2>2. QED
    BY <2>1, SMT DEF Offset, IdtGate, HALF
<1>2. gate.type_attr = IF n = SYSCALL THEN 238 ELSE 142
  BY SMT DEF IdtGate, USER_GATE, KERNEL_GATE
<1>3. IsInterruptGate(gate) /\ LevelOfGate(gate) = GateLevel(n)
  BY <1>2, SMT DEF IsInterruptGate, LevelOfGate, GateLevel
<1>4. QED
  BY <1>1, <1>3
==============================================================================
