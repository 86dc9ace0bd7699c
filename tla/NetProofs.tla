------------------------------ MODULE NetProofs ------------------------------
(***************************************************************************)
(* Proofs about Net and Nic, for every size of the receive ring and of the *)
(* frames, every network and every behaviour of the hosts: the card and    *)
(* the driver agree where records begin, so net_poll handles the frames    *)
(* that came (FrameQueue), and what net_ping says of them is true.         *)
(***************************************************************************)
EXTENDS Net, TLAPS

(***************************************************************************)
(* Arithmetic of positions in a ring of R bytes.                           *)
(***************************************************************************)

LEMMA InRing == ASSUME NEW R \in Nat \ {0}, NEW x \in Int  PROVE  x % R \in 0 .. R - 1
BY SMT

\* A step forward or back inside the ring turns round at most once.
LEMMA Forward ==
    ASSUME NEW R \in Nat \ {0}, NEW a \in 0 .. R - 1, NEW b \in 0 .. R - 1
    PROVE  (a + b) % R = IF a + b < R THEN a + b ELSE a + b - R
<1>1. CASE a + b < R  BY <1>1, SMT
<1>2. CASE a + b >= R  BY <1>2, SMT
<1>3. QED  BY <1>1, <1>2

LEMMA Backward ==
    ASSUME NEW R \in Nat \ {0}, NEW a \in 0 .. R - 1, NEW b \in 0 .. R - 1
    PROVE  (a - b) % R = IF a >= b THEN a - b ELSE a - b + R
<1>1. CASE a >= b  BY <1>1, SMT
<1>2. CASE a < b  BY <1>2, SMT
<1>3. QED  BY <1>1, <1>2

LEMMA WholeTurns ==
    ASSUME NEW R \in Nat \ {0}, NEW q \in Int, NEW x \in 0 .. R - 1
    PROVE  ((q * R) + x) % R = x
BY SMT

\* The position that the driver writes into CAPR is the one the card reads.
LEMMA CaprRoundTrip ==
    ASSUME NEW o \in 0 .. RX_SIZE - 1
    PROVE  /\ (o - 16) % CAPR_MOD \in 0 .. CAPR_MOD - 1
           /\ ReadAt((o - 16) % CAPR_MOD) = o
<1> USE NicSizes
<1> DEFINE reg == (o - 16) % CAPR_MOD
           k == CAPR_MOD \div RX_SIZE
           q == (o - 16) \div CAPR_MOD
<1>0. CAPR_MOD \in Nat \ {0} /\ RX_SIZE \in Nat \ {0}
  BY SMT
<1>1. reg \in 0 .. CAPR_MOD - 1
  BY <1>0, InRing, o - 16 \in Int
<1>2. CAPR_MOD = k * RX_SIZE /\ k \in Int
  BY <1>0, SMT
<1>3. o - 16 = (q * CAPR_MOD) + reg /\ q \in Int
  BY <1>0, SMT
<1> HIDE DEF reg, k, q
<1>4. reg + 16 = ((-(q * k)) * RX_SIZE) + o /\ -(q * k) \in Int
  <2>1. q * CAPR_MOD = (q * k) * RX_SIZE
    BY <1>0, <1>2, <1>3, SMT
  <2>2. q * k \in Int
    BY <1>2, <1>3, SMT
  <2> DEFINE j == q * k
  <2> HIDE DEF j
  <2>3. o - 16 = (j * RX_SIZE) + reg
    BY <1>3, <2>1 DEF j
  <2>4. reg + 16 = ((-j) * RX_SIZE) + o
    BY <2>3, <2>2, <1>0, <1>1, SMT DEF j
  <2>5. QED  BY <2>2, <2>4 DEF j
<1>5. \A j \in Int : ((j * RX_SIZE) + o) % RX_SIZE = o
  BY <1>0, WholeTurns
<1>6. QED  BY <1>1, <1>4, <1>5 DEF ReadAt, reg

\* How far a position x is ahead of another, o.
Positions == 0 .. RX_SIZE - 1
Distance(o, x) == IF x >= o THEN x - o ELSE x - o + RX_SIZE

LEMMA DistanceOf ==
    ASSUME NEW o \in Positions, NEW x \in Positions
    PROVE  /\ Distance(o, x) \in Positions
           /\ Distance(o, o) = 0
           /\ Distance(o, x) = 0 => x = o
           /\ (x - o) % RX_SIZE = Distance(o, x)
<1>1. RX_SIZE \in Nat \ {0} /\ o \in 0 .. RX_SIZE - 1 /\ x \in 0 .. RX_SIZE - 1
  BY NicSizes DEF Positions
<1>2. (x - o) % RX_SIZE = Distance(o, x)
  BY <1>1, Backward DEF Distance
<1>3. QED  BY <1>1, <1>2 DEF Distance, Positions

LEMMA DistanceShrinks ==
    ASSUME NEW o \in Positions, NEW size \in Positions, size > 0, NEW moved,
           moved = IF o + size >= RX_SIZE THEN o + size - RX_SIZE ELSE o + size
    PROVE  /\ moved \in Positions
           /\ \A x \in Positions :
                 /\ size <= Distance(o, x) => Distance(moved, x) = Distance(o, x) - size
                 /\ Distance(o, x) = 0 => Distance(moved, x) = RX_SIZE - size
<1>1. RX_SIZE \in Nat \ {0} /\ o \in 0 .. RX_SIZE - 1 /\ size \in 0 .. RX_SIZE - 1
  BY NicSizes DEF Positions
<1>2. QED  BY <1>1 DEF Distance, Positions

LEMMA DistanceGrows ==
    ASSUME NEW o \in Positions, NEW x \in Positions, NEW size \in Nat,
           Distance(o, x) + size < RX_SIZE, NEW moved, moved = (x + size) % RX_SIZE
    PROVE  /\ moved = IF x + size < RX_SIZE THEN x + size ELSE x + size - RX_SIZE
           /\ moved \in Positions
           /\ Distance(o, moved) = Distance(o, x) + size
<1>1. RX_SIZE \in Nat \ {0} /\ o \in 0 .. RX_SIZE - 1 /\ x \in 0 .. RX_SIZE - 1
  BY NicSizes DEF Positions
<1>2. Distance(o, x) \in Nat /\ size \in 0 .. RX_SIZE - 1
  BY <1>1, DistanceOf DEF Positions
<1>3. moved = IF x + size < RX_SIZE THEN x + size ELSE x + size - RX_SIZE
  BY <1>1, <1>2, Forward
<1>4. QED  BY <1>1, <1>2, <1>3 DEF Distance, Positions

(***************************************************************************)
(* The ring.  Ahead is how far a position is from where the driver reads   *)
(* next; the records lie one after the other from there up to write_at.    *)
(***************************************************************************)
Ahead(x) == Distance(rx_offset, x)
Size(r) == Aligned(r.plen + HEADER)

Records == [at : Positions, frame : Frames, plen : Nat]

RingTyped ==
    /\ write_at \in Positions /\ write_at % 4 = 0
    /\ rx_offset \in Positions /\ rx_offset % 4 = 0
    /\ capr \in 0 .. CAPR_MOD - 1
    /\ rok \in BOOLEAN
    /\ records \in Seq(Records)

\* Each record ends where the next one begins, the last one at write_at.
InARow ==
    \A i \in 1 .. Len(records) :
        Ahead(records[i].at) + Size(records[i]) =
        IF i = Len(records) THEN Ahead(write_at) ELSE Ahead(records[i + 1].at)

\* They do not overlap, though the ring turns round.
Apart ==
    \A i, j \in 1 .. Len(records) :
        i < j => Ahead(records[i].at) + Size(records[i]) <= Ahead(records[j].at)

RingInv ==
    /\ RingTyped
    /\ ReadAt(capr) = rx_offset
    /\ records = <<>> => write_at = rx_offset
    /\ records # <<>> => records[1].at = rx_offset
    /\ rok => records # <<>>
    /\ InARow
    /\ Apart

LEMMA SizeOf == ASSUME NEW r \in Records  PROVE  Size(r) \in Nat /\ Size(r) >= 4 /\ Size(r) % 4 = 0
<1>1. r.plen \in Nat  BY DEF Records
<1>2. \A n \in Nat : /\ ((n + 4 + 3) \div 4) * 4 \in Nat
                     /\ ((n + 4 + 3) \div 4) * 4 >= 4
                     /\ (((n + 4 + 3) \div 4) * 4) % 4 = 0
  BY SMT
<1>3. QED  BY <1>1, <1>2 DEF Size, Aligned, HEADER

LEMMA AheadOf ==
    ASSUME RingTyped, NEW x \in Positions
    PROVE  /\ Ahead(x) \in Positions
           /\ Ahead(x) = 0 <=> x = rx_offset
BY DistanceOf DEF RingTyped, Ahead

\* What the card takes for free is what is not between the two positions.
LEMMA RoomIsTheRest ==
    ASSUME RingInv  PROVE  Room = RX_SIZE - Ahead(write_at)
<1>1. write_at \in Positions /\ rx_offset \in Positions /\ ReadAt(capr) = rx_offset
  BY DEF RingInv, RingTyped
<1>2. (rx_offset - write_at) % RX_SIZE = Distance(write_at, rx_offset)
  BY <1>1, DistanceOf
<1>3. QED  BY <1>1, <1>2, NicSizes DEF Room, Ahead, Distance, Positions

\* Where a record lies: all of it is before write_at.
LEMMA RecordPlace ==
    ASSUME RingInv, NEW i \in 1 .. Len(records)
    PROVE  /\ records[i] \in Records /\ records[i].at \in Positions
           /\ Ahead(records[i].at) \in Positions /\ Ahead(write_at) \in Positions
           /\ Size(records[i]) \in Nat /\ Size(records[i]) >= 4
           /\ Ahead(records[i].at) + Size(records[i]) <= Ahead(write_at)
<1>1. \A k \in 1 .. Len(records) :
        /\ records[k] \in Records /\ records[k].at \in Positions
        /\ Ahead(records[k].at) \in Positions
        /\ Size(records[k]) \in Nat /\ Size(records[k]) >= 4
  <2> SUFFICES ASSUME NEW k \in 1 .. Len(records)
               PROVE  /\ records[k] \in Records /\ records[k].at \in Positions
                      /\ Ahead(records[k].at) \in Positions
                      /\ Size(records[k]) \in Nat /\ Size(records[k]) >= 4
    OBVIOUS
  <2>1. records[k] \in Records  BY DEF RingInv, RingTyped
  <2>2. records[k].at \in Positions  BY <2>1 DEF Records
  <2>3. QED  BY <2>1, <2>2, AheadOf, SizeOf DEF RingInv
<1>2. Ahead(write_at) \in Positions  BY AheadOf DEF RingInv, RingTyped
<1>3. PICK last \in 1 .. Len(records) : last = Len(records) /\ i <= last
  <2>1. Len(records) \in Nat  BY DEF RingInv, RingTyped
  <2>2. QED  BY <2>1
<1>4. Ahead(records[last].at) + Size(records[last]) = Ahead(write_at)
  BY <1>3 DEF RingInv, InARow
<1>5. i < last => Ahead(records[i].at) + Size(records[i]) <= Ahead(records[last].at)
  BY DEF RingInv, Apart
<1>6. Ahead(records[i].at) + Size(records[i]) <= Ahead(write_at)
  BY <1>1, <1>2, <1>3, <1>4, <1>5 DEF Positions
<1>7. QED  BY <1>1, <1>2, <1>6

LEMMA RingInit == NicInit => RingInv
<1> SUFFICES ASSUME NicInit PROVE RingInv  OBVIOUS
<1> USE NicSizes DEF NicInit
<1>0. 0 \in 0 .. RX_SIZE - 1 /\ 0 % 4 = 0  BY SMT
<1>1. (0 - 16) % CAPR_MOD \in 0 .. CAPR_MOD - 1 /\ ReadAt((0 - 16) % CAPR_MOD) = 0
  BY <1>0, CaprRoundTrip, Zenon
<1>2. RingTyped
  <2>1. records \in Seq(Records)  OBVIOUS
  <2>2. capr \in 0 .. CAPR_MOD - 1  BY <1>1
  <2>3. QED  BY <1>0, <2>1, <2>2 DEF RingTyped, Positions
<1>3. ReadAt(capr) = rx_offset  BY <1>1
<1>4. QED  BY <1>2, <1>3 DEF RingInv, InARow, Apart

LEMMA SameRing == RingInv /\ UNCHANGED nicVars => RingInv'
BY DEF RingInv, RingTyped, InARow, Apart, Ahead, ReadAt, nicVars

LEMMA StoreKeepsRing ==
    ASSUME RingInv, NEW f \in Frames, NEW n \in Nat, Store(f, n)
    PROVE  RingInv'
<1> USE NicSizes
<1> DEFINE new == [at |-> write_at, frame |-> f, plen |-> n]
           size == Aligned(n + HEADER)
<1>1. RingTyped /\ new \in Records /\ Size(new) = size
  BY DEF RingInv, RingTyped, Records, Size
<1>2. size \in Nat /\ size >= 4 /\ size % 4 = 0
  BY <1>1, SizeOf
<1>3. size < RX_SIZE - Ahead(write_at)
  BY RoomIsTheRest DEF Store, Fits
<1>4. /\ records' = Append(records, new)
      /\ write_at' = (write_at + size) % RX_SIZE
      /\ rok' /\ capr' = capr /\ rx_offset' = rx_offset
  BY DEF Store
<1> HIDE DEF new, size
<1>5. write_at \in Positions /\ write_at % 4 = 0 /\ rx_offset \in Positions
  BY <1>1 DEF RingTyped
<1>6. Ahead(write_at) \in Positions
  BY <1>1, <1>5, AheadOf
<1>7. Ahead(write_at) + size < RX_SIZE
  BY <1>2, <1>3, <1>5, <1>6 DEF Positions
<1>8. /\ write_at' \in Positions /\ Ahead(write_at)' = Ahead(write_at) + size
      /\ write_at' = IF write_at + size < RX_SIZE THEN write_at + size ELSE write_at + size - RX_SIZE
  BY <1>2, <1>4, <1>5, <1>7, DistanceGrows DEF Ahead
<1>9. write_at' % 4 = 0
  <2> HIDE NicSizes
  <2>1. write_at \in Nat /\ RX_SIZE \in Nat /\ RX_SIZE % 4 = 0  BY <1>5, NicSizes DEF Positions
  <2>2. QED  BY <1>2, <1>5, <1>8, <2>1, SMT
<1>10. RingTyped'
  BY <1>1, <1>4, <1>8, <1>9 DEF RingTyped
<1>11. ASSUME NEW i \in 1 .. Len(records)
       PROVE  /\ records'[i] = records[i] /\ i < Len(records')
              /\ Ahead(records[i].at)' = Ahead(records[i].at)
              /\ Size(records[i])' = Size(records[i])
              /\ Ahead(records[i].at) + Size(records[i]) <= Ahead(write_at)
  <2>1. records'[i] = records[i] /\ i < Len(records')
    BY <1>1, <1>4 DEF RingTyped
  <2>2. QED  BY <1>4, <2>1, RecordPlace DEF Ahead, Size
<1>12. /\ Len(records') = Len(records) + 1 /\ Len(records) \in Nat
       /\ records'[Len(records')] = new /\ records' # <<>>
  BY <1>1, <1>4 DEF RingTyped
<1>13. InARow'
  <2> SUFFICES ASSUME NEW i \in 1 .. Len(records')
               PROVE  Ahead(records[i].at)' + Size(records[i])'
                      = IF i = Len(records') THEN Ahead(write_at)' ELSE Ahead(records[i + 1].at)'
    BY DEF InARow
  <2>1. CASE i = Len(records')
    BY <1>1, <1>4, <1>8, <1>12, <2>1 DEF new, Ahead, Size, size
  <2>2. CASE i < Len(records)
    <3>1. i \in 1 .. Len(records) /\ i + 1 \in 1 .. Len(records) /\ i # Len(records)
          /\ i # Len(records')
      BY <1>12, <2>2
    <3>2. Ahead(records[i].at) + Size(records[i]) = Ahead(records[i + 1].at)
      BY <3>1 DEF RingInv, InARow
    <3>3. QED  BY <1>11, <3>1, <3>2
  <2>3. CASE i = Len(records)
    <3>1. i \in 1 .. Len(records) /\ records'[i + 1] = new  BY <1>12, <2>3
    <3>2. Ahead(records[i].at) + Size(records[i]) = Ahead(write_at)
      BY <2>3, <3>1 DEF RingInv, InARow
    <3>3. Ahead(records[i + 1].at)' = Ahead(write_at)  BY <1>4, <3>1 DEF new, Ahead
    <3>4. QED  BY <1>11, <1>12, <2>3, <3>1, <3>2, <3>3
  <2>4. QED  BY <1>12, <2>1, <2>2, <2>3
<1>14. Apart'
  <2> SUFFICES ASSUME NEW i \in 1 .. Len(records'), NEW j \in 1 .. Len(records'), i < j
               PROVE  Ahead(records[i].at)' + Size(records[i])' <= Ahead(records[j].at)'
    BY DEF Apart
  <2>0. i \in 1 .. Len(records)  BY <1>12
  <2>1. CASE j = Len(records')
    <3>1. Ahead(records[j].at)' = Ahead(write_at)  BY <1>4, <1>12, <2>1 DEF new, Ahead
    <3>2. QED  BY <1>11, <2>0, <3>1
  <2>2. CASE j # Len(records')
    <3>1. j \in 1 .. Len(records)  BY <1>12, <2>2
    <3>2. QED  BY <1>11, <2>0, <3>1 DEF RingInv, Apart
  <2>3. QED  BY <2>1, <2>2
<1>15. records'[1].at = rx_offset'
  <2>1. CASE records = <<>>  BY <1>4, <1>12, <2>1 DEF RingInv, new
  <2>2. CASE records # <<>>
    <3>1. 1 \in 1 .. Len(records)  BY <1>1, <2>2 DEF RingTyped
    <3>2. QED  BY <1>4, <1>11, <2>2, <3>1 DEF RingInv
  <2>3. QED  BY <2>1, <2>2
<1>16. ReadAt(capr)' = rx_offset'  BY <1>4 DEF RingInv, ReadAt
<1>17. QED  BY <1>10, <1>12, <1>13, <1>14, <1>15, <1>16 DEF RingInv

\* The oldest record is where the driver reads, and no other is there.
LEMMA OldestIsRead ==
    ASSUME RingInv, rok  PROVE  records # <<>> /\ Stored(rx_offset) = records[1]
<1>1. records # <<>> /\ records[1].at = rx_offset
  BY DEF RingInv
<1>2. records \in Seq(Records) /\ 1 \in 1 .. Len(records) /\ DOMAIN records = 1 .. Len(records)
  BY <1>1 DEF RingInv, RingTyped
<1>3. ASSUME NEW i \in 1 .. Len(records), records[i].at = rx_offset
      PROVE  i = 1
  <2> SUFFICES ASSUME 1 < i PROVE FALSE  BY <1>2
  <2>1. records[1] \in Records /\ records[i] \in Records  BY <1>2
  <2>2. Size(records[1]) >= 4 /\ Size(records[1]) \in Nat  BY <2>1, SizeOf
  <2>3. Ahead(rx_offset) = 0  BY AheadOf DEF RingInv, RingTyped
  <2>4. Ahead(records[1].at) + Size(records[1]) <= Ahead(records[i].at)
    BY <1>2 DEF RingInv, Apart
  <2>5. QED  BY <1>1, <1>3, <2>2, <2>3, <2>4
<1>4. (CHOOSE i \in DOMAIN records : records[i].at = rx_offset) = 1
  BY <1>1, <1>2, <1>3
<1>5. QED  BY <1>1, <1>2, <1>4 DEF Stored

LEMMA AdvancedOf ==
    ASSUME NEW o, NEW n
    PROVE  /\ Aligned(o + n + 4) >= RX_SIZE => Advanced(o, n) = Aligned(o + n + 4) - RX_SIZE
           /\ ~(Aligned(o + n + 4) >= RX_SIZE) => Advanced(o, n) = Aligned(o + n + 4)
BY DEF Advanced

LEMMA PollRecvReads ==
    ASSUME RingInv, NEW f, PollRecv(f)
    PROVE  /\ RingInv'
           /\ records # <<>>
           /\ records' = Tail(records)
           /\ f = records[1].frame
<1> DEFINE size == Size(records[1])
<1>1. /\ rok /\ records # <<>> /\ Stored(rx_offset) = records[1]
      /\ records[1].at = rx_offset
  BY OldestIsRead DEF PollRecv, RingInv
<1>2. /\ records \in Seq(Records) /\ Len(records) \in Nat /\ 1 \in 1 .. Len(records)
      /\ \A i \in 1 .. Len(records) : records[i] \in Records
  BY <1>1 DEF RingInv, RingTyped
<1>3. /\ f = records[1].frame
      /\ rx_offset' = Advanced(rx_offset, records[1].plen)
      /\ capr' = (rx_offset' - 16) % CAPR_MOD
      /\ records' = SubSeq(records, FirstKept(capr'), Len(records))
      /\ rok' = FALSE
      /\ write_at' = write_at
  BY <1>1 DEF PollRecv
<1>4. size \in Nat /\ size >= 4 /\ size % 4 = 0
  BY <1>2, SizeOf
<1>5. /\ write_at \in Positions /\ write_at % 4 = 0
      /\ rx_offset \in Positions /\ rx_offset % 4 = 0
      /\ RX_SIZE \in Nat \ {0} /\ RX_SIZE % 4 = 0
  BY NicSizes DEF RingInv, RingTyped
\* The records that stay begin after the first, and all are before write_at.
<1>6. ASSUME NEW i \in 1 .. Len(records)
      PROVE  /\ i = 1 => Ahead(records[i].at) = 0
             /\ i # 1 => size <= Ahead(records[i].at)
  <2>1. Ahead(records[1].at) = 0
    BY <1>1, <1>5, DistanceOf DEF Ahead
  <2>2. i # 1 => size <= Ahead(records[i].at)
    BY <1>2, <1>4, <2>1 DEF RingInv, Apart
  <2>3. QED  BY <2>1, <2>2
<1>7. /\ size <= Ahead(write_at) /\ Ahead(write_at) \in Positions
      /\ size \in Positions /\ size > 0
  <2>1. Ahead(records[1].at) + size <= Ahead(write_at) /\ Ahead(write_at) \in Positions
    BY <1>2, RecordPlace
  <2>2. Ahead(records[1].at) = 0  BY <1>2, <1>6
  <2> HIDE DEF size
  <2>3. QED  BY <1>4, <1>5, <2>1, <2>2 DEF Positions
<1>8. Aligned(rx_offset + records[1].plen + 4) = rx_offset + size
  <2>1. records[1].plen \in Nat /\ rx_offset \in Nat  BY <1>2, <1>5 DEF Records, Positions
  <2>2. \A o, n \in Nat : o % 4 = 0 =>
          ((o + n + 4 + 3) \div 4) * 4 = o + ((n + 4 + 3) \div 4) * 4
    BY SMT
  <2>3. QED  BY <1>5, <2>1, <2>2 DEF Aligned, Size, HEADER
<1> HIDE DEF size
\* The read position moves ahead by the size of the record.
<1>9. rx_offset' = IF rx_offset + size >= RX_SIZE THEN rx_offset + size - RX_SIZE ELSE rx_offset + size
  <2>1. rx_offset \in Nat /\ size \in Nat /\ RX_SIZE \in Nat  BY <1>5, <1>7 DEF Positions
  <2>2. rx_offset' = Advanced(rx_offset, records[1].plen)  BY <1>3
  <2>3. CASE rx_offset + size >= RX_SIZE
    <3>1. rx_offset' = rx_offset + size - RX_SIZE  BY <1>8, <2>1, <2>2, <2>3, AdvancedOf
    <3>2. QED  BY <2>1, <2>3, <3>1
  <2>4. CASE ~(rx_offset + size >= RX_SIZE)
    <3>1. rx_offset' = rx_offset + size  BY <1>8, <2>1, <2>2, <2>4, AdvancedOf
    <3>2. QED  BY <2>1, <2>4, <3>1
  <2>5. QED  BY <2>3, <2>4
<1>10. /\ rx_offset' \in Positions
       /\ \A x \in Positions :
             /\ size <= Distance(rx_offset, x) =>
                  Distance(rx_offset', x) = Distance(rx_offset, x) - size
             /\ Distance(rx_offset, x) = 0 => Distance(rx_offset', x) = RX_SIZE - size
  BY <1>5, <1>7, <1>9, DistanceShrinks
<1>11. rx_offset' % 4 = 0
  BY <1>4, <1>5, <1>9, SMT DEF Positions
<1>12. capr' \in 0 .. CAPR_MOD - 1 /\ ReadAt(capr') = rx_offset'
  BY <1>3, <1>10, CaprRoundTrip DEF Positions
\* So the card gives up the first record and no other.
<1>13. ASSUME NEW i \in 1 .. Len(records)
       PROVE  Kept(records[i], capr') <=> i # 1
  <2> DEFINE at == records[i].at
  <2>1. /\ at \in Positions /\ write_at \in Positions /\ Distance(rx_offset, at) \in Positions
        /\ i = 1 => Distance(rx_offset, at) = 0
        /\ i # 1 => size <= Distance(rx_offset, at)
        /\ Distance(rx_offset, at) < Distance(rx_offset, write_at)
    BY <1>5, <1>6, RecordPlace DEF Positions, Ahead
  <2>2. Kept(records[i], capr') <=> Distance(rx_offset', at) < Distance(rx_offset', write_at)
    BY <1>10, <1>12, <2>1, DistanceOf DEF Kept
  <2> HIDE DEF at
  <2>3. /\ Distance(rx_offset', write_at) = Distance(rx_offset, write_at) - size
        /\ Distance(rx_offset, write_at) < RX_SIZE /\ Distance(rx_offset, write_at) \in Nat
    BY <1>4, <1>5, <1>7, <1>10, <2>1 DEF Ahead, Positions
  <2>4. CASE i = 1
    <3>1. Distance(rx_offset', at) = RX_SIZE - size  BY <1>10, <2>1, <2>4
    <3>2. QED  BY <1>4, <1>5, <2>2, <2>3, <2>4, <3>1
  <2>5. CASE i # 1
    <3>1. Distance(rx_offset', at) = Distance(rx_offset, at) - size  BY <1>10, <2>1, <2>5
    <3>2. QED  BY <1>4, <1>5, <2>1, <2>2, <2>3, <2>5, <3>1 DEF Positions
  <2>6. QED  BY <2>4, <2>5
<1>14. FirstKept(capr') = 2
  <2>1. /\ 2 \in 1 .. Len(records) + 1
        /\ 2 <= Len(records) => Kept(records[2], capr')
        /\ \A j \in 1 .. 2 - 1 : ~Kept(records[j], capr')
    BY <1>2, <1>13
  <2>2. ASSUME NEW i \in 1 .. Len(records) + 1, i <= Len(records) => Kept(records[i], capr'),
               \A j \in 1 .. i - 1 : ~Kept(records[j], capr')
        PROVE  i = 2
    <3>1. i # 1  BY <1>2, <1>13, <2>2
    <3>2. ~(2 < i)
      <4> SUFFICES ASSUME 2 < i PROVE FALSE  OBVIOUS
      <4>1. 2 \in 1 .. i - 1 /\ 2 \in 1 .. Len(records)  BY <1>2
      <4>2. QED  BY <1>13, <2>2, <4>1
    <3>3. QED  BY <1>2, <3>1, <3>2
  <2>3. QED  BY <2>1, <2>2 DEF FirstKept
<1>15. records' = Tail(records)
  BY <1>1, <1>2, <1>3, <1>14
<1>16. /\ Len(records') = Len(records) - 1
       /\ records' \in Seq(Records)
       /\ \A i \in 1 .. Len(records') : i + 1 \in 1 .. Len(records) /\ records'[i] = records[i + 1]
  BY <1>1, <1>2, <1>15
<1>17. RingTyped'
  BY <1>3, <1>5, <1>10, <1>11, <1>12, <1>16 DEF RingTyped
\* Every position that is left is a record closer.
<1>18. ASSUME NEW i \in 1 .. Len(records')
       PROVE  /\ Ahead(records[i].at)' = Ahead(records[i + 1].at) - size
              /\ Ahead(records[i + 1].at) \in Nat
              /\ Size(records[i])' = Size(records[i + 1])
              /\ Size(records[i + 1]) \in Nat
  <2>1. i + 1 \in 1 .. Len(records) /\ records'[i] = records[i + 1] /\ i + 1 # 1
    BY <1>2, <1>16
  <2>2. /\ records[i + 1].at \in Positions /\ size <= Ahead(records[i + 1].at)
        /\ Ahead(records[i + 1].at) \in Nat /\ Size(records[i + 1]) \in Nat
    <3>1. PICK j \in 1 .. Len(records) : j = i + 1 /\ j # 1
      BY <2>1
    <3>2. records[j].at \in Positions /\ Ahead(records[j].at) \in Positions /\ Size(records[j]) \in Nat
      BY RecordPlace
    <3>3. size <= Ahead(records[j].at)
      BY <1>6, <3>1
    <3>4. \A n \in Positions : n \in Nat
      BY <1>5 DEF Positions
    <3>5. QED  BY <3>1, <3>2, <3>3, <3>4
  <2>3. Ahead(records[i].at)' = Ahead(records[i + 1].at) - size
    BY <1>10, <2>1, <2>2 DEF Ahead
  <2>4. QED  BY <2>1, <2>2, <2>3 DEF Size
<1>19. Ahead(write_at)' = Ahead(write_at) - size /\ Ahead(write_at) \in Nat
  BY <1>3, <1>5, <1>7, <1>10 DEF Ahead, Positions
<1>20. InARow'
  <2> SUFFICES ASSUME NEW i \in 1 .. Len(records')
               PROVE  Ahead(records[i].at)' + Size(records[i])'
                      = IF i = Len(records') THEN Ahead(write_at)' ELSE Ahead(records[i + 1].at)'
    BY DEF InARow
  <2>1. Ahead(records[i + 1].at) + Size(records[i + 1])
        = IF i + 1 = Len(records) THEN Ahead(write_at) ELSE Ahead(records[(i + 1) + 1].at)
    BY <1>16 DEF RingInv, InARow
  <2>2. CASE i = Len(records')
    <3>1. i + 1 = Len(records)  BY <1>2, <1>16, <2>2
    <3>2. Ahead(records[i + 1].at) + Size(records[i + 1]) = Ahead(write_at)  BY <2>1, <3>1
    <3>3. QED  BY <1>4, <1>18, <1>19, <2>2, <3>2
  <2>3. CASE i # Len(records')
    <3>1. i + 1 \in 1 .. Len(records') /\ i + 1 # Len(records)  BY <1>2, <1>16, <2>3
    <3>2. Ahead(records[i + 1].at)' = Ahead(records[(i + 1) + 1].at) - size
      BY <1>18, <3>1
    <3>3. QED  BY <1>4, <1>18, <2>1, <2>3, <3>1, <3>2
  <2>4. QED  BY <2>2, <2>3
<1>21. Apart'
  <2> SUFFICES ASSUME NEW i \in 1 .. Len(records'), NEW j \in 1 .. Len(records'), i < j
               PROVE  Ahead(records[i].at)' + Size(records[i])' <= Ahead(records[j].at)'
    BY DEF Apart
  <2>1. Ahead(records[i + 1].at) + Size(records[i + 1]) <= Ahead(records[j + 1].at)
    BY <1>16 DEF RingInv, Apart
  <2>2. /\ Ahead(records[i].at)' = Ahead(records[i + 1].at) - size
        /\ Ahead(records[j].at)' = Ahead(records[j + 1].at) - size
        /\ Ahead(records[i + 1].at) \in Nat /\ Ahead(records[j + 1].at) \in Nat
        /\ Size(records[i])' = Size(records[i + 1]) /\ Size(records[i + 1]) \in Nat
    BY <1>18
  <2>3. QED  BY <1>4, <2>1, <2>2
<1>22. /\ records' = <<>> => write_at' = rx_offset'
       /\ records' # <<>> => records'[1].at = rx_offset'
  <2>1. Ahead(records[1].at) + size
        = IF 1 = Len(records) THEN Ahead(write_at) ELSE Ahead(records[1 + 1].at)
    BY <1>2 DEF RingInv, InARow, size
  <2>2. \A x \in Positions : Distance(rx_offset', x) = 0 => x = rx_offset'
    BY <1>10, DistanceOf
  <2>3. CASE records' = <<>>
    <3>1. Len(records) = 1  BY <1>2, <1>16, <2>3
    <3>2. Ahead(write_at)' = 0  BY <1>2, <1>6, <1>4, <1>19, <2>1, <3>1
    <3>3. QED  BY <1>3, <1>5, <2>2, <2>3, <3>2 DEF Ahead
  <2>4. CASE records' # <<>>
    <3>1. 1 \in 1 .. Len(records')  /\ 1 # Len(records)  BY <1>2, <1>16, <2>4
    <3>2. Ahead(records[1].at)' = 0  BY <1>2, <1>4, <1>6, <1>18, <2>1, <3>1
    <3>3. records'[1].at \in Positions  BY <1>2, <1>16, <3>1 DEF Records
    <3>4. QED  BY <2>2, <2>4, <3>2, <3>3 DEF Ahead
  <2>5. QED  BY <2>3, <2>4
<1>23. RingInv'
  BY <1>3, <1>12, <1>17, <1>20, <1>21, <1>22 DEF RingInv, ReadAt
<1>24. QED  BY <1>1, <1>3, <1>15, <1>23

(***************************************************************************)
(* What net.c knows.  Requests are never taken back, so what has come was  *)
(* asked for, whenever it is read.                                         *)
(***************************************************************************)
Sent == [kind : {"who_has"}, to : Targets]
        \cup [kind : {"echo"}, to : Targets, mac : Local \cup {NoHost}, seq : 1 .. MAX_PINGS]
Phases == {"idle", "arp", "echo", "answered", "silent"}
Known == Local \cup {NoHost}

NetTyped ==
    /\ arp_wait_target_ip \in Targets \cup {NoHost}
    /\ arp_wait_resolved \in BOOLEAN
    /\ arp_wait_mac \in Known
    /\ gateway_mac \in {NoHost, GATEWAY}
    /\ ping_waiting \in BOOLEAN
    /\ ping_wait_seq \in 0 .. MAX_PINGS
    /\ ping_reply_ok \in BOOLEAN
    /\ ping \in [phase : Phases, target : Targets \cup {NoHost}, mac : Known, polls : Nat]
    /\ poller \in {"nobody", "shell", "server"}
    /\ answer \in Answers \cup {NoFrame}
    /\ wire \subseteq Sent

\* Whatever the card holds and net_poll handles came because it could.
OnlyWhatCame ==
    /\ \A i \in 1 .. Len(records) : records[i].frame \in Coming
    /\ frame \in Coming \cup {NoFrame}
    /\ poller = "nobody" => frame = NoFrame

\* net_arp_resolve waits for the host that the ping goes through, and takes
\* the address of no other.
ResolvesTheHop ==
    ping.phase = "arp" =>
        /\ ping.target \in Targets
        /\ ping_wait_seq < MAX_PINGS
        /\ arp_wait_target_ip = Via(ping.target)
        /\ arp_wait_resolved => arp_wait_mac = Via(ping.target)

\* Every echo request has a number of its own, and went the right way.
Echoes == {m \in wire : m.kind = "echo"}
OneNumberEach ==
    /\ \A m \in Echoes : m.mac = Via(m.to) /\ m.seq <= ping_wait_seq
    /\ \A m, n \in Echoes : m.seq = n.seq => m = n

\* The request of this ping has left, and a reply that was taken is to it.
ThisRequest ==
    ping.phase \in {"echo", "answered"} =>
        \E m \in Echoes : m.to = ping.target /\ m.seq = ping_wait_seq
TakenIsReached ==
    ping.phase = "answered" \/ (ping.phase = "echo" /\ ping_reply_ok) =>
        \E m \in Echoes : Reached(m) /\ m.to = ping.target /\ m.seq = ping_wait_seq

NetInv ==
    /\ NetTyped /\ OnlyWhatCame /\ ResolvesTheHop
    /\ OneNumberEach /\ ThisRequest /\ TakenIsReached

LEMMA NumbersInRange ==
    /\ MAX_PINGS \in Nat /\ 0 \in 0 .. MAX_PINGS
    /\ \A n \in 1 .. MAX_PINGS : n % SEQ_MOD = n
<1>1. SEQ_MOD \in Nat \ {0}  BY DEF SEQ_MOD
<1>2. MAX_PINGS \in 1 .. SEQ_MOD - 1  BY NumbersDoNotRepeat
<1>3. MAX_PINGS \in Nat /\ \A n \in 1 .. MAX_PINGS : n \in 0 .. SEQ_MOD - 1
  BY <1>1, <1>2
<1>4. \A n \in 0 .. SEQ_MOD - 1 : n % SEQ_MOD = n
  <2> SUFFICES ASSUME NEW n \in 0 .. SEQ_MOD - 1 PROVE n % SEQ_MOD = n  OBVIOUS
  <2>1. n + 0 = n /\ 0 \in 0 .. SEQ_MOD - 1 /\ n < SEQ_MOD  BY <1>1
  <2>2. (n + 0) % SEQ_MOD = IF n + 0 < SEQ_MOD THEN n + 0 ELSE n + 0 - SEQ_MOD
    BY <1>1, <2>1, Forward
  <2>3. QED  BY <1>1, <2>1, <2>2
<1>5. QED  BY <1>3, <1>4

LEMMA HostsAreTargets ==
    /\ GATEWAY \in Local /\ Local \subseteq Targets /\ NoHost \notin Targets
    /\ \A t \in Targets : Via(t) \in Targets
BY NetConstants DEF Local, Targets, Via

LEMMA ComingTyped == ASSUME NetTyped  PROVE  Coming \subseteq Frames
<1> SUFFICES ASSUME NEW f \in Coming PROVE f \in Frames  OBVIOUS
<1>1. CASE f \in {ArpRequest(GATEWAY), EchoRequest(GATEWAY), Other}
  BY <1>1, HostsAreTargets DEF ArpRequest, EchoRequest, Other, Frames
<1>2. ASSUME NEW m \in wire, m.to \in Local, f = ArpReply(m.to)  PROVE  f \in Frames
  BY <1>2 DEF ArpReply, Frames
<1>3. ASSUME NEW m \in wire, m.kind = "echo", Reached(m), f = EchoReply(m.to, m.seq)
      PROVE  f \in Frames
  <2>1. m.seq \in 1 .. MAX_PINGS /\ m.to \in Up  BY <1>3 DEF NetTyped, Sent, Reached
  <2>2. QED  BY <1>3, <2>1 DEF EchoReply, Frames
<1>4. QED  BY <1>1, <1>2, <1>3 DEF Coming

LEMMA ComingGrows == ASSUME wire \subseteq wire'  PROVE  Coming \subseteq Coming'
BY DEF Coming, Reached

\* A reply that is handled was asked for by an echo request that arrived.
LEMMA ReplyWasAsked ==
    ASSUME NEW f \in Coming, f.kind = "reply"
    PROVE  \E m \in Echoes : Reached(m) /\ f.seq = m.seq
BY DEF Coming, Echoes, ArpRequest, EchoRequest, Other, ArpReply, EchoReply

LEMMA ArpReplyIsLocal ==
    ASSUME NetTyped, NEW f \in Coming, f.kind = "is_at"
    PROVE  f.from \in Local
BY ComingTyped DEF Frames, Other

LEMMA RequestIsLocal ==
    ASSUME NetTyped, NEW f \in Coming, f.kind \in {"who_has", "echo"}
    PROVE  f.from \in Local
BY ComingTyped DEF Frames, Other

LEMMA InitNet == Init => RingInv /\ NetInv
<1> SUFFICES ASSUME Init PROVE RingInv /\ NetInv  OBVIOUS
<1>1. RingInv  BY RingInit DEF Init
<1>2. ping = NotPinging /\ wire = {} /\ records = <<>>  BY DEF Init, NicInit
<1>3. NetTyped
  <2>1. 0 \in 0 .. MAX_PINGS  BY NumbersInRange
  <2>2. ping \in [phase : Phases, target : Targets \cup {NoHost}, mac : Known, polls : Nat]
    BY <1>2 DEF NotPinging, Phases, Known
  <2>3. QED  BY <1>2, <2>1, <2>2 DEF Init, NetTyped, Known
<1>4. QED
  BY <1>1, <1>2, <1>3
  DEF Init, NetInv, OnlyWhatCame, ResolvesTheHop, OneNumberEach, Echoes, ThisRequest,
      TakenIsReached, NotPinging

(***************************************************************************)
(* The steps.                                                              *)
(***************************************************************************)

LEMMA ArriveStep ==
    ASSUME RingInv, NetInv, NEW f \in Coming, Arrive(f)
    PROVE  /\ RingInv' /\ NetInv'
           /\ records' = Append(records, [at |-> write_at, frame |-> f, plen |-> LengthOf(f)])
<1>1. f \in Frames /\ LengthOf(f) \in Nat /\ Store(f, LengthOf(f))
  BY ComingTyped, NetConstants DEF NetInv, LengthOf, Arrive
<1>2. RingInv'  BY <1>1, StoreKeepsRing
<1>3. records' = Append(records, [at |-> write_at, frame |-> f, plen |-> LengthOf(f)])
  BY <1>1 DEF Store
<1>4. UNCHANGED <<arpVars, waitVars, ping, poller, frame, answer, wire>>
  BY DEF Arrive
<1>5. Coming' = Coming  BY <1>4 DEF Coming, Reached
<1>6. OnlyWhatCame'
  <2>1. records \in Seq(Records)  BY DEF RingInv, RingTyped
  <2>2. \A i \in 1 .. Len(records') : records'[i].frame \in Coming
    BY <1>3, <2>1 DEF NetInv, OnlyWhatCame
  <2>3. QED  BY <1>4, <1>5, <2>2 DEF NetInv, OnlyWhatCame
<1>7. NetInv'
  BY <1>4, <1>6 DEF NetInv, NetTyped, ResolvesTheHop, OneNumberEach, Echoes, ThisRequest,
     TakenIsReached, Reached, arpVars, waitVars
<1>8. QED  BY <1>2, <1>3, <1>7

LEMMA PollStep ==
    ASSUME RingInv, NetInv, NEW who \in {"shell", "server"}, Poll(who)
    PROVE  /\ RingInv' /\ NetInv'
           /\ \/ records # <<>> /\ records' = Tail(records) /\ frame' = records[1].frame
              \/ UNCHANGED <<records, frame>>
<1>1. UNCHANGED <<arpVars, waitVars, ping, answer, wire>> /\ poller = "nobody" /\ poller' = who
  BY DEF Poll
<1>2. Coming' = Coming  BY <1>1 DEF Coming, Reached
<1>3. frame = NoFrame  BY <1>1 DEF NetInv, OnlyWhatCame
<1>4. records \in Seq(Records)  BY DEF RingInv, RingTyped
<1>5. /\ RingInv' /\ OnlyWhatCame'
      /\ \/ records # <<>> /\ records' = Tail(records) /\ frame' = records[1].frame
         \/ UNCHANGED <<records, frame>>
  <2>1. ASSUME NEW f, PollRecv(f), frame' = f
        PROVE  /\ RingInv' /\ OnlyWhatCame'
               /\ records # <<>> /\ records' = Tail(records) /\ frame' = records[1].frame
    <3>1. RingInv' /\ records # <<>> /\ records' = Tail(records) /\ f = records[1].frame
      BY <2>1, PollRecvReads
    <3>2. /\ \A i \in 1 .. Len(records') : records'[i].frame \in Coming
          /\ records[1].frame \in Coming
      BY <1>4, <3>1 DEF NetInv, OnlyWhatCame
    <3>3. QED  BY <1>1, <1>2, <2>1, <3>1, <3>2 DEF OnlyWhatCame
  <2>2. CASE PollNothing /\ frame' = NoFrame
    <3>1. RingInv' /\ records' = records  BY <2>2, SameRing DEF PollNothing, nicVars
    <3>2. QED  BY <1>1, <1>2, <1>3, <2>2, <3>1 DEF NetInv, OnlyWhatCame
  <2>3. QED  BY <2>1, <2>2 DEF Poll
<1>6. NetInv'
  BY <1>1, <1>5 DEF NetInv, NetTyped, ResolvesTheHop, OneNumberEach, Echoes, ThisRequest,
     TakenIsReached, Reached, arpVars, waitVars
<1>7. QED  BY <1>5, <1>6

LEMMA HandleStep ==
    ASSUME RingInv, NetInv, Handle
    PROVE  RingInv' /\ NetInv' /\ UNCHANGED records /\ frame # NoFrame /\ frame' = NoFrame
<1>1. /\ UNCHANGED <<nicVars, ping, poller, wire>> /\ frame # NoFrame /\ frame' = NoFrame
      /\ frame \in Coming
  BY DEF Handle, NetInv, OnlyWhatCame
<1>2. RingInv' /\ UNCHANGED records  BY <1>1, SameRing DEF nicVars
<1>3. Coming' = Coming /\ Echoes' = Echoes  BY <1>1 DEF Coming, Echoes, Reached
<1>4. OnlyWhatCame'  BY <1>1, <1>2, <1>3 DEF NetInv, OnlyWhatCame
\* What the handler writes.
<1>5. /\ arp_wait_target_ip' = arp_wait_target_ip
      /\ ping_waiting' = ping_waiting /\ ping_wait_seq' = ping_wait_seq
      /\ \/ UNCHANGED <<arp_wait_resolved, arp_wait_mac>>
         \/ arp_wait_resolved' /\ arp_wait_mac' = arp_wait_target_ip /\ arp_wait_mac' \in Local
      /\ arp_wait_resolved' \in BOOLEAN
      /\ gateway_mac' \in {gateway_mac, GATEWAY}
      /\ \/ UNCHANGED ping_reply_ok
         \/ /\ ping_reply_ok' \in BOOLEAN
            /\ ping_reply_ok' => ping_reply_ok \/ \E m \in Echoes : Reached(m) /\ m.seq = ping_wait_seq
      /\ answer' \in Answers \cup {NoFrame}
  <2>0. arp_wait_resolved \in BOOLEAN /\ ping_reply_ok \in BOOLEAN /\ answer \in Answers \cup {NoFrame}
    BY DEF NetInv, NetTyped
  <2>1. CASE HandleRequest(frame)
    <3>1. frame.from \in Local  BY <1>1, <2>1, RequestIsLocal DEF HandleRequest, NetInv
    <3>2. QED  BY <2>0, <2>1, <3>1 DEF HandleRequest, ArpAnswer, EchoAnswer, Answers, arpVars, waitVars
  <2>2. CASE HandleArpReply(frame)
    <3>1. frame.from \in Local  BY <1>1, <2>2, ArpReplyIsLocal DEF HandleArpReply, NetInv
    <3>2. QED  BY <2>0, <2>2, <3>1 DEF HandleArpReply, OfSought, waitVars
  <2>3. CASE HandleEchoReply(frame)
    <3>1. \E m \in Echoes : Reached(m) /\ frame.seq = m.seq
      BY <1>1, <2>3, ReplyWasAsked DEF HandleEchoReply
    <3>2. QED  BY <2>0, <2>3, <3>1 DEF HandleEchoReply, ForThisPing, arpVars
  <2>4. CASE HandleOther(frame)
    BY <2>0, <2>4 DEF HandleOther, arpVars, waitVars
  <2>5. QED  BY <2>1, <2>2, <2>3, <2>4 DEF Handle
<1>6. NetTyped'
  BY <1>1, <1>5 DEF NetInv, NetTyped, Known
<1>7. ResolvesTheHop'
  BY <1>1, <1>5 DEF NetInv, ResolvesTheHop
<1>8. OneNumberEach' /\ ThisRequest'
  BY <1>1, <1>3, <1>5 DEF NetInv, OneNumberEach, ThisRequest
\* A reply with the number of this ping is a reply to its request.
<1>9. TakenIsReached'
  <2>1. ASSUME NEW m \in Echoes, Reached(m), m.seq = ping_wait_seq, ping.phase = "echo"
        PROVE  m.to = ping.target
    BY <2>1 DEF NetInv, ThisRequest, OneNumberEach
  <2>2. QED
    BY <1>1, <1>3, <1>5, <2>1 DEF NetInv, TakenIsReached, Reached
<1>10. QED  BY <1>1, <1>2, <1>4, <1>6, <1>7, <1>8, <1>9 DEF NetInv

\* The steps of the shell and of the server that leave the card alone.
LEMMA QuietStep ==
    ASSUME RingInv, NetInv, UNCHANGED <<nicVars, frame>>, wire \subseteq wire',
           poller' = "nobody" => frame = NoFrame
    PROVE  RingInv' /\ OnlyWhatCame' /\ UNCHANGED records
<1>1. RingInv' /\ UNCHANGED records  BY SameRing DEF nicVars
<1>2. QED  BY <1>1, ComingGrows DEF NetInv, OnlyWhatCame

LEMMA ReturnSays ==
    ASSUME NetInv, NEW outcome \in {"answered", "silent"}, Return(outcome)
    PROVE  /\ ping' \in [phase : Phases, target : Targets \cup {NoHost}, mac : Known, polls : Nat]
           /\ ping'.phase = outcome /\ ping'.target = ping.target
BY DEF NetInv, NetTyped, Return, Phases, Known

LEMMA PollDoneSteps ==
    ASSUME RingInv, NetInv, ServerReturns \/ NotResolved \/ Answered \/ NotAnswered
    PROVE  RingInv' /\ NetInv' /\ UNCHANGED <<records, frame>>
<1>1. /\ UNCHANGED <<nicVars, frame, wire>> /\ frame = NoFrame
      /\ poller' = "nobody" /\ answer' = NoFrame
      /\ UNCHANGED <<arp_wait_resolved, arp_wait_mac, gateway_mac, ping_wait_seq, ping_reply_ok>>
  BY DEF ServerReturns, NotResolved, Answered, NotAnswered, PollDone, arpVars, waitVars
<1>2. RingInv' /\ OnlyWhatCame' /\ UNCHANGED records  BY <1>1, QuietStep
<1>3. /\ ping' \in [phase : Phases, target : Targets \cup {NoHost}, mac : Known, polls : Nat]
      /\ ping'.target = ping.target
      /\ ping'.phase \in {ping.phase, "answered", "silent"}
      /\ ping'.phase = "answered" => ping.phase = "answered" \/ (ping.phase = "echo" /\ ping_reply_ok)
      /\ arp_wait_target_ip' \in {arp_wait_target_ip, NoHost}
      /\ ping'.phase = "arp" => arp_wait_target_ip' = arp_wait_target_ip
      /\ ping_waiting' \in BOOLEAN
  <2>1. /\ ping \in [phase : Phases, target : Targets \cup {NoHost}, mac : Known, polls : Nat]
        /\ ping_waiting \in BOOLEAN
    BY DEF NetInv, NetTyped
  <2>2. CASE ServerReturns  BY <2>1, <2>2 DEF ServerReturns, arpVars, waitVars
  <2>3. CASE NotResolved
    <3>1. CASE ping.polls + 1 < ARP_POLLS
      BY <2>1, <2>3, <3>1 DEF NotResolved, waitVars
    <3>2. CASE ~(ping.polls + 1 < ARP_POLLS)
      BY <2>1, <2>3, <3>2, ReturnSays DEF NotResolved, waitVars
    <3>3. QED  BY <3>1, <3>2
  <2>4. CASE Answered  BY <2>1, <2>4, ReturnSays DEF Answered, arpVars
  <2>5. CASE NotAnswered
    <3>1. CASE ping.polls + 1 < PING_POLLS
      BY <2>1, <2>5, <3>1 DEF NotAnswered, arpVars
    <3>2. CASE ~(ping.polls + 1 < PING_POLLS)
      BY <2>1, <2>5, <3>2, ReturnSays DEF NotAnswered, arpVars
    <3>3. QED  BY <3>1, <3>2
  <2>6. QED  BY <2>2, <2>3, <2>4, <2>5
<1>4. NetTyped'
  BY <1>1, <1>3 DEF NetInv, NetTyped
<1>5. ResolvesTheHop' /\ OneNumberEach' /\ ThisRequest' /\ TakenIsReached'
  BY <1>1, <1>3 DEF NetInv, ResolvesTheHop, OneNumberEach, ThisRequest, TakenIsReached, Echoes, Reached
<1>6. QED  BY <1>1, <1>2, <1>4, <1>5 DEF NetInv

\* The number is new, so the request is this ping's alone.
LEMMA SendEchoStep ==
    ASSUME NetInv, NEW t \in Targets, NEW mac, SendEcho(t, mac), mac = Via(t), mac \in Local,
           ping_wait_seq < MAX_PINGS
    PROVE  /\ wire \subseteq wire' /\ wire' \subseteq Sent
           /\ ping_wait_seq' \in 0 .. MAX_PINGS
           /\ ping_waiting' \in BOOLEAN /\ ping_reply_ok' \in BOOLEAN
           /\ ping' \in [phase : Phases, target : Targets \cup {NoHost}, mac : Known, polls : Nat]
           /\ ResolvesTheHop' /\ OneNumberEach' /\ ThisRequest' /\ TakenIsReached'
<1> DEFINE n == ping_wait_seq + 1
           request == [kind |-> "echo", to |-> t, mac |-> mac, seq |-> n]
<1>1. ping_wait_seq \in Nat /\ n \in 1 .. MAX_PINGS
  BY NumbersInRange DEF NetInv, NetTyped
<1>2. n % SEQ_MOD = n
  BY <1>1, NumbersInRange
<1>3. /\ ping_wait_seq' = n /\ ping_reply_ok' = FALSE /\ ping_waiting' = TRUE
      /\ wire' = wire \cup {request}
      /\ ping' = [phase |-> "echo", target |-> t, mac |-> mac, polls |-> 0]
  BY <1>2 DEF SendEcho, NicSend
<1> HIDE DEF n
<1>4. request \in Sent /\ Echoes' = Echoes \cup {request}
  BY <1>1, <1>3 DEF Sent, Echoes
<1>5. \A m \in Echoes : m.mac = Via(m.to) /\ m.seq < n
  <2>1. \A m \in Echoes : m.seq \in 1 .. MAX_PINGS  BY DEF NetInv, NetTyped, Echoes, Sent
  <2>2. QED  BY <1>1, <2>1 DEF NetInv, OneNumberEach, n
<1>6. OneNumberEach'
  <2>1. \A m \in Echoes : m.seq \in 1 .. MAX_PINGS  BY DEF NetInv, NetTyped, Echoes, Sent
  <2>2. QED  BY <1>1, <1>3, <1>4, <1>5, <2>1 DEF NetInv, OneNumberEach
<1>7. ThisRequest'  BY <1>3, <1>4 DEF ThisRequest
<1>8. ResolvesTheHop' /\ TakenIsReached'  BY <1>3 DEF ResolvesTheHop, TakenIsReached
<1>9. ping' \in [phase : Phases, target : Targets \cup {NoHost}, mac : Known, polls : Nat]
  BY <1>3 DEF Phases, Known
<1>10. wire \subseteq wire' /\ wire' \subseteq Sent
  BY <1>3, <1>4 DEF NetInv, NetTyped
<1>11. n \in 0 .. MAX_PINGS  BY <1>1
<1>12. QED  BY <1>3, <1>6, <1>7, <1>8, <1>9, <1>10, <1>11

LEMMA ResolvedStep ==
    ASSUME RingInv, NetInv, Resolved
    PROVE  RingInv' /\ NetInv' /\ UNCHANGED <<records, frame>>
<1>1. /\ UNCHANGED <<nicVars, arp_wait_resolved, arp_wait_mac, gateway_mac, frame>>
      /\ frame = NoFrame /\ poller' = "nobody" /\ answer' = NoFrame
      /\ arp_wait_target_ip' = NoHost
      /\ SendEcho(ping.target, arp_wait_mac)
  BY DEF Resolved, PollDone
<1>2. /\ ping.target \in Targets /\ ping_wait_seq < MAX_PINGS
      /\ arp_wait_mac = Via(ping.target)
  BY DEF Resolved, NetInv, ResolvesTheHop
<1>3. arp_wait_mac \in Local
  BY <1>2, HostsAreTargets DEF NetInv, NetTyped, Known
<1>4. /\ wire \subseteq wire' /\ wire' \subseteq Sent
      /\ ping_wait_seq' \in 0 .. MAX_PINGS
      /\ ping_waiting' \in BOOLEAN /\ ping_reply_ok' \in BOOLEAN
      /\ ping' \in [phase : Phases, target : Targets \cup {NoHost}, mac : Known, polls : Nat]
      /\ ResolvesTheHop' /\ OneNumberEach' /\ ThisRequest' /\ TakenIsReached'
  BY <1>1, <1>2, <1>3, SendEchoStep
<1>5. RingInv' /\ OnlyWhatCame' /\ UNCHANGED records
  BY <1>1, <1>4, QuietStep
<1>6. NetTyped'
  BY <1>1, <1>4 DEF NetInv, NetTyped
<1>7. QED  BY <1>1, <1>4, <1>5, <1>6 DEF NetInv

LEMMA StartPingStep ==
    ASSUME RingInv, NetInv, NEW t \in Targets, StartPing(t)
    PROVE  RingInv' /\ NetInv' /\ UNCHANGED <<records, frame>>
<1>1. /\ UNCHANGED <<nicVars, arp_wait_mac, gateway_mac, poller, frame, answer>>
      /\ poller = "nobody" /\ frame = NoFrame /\ ping_wait_seq < MAX_PINGS
  BY DEF StartPing, NetInv, OnlyWhatCame
<1>2. CASE Via(t) = GATEWAY /\ gateway_mac # NoHost
  <2>1. /\ SendEcho(t, gateway_mac) /\ gateway_mac = Via(t) /\ gateway_mac \in Local
        /\ UNCHANGED <<arp_wait_target_ip, arp_wait_resolved>>
    BY <1>2, HostsAreTargets DEF StartPing, NetInv, NetTyped
  <2>2. /\ wire \subseteq wire' /\ wire' \subseteq Sent
        /\ ping_wait_seq' \in 0 .. MAX_PINGS
        /\ ping_waiting' \in BOOLEAN /\ ping_reply_ok' \in BOOLEAN
        /\ ping' \in [phase : Phases, target : Targets \cup {NoHost}, mac : Known, polls : Nat]
        /\ ResolvesTheHop' /\ OneNumberEach' /\ ThisRequest' /\ TakenIsReached'
    BY <1>1, <2>1, SendEchoStep
  <2>3. RingInv' /\ OnlyWhatCame' /\ UNCHANGED records
    BY <1>1, <2>2, QuietStep
  <2>4. NetTyped'
    BY <1>1, <2>1, <2>2 DEF NetInv, NetTyped
  <2>5. QED  BY <1>1, <2>2, <2>3, <2>4 DEF NetInv
<1>3. CASE ~(Via(t) = GATEWAY /\ gateway_mac # NoHost)
  <2> DEFINE request == [kind |-> "who_has", to |-> Via(t)]
  <2>1. /\ arp_wait_target_ip' = Via(t) /\ arp_wait_resolved' = FALSE
        /\ wire' = wire \cup {request} /\ UNCHANGED waitVars
        /\ ping' = [phase |-> "arp", target |-> t, mac |-> NoHost, polls |-> 0]
    BY <1>3 DEF StartPing, NicSend
  <2>2. request \in Sent /\ Echoes' = Echoes
    BY <2>1, HostsAreTargets DEF Sent, Echoes
  <2>3. RingInv' /\ OnlyWhatCame' /\ UNCHANGED records
    BY <1>1, <2>1, QuietStep
  <2>4. ping' \in [phase : Phases, target : Targets \cup {NoHost}, mac : Known, polls : Nat]
    BY <2>1 DEF Phases, Known
  <2>5. Via(t) \in Targets  BY HostsAreTargets
  <2>6. NetTyped'
    BY <1>1, <2>1, <2>2, <2>4, <2>5 DEF NetInv, NetTyped, waitVars
  <2>7. ResolvesTheHop' /\ OneNumberEach' /\ ThisRequest' /\ TakenIsReached'
    BY <1>1, <2>1, <2>2
    DEF NetInv, ResolvesTheHop, OneNumberEach, ThisRequest, TakenIsReached, waitVars
  <2>8. QED  BY <1>1, <2>3, <2>6, <2>7 DEF NetInv
<1>4. QED  BY <1>2, <1>3

LEMMA PromptStep ==
    ASSUME RingInv, NetInv, Prompt
    PROVE  RingInv' /\ NetInv' /\ UNCHANGED <<records, frame>>
<1>1. /\ UNCHANGED <<nicVars, arpVars, waitVars, poller, frame, answer, wire>>
      /\ ping' = NotPinging /\ poller = "nobody" /\ frame = NoFrame
  BY DEF Prompt, NetInv, OnlyWhatCame
<1>2. RingInv' /\ OnlyWhatCame' /\ UNCHANGED records  BY <1>1, QuietStep
<1>3. ping' \in [phase : Phases, target : Targets \cup {NoHost}, mac : Known, polls : Nat]
      /\ ping'.phase = "idle"
  BY <1>1 DEF NotPinging, Phases, Known
<1>4. NetTyped'  BY <1>1, <1>3 DEF NetInv, NetTyped, arpVars, waitVars
<1>5. QED
  BY <1>1, <1>2, <1>3, <1>4
  DEF NetInv, ResolvesTheHop, OneNumberEach, Echoes, ThisRequest, TakenIsReached, waitVars

\* What the steps do to the frames that wait and to the one being handled:
\* a frame comes in at the end, one is taken from the front, or nothing.
QueueStep ==
    \/ \E f \in Frames, n \in Nat : records' = Append(records, [at |-> write_at, frame |-> f, plen |-> n])
                           /\ UNCHANGED frame
    \/ records # <<>> /\ frame = NoFrame /\ records' = Tail(records) /\ frame' = records[1].frame
    \/ frame # NoFrame /\ frame' = NoFrame /\ UNCHANGED records
    \/ UNCHANGED <<records, frame>>

LEMMA NetStep ==
    ASSUME RingInv, NetInv, [Next]_vars  PROVE  RingInv' /\ NetInv' /\ QueueStep
<1>1. ASSUME NEW f \in Coming, Arrive(f)  PROVE  RingInv' /\ NetInv' /\ QueueStep
  <2>1. f \in Frames /\ LengthOf(f) \in Nat  BY ComingTyped, NetConstants DEF NetInv, LengthOf
  <2>2. UNCHANGED frame  BY <1>1 DEF Arrive
  <2>3. QED  BY <1>1, <2>1, <2>2, ArriveStep DEF QueueStep
<1>2. CASE Handle  BY <1>2, HandleStep DEF QueueStep
<1>3. CASE ServerPolls \/ ShellPolls
  <2>1. PICK who \in {"shell", "server"} : Poll(who)  BY <1>3 DEF ServerPolls, ShellPolls
  <2>2. frame = NoFrame  BY <2>1 DEF Poll, NetInv, OnlyWhatCame
  <2>3. QED  BY <2>1, <2>2, PollStep DEF QueueStep
<1>4. CASE ServerReturns \/ NotResolved \/ Answered \/ NotAnswered
  BY <1>4, PollDoneSteps DEF QueueStep
<1>5. CASE Resolved  BY <1>5, ResolvedStep DEF QueueStep
<1>6. ASSUME NEW t \in Targets, StartPing(t)  PROVE  RingInv' /\ NetInv' /\ QueueStep
  BY <1>6, StartPingStep DEF QueueStep
<1>7. CASE Prompt  BY <1>7, PromptStep DEF QueueStep
<1>8. CASE UNCHANGED vars
  <2>1. RingInv' /\ UNCHANGED <<records, frame>>  BY <1>8, SameRing DEF vars, nicVars
  <2>2. NetInv'
    BY <1>8, <2>1
    DEF vars, arpVars, waitVars, NetInv, NetTyped, OnlyWhatCame, Coming, Reached,
        ResolvesTheHop, OneNumberEach, Echoes, ThisRequest, TakenIsReached
  <2>3. QED  BY <2>1, <2>2 DEF QueueStep
<1>9. QED
  BY <1>1, <1>2, <1>3, <1>4, <1>5, <1>6, <1>7, <1>8 DEF Next, Shell

LEMMA Invariants == Spec => [](RingInv /\ NetInv)
<1>1. RingInv /\ NetInv /\ [Next]_vars => RingInv' /\ NetInv'  BY NetStep
<1>2. QED  BY <1>1, InitNet, PTL DEF Spec

(***************************************************************************)
(* The theorems.                                                           *)
(***************************************************************************)

\* "respuesta recibida" is said only of a host that is up and that this very
\* ping reached (net_ping, handle_icmp).
THEOREM PingTruth == Spec => []PingTellsTheTruth
<1>1. NetInv => PingTellsTheTruth
  BY DEF NetInv, TakenIsReached, Echoes, PingTellsTheTruth
<1>2. QED  BY <1>1, Invariants, PTL

\* Pings go to the host they are for or to the gateway (net_arp_resolve,
\* handle_arp, the cache of the gateway's address).
THEOREM EchoRoutes == Spec => []EchoesGoTheRightWay
<1>1. NetInv => EchoesGoTheRightWay
  BY DEF NetInv, NetTyped, OneNumberEach, Echoes, EchoesGoTheRightWay
<1>2. QED  BY <1>1, Invariants, PTL

\* The card and the driver agree where the records begin (nic_poll_recv):
\* what net_poll handles is a queue of the frames that the card kept.
THEOREM NicIsAQueue == Spec => ImplementsFrameQueue
<1> DEFINE q == [i \in DOMAIN records |-> records[i].frame]
<1>1. Init => Queue!Init
  <2> SUFFICES ASSUME Init PROVE Queue!Init  OBVIOUS
  <2>1. records = <<>> /\ frame = NoFrame  BY DEF Init, NicInit
  <2>2. QED  BY <2>1 DEF Queue!Init
<1>2. RingInv /\ NetInv /\ [Next]_vars => [Queue!Next]_<<q, frame>>
  <2> SUFFICES ASSUME RingInv, QueueStep PROVE [Queue!Next]_<<q, frame>>
    BY NetStep
  <2>0. records \in Seq(Records)  BY DEF RingInv, RingTyped
  <2>1. ASSUME NEW f \in Frames, NEW n \in Nat, UNCHANGED frame,
               records' = Append(records, [at |-> write_at, frame |-> f, plen |-> n])
        PROVE  Queue!Arrive(f)
    <3>1. q' = Append(q, f)  BY <2>0, <2>1
    <3>2. QED  BY <2>1, <3>1 DEF Queue!Arrive
  <2>2. CASE records # <<>> /\ frame = NoFrame /\ records' = Tail(records) /\ frame' = records[1].frame
    <3>1. q # <<>> /\ q' = Tail(q) /\ Head(q) = records[1].frame  BY <2>0, <2>2
    <3>2. QED  BY <2>2, <3>1 DEF Queue!Read, Queue!Next
  <2>3. CASE frame # NoFrame /\ frame' = NoFrame /\ UNCHANGED records
    BY <2>3 DEF Queue!Handled, Queue!Next
  <2>4. CASE UNCHANGED <<records, frame>>  BY <2>4
  <2>5. QED  BY <2>1, <2>2, <2>3, <2>4 DEF QueueStep, Queue!Next
<1>3. QED  BY <1>1, <1>2, Invariants, PTL DEF Spec, ImplementsFrameQueue, Queue!Spec
==============================================================================
