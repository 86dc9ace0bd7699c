--------------------------------- MODULE Nic ---------------------------------
(***************************************************************************)
(* The receive side of rtl8139.c and of the card it drives.  The card      *)
(* writes frames one after the other into a circular buffer and sets ROK;  *)
(* the driver, which is polled and takes no interrupt, follows with        *)
(* rx_offset and tells the card through CAPR what it has read.             *)
(*                                                                         *)
(* The card is outside and modelled from what the driver relies on: a      *)
(* header of four bytes with the length, records aligned to four bytes,    *)
(* WRAP (a record never turns round at the end), CAPR 16 below the read    *)
(* position, frames without room dropped with no ROK.                      *)
(***************************************************************************)
EXTENDS Integers, Sequences

CONSTANTS
    RX_SIZE,        \* bytes of the circular part of rx_buffer (8192)
    CAPR_MOD,       \* values of the register CAPR (2^16)
    NoFrame,        \* nic_poll_recv returns 0
    Junk            \* bytes at rx_offset that are not the header of a record

ASSUME NicSizes ==
    /\ RX_SIZE \in Nat \ {0} /\ RX_SIZE % 4 = 0
    /\ CAPR_MOD \in Nat /\ CAPR_MOD % RX_SIZE = 0 /\ CAPR_MOD >= 16

VARIABLES
    records,    \* in the card: what it has written and CAPR has not passed
    write_at,   \* in the card: where the next record goes
    capr,       \* the register CAPR
    rok,        \* the bit ROK of the register ISR
    rx_offset   \* in the driver: where the next record is read

nicVars == <<records, write_at, capr, rok, rx_offset>>

HEADER == 4
Aligned(n) == ((n + 3) \div 4) * 4      \* (n + 3) & ~3
ReadAt(reg) == (reg + 16) % RX_SIZE     \* what CAPR means to the card

(* After nic_init: reset, empty buffer, receiver on.                       *)
NicInit ==
    /\ records = <<>>
    /\ write_at = 0
    /\ capr = (0 - 16) % CAPR_MOD
    /\ rok = FALSE
    /\ rx_offset = 0

-----------------------------------------------------------------------------
(* The card.  All of the buffer is free when both positions are the same.  *)

Room == IF write_at = ReadAt(capr) THEN RX_SIZE ELSE (ReadAt(capr) - write_at) % RX_SIZE
Fits(plen) == Aligned(plen + HEADER) < Room

Store(f, plen) ==
    /\ Fits(plen)
    /\ records' = Append(records, [at |-> write_at, frame |-> f, plen |-> plen])
    /\ write_at' = (write_at + Aligned(plen + HEADER)) % RX_SIZE
    /\ rok' = TRUE
    /\ UNCHANGED <<capr, rx_offset>>

(* Records between the position that CAPR gives and write_at are kept.     *)
Kept(r, reg) == (r.at - ReadAt(reg)) % RX_SIZE < (write_at - ReadAt(reg)) % RX_SIZE

(* The card gives up its oldest records, up to the first that is kept.     *)
FirstKept(reg) ==
    CHOOSE i \in 1 .. Len(records) + 1 :
        /\ i <= Len(records) => Kept(records[i], reg)
        /\ \A j \in 1 .. i - 1 : ~Kept(records[j], reg)

-----------------------------------------------------------------------------
(* nic_poll_recv.                                                          *)

(* What the bytes at an offset are.                                        *)
Stored(o) ==
    IF \E i \in DOMAIN records : records[i].at = o
    THEN records[CHOOSE i \in DOMAIN records : records[i].at = o]
    ELSE [at |-> o, frame |-> Junk, plen |-> 0]

Advanced_Unaligned(o, plen) ==      \* mutant: the offset is not rounded up
    LET next == o + plen + 4
    IN  IF next >= RX_SIZE THEN next - RX_SIZE ELSE next
Advanced(o, plen) ==
    LET next == Aligned(o + plen + 4)
    IN  IF next >= RX_SIZE THEN next - RX_SIZE ELSE next

(* One record, if ROK is set; ROK is then cleared, even when the card has  *)
(* written more records since.  The branch for a record whose status says  *)
(* that it is damaged (clear ROK, read nothing) is left out: nic_init sets *)
(* neither AER nor AR in RCR, so the card stores no damaged frame, and the *)
(* driver reads at a record, never beside one (OldestIsRead).              *)
PollRecv(f) ==
    /\ rok
    /\ LET r == Stored(rx_offset)
       IN  /\ f = r.frame
           /\ rx_offset' = Advanced(rx_offset, r.plen)
    /\ capr' = (rx_offset' - 16) % CAPR_MOD
    /\ records' = SubSeq(records, FirstKept(capr'), Len(records))
    /\ rok' = FALSE
    /\ UNCHANGED write_at

PollNothing ==
    /\ ~rok
    /\ UNCHANGED nicVars
==============================================================================
