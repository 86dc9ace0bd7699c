--------------------------------- MODULE Rtc ---------------------------------
(***************************************************************************)
(* The real-time clock of rtc.c.  The chip keeps each field of the date in *)
(* a register, in binary or in BCD, and the hour in 24 hours or in 12 with *)
(* a bit for the afternoon; rtc_read undoes that.  It reads the registers  *)
(* one by one while the clock runs, twice, until two passes agree.         *)
(*                                                                         *)
(* Nothing here has a state: what the code computes is compared, for every *)
(* date, with what the chip was given.                                     *)
(***************************************************************************)
EXTENDS Integers

\* Status B: binary or BCD, 24 or 12 hours; and what the chip has.
Modes == [is_binary : BOOLEAN, is_24h : BOOLEAN, has_century : BOOLEAN]

Years == 100 .. 9999
Dates == [second : 0 .. 59, minute : 0 .. 59, hour : 0 .. 23,
          day : 1 .. 31, month : 1 .. 12, year : Years]

------------------------------------------------------------------------------
(* The chip: what its registers hold at a date.  Not every chip has a       *)
(* register for the century; the others read 0xFF there.                    *)

Field(n, b) == IF b.is_binary THEN n ELSE 16 * (n \div 10) + (n % 10)

HourField(h, b) ==
    IF b.is_24h THEN Field(h, b)
    ELSE Field(IF h % 12 = 0 THEN 12 ELSE h % 12, b) + (IF h >= 12 THEN 128 ELSE 0)

CenturyField(year, b) == IF b.has_century THEN Field(year \div 100, b) ELSE 255

Registers(d, b) ==
    [second |-> Field(d.second, b), minute |-> Field(d.minute, b),
     hour |-> HourField(d.hour, b),
     day |-> Field(d.day, b), month |-> Field(d.month, b),
     year |-> Field(d.year % 100, b), century |-> CenturyField(d.year, b)]

------------------------------------------------------------------------------
(* rtc_read                                                                 *)

\* bcd_to_bin
BcdToBin(v) == (v % 16) + (v \div 16) * 10

Decoded(v, b) == IF b.is_binary THEN v ELSE BcdToBin(v)

Hour(hour, b) ==
    LET pm == ~b.is_24h /\ hour >= 128
        bare == IF b.is_binary /\ ~pm THEN hour ELSE Decoded(hour % 128, b)
    IN IF pm THEN (bare + 12) % 24 ELSE bare

\* 0 for none.
Century(c, b) == IF c \in {0, 255} THEN 0 ELSE Decoded(c, b)

Year(year, century) ==
    IF century # 0 THEN century * 100 + year
    ELSE IF year < 70 THEN 2000 + year ELSE 1900 + year

FullYear(r, b) == Year(Decoded(r.year, b), Century(r.century, b))

RtcRead(r, b) ==
    [second |-> Decoded(r.second, b), minute |-> Decoded(r.minute, b),
     hour |-> Hour(r.hour, b),
     day |-> Decoded(r.day, b), month |-> Decoded(r.month, b),
     year |-> FullYear(r, b)]

\* Years that can be told without a register for the century.
YearIsKnown(y, b) == b.has_century \/ y \in 1970 .. 2069

------------------------------------------------------------------------------
(* rtc_read_raw: two passes, each of which reads the fields in the order    *)
(* below.  at[k] is the second, counted from some midnight, in which the    *)
(* k-th read falls; the first pass has the reads 1 to 7.                    *)

Second(t) == t % 60

\* What the loop tests of the seconds; the other fields are compared too.
SecondsAgree(at) == Second(at[1]) = Second(at[8])

\* The reads follow one another, and two passes take less than a minute.
TwoPasses(at) ==
    /\ at \in [1 .. 14 -> Nat]
    /\ \A j, k \in 1 .. 14 : j <= k => at[j] <= at[k]
    /\ at[14] - at[1] < 60
==============================================================================
