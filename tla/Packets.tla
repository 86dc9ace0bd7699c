------------------------------- MODULE Packets -------------------------------
(* The byte order and the checksums of netdefs.h, as net.c and tcp.c use them *)
(* to build what they send.  Data is a sequence of bytes.                     *)
EXTENDS Words, Sequences

LOCAL INSTANCE Functions

-----------------------------------------------------------------------------
(* net_bswap16 and net_bswap32: HTONS and NTOHS, HTONL and NTOHL.             *)
Swap16(v) == ((v * BYTE) % HALF) + (v \div BYTE)
WordOf(a, b, c, d) == a * BYTE3 + b * HALF + c * BYTE + d
Swap32(v) ==
    WordOf(v % BYTE, (v \div BYTE) % BYTE, (v \div HALF) % BYTE, (v \div BYTE3) % BYTE)

(* The CPU: a field of a packed struct has its low byte first.                *)
InMemory16(v) == <<v % BYTE, v \div BYTE>>
InMemory32(v) == <<v % BYTE, (v \div BYTE) % BYTE, (v \div HALF) % BYTE, v \div BYTE3>>

-----------------------------------------------------------------------------
(* inet_checksum_partial: words with the high byte first; an odd byte at the  *)
(* end is the high byte of the last word.                                     *)
Words(p) ==
    [k \in 1 .. (Len(p) + 1) \div 2 |->
        p[2 * k - 1] * BYTE + (IF 2 * k <= Len(p) THEN p[2 * k] ELSE 0)]
Partial(p, sum) == FoldFunction(+, sum, Words(p))

(* inet_checksum_finish: the loop folds as long as there is something above   *)
(* 16 bits, which is twice at most (TwoRoundsFold).                           *)
Round(sum) == IF sum \div HALF > 0 THEN (sum % HALF) + (sum \div HALF) ELSE sum
Folded(sum) == Round(Round(sum))
Finish(sum) == (HALF - 1) - Folded(sum)

(* inet_checksum.                                                             *)
Checksum(p) == Finish(Partial(p, 0))

(* net_ping, send_icmp_echo_reply, send_tcp_segment: the field at `at` is 0 while *)
(* the sum is computed, and holds the result, swapped, afterwards.            *)
WithField(p, at, v) ==
    [k \in DOMAIN p |-> IF k \in {at, at + 1} THEN InMemory16(Swap16(v))[k - at + 1] ELSE p[k]]
Sealed(p, at) == WithField(p, at, Checksum(WithField(p, at, 0)))

(* send_tcp_segment: the sum of the pseudo header goes on into the segment.   *)
SealedSegment(pseudo, segment, at) ==
    LET empty == WithField(segment, at, 0)
    IN WithField(segment, at, Finish(Partial(empty, Partial(pseudo, 0))))

(* The bytes of eth_header_t, ip_header_t, tcp_header_t and icmp_header_t.     *)
ETH_HEADER == 6 + 6 + 2
IP_HEADER == 1 + 1 + 2 + 2 + 2 + 1 + 1 + 2 + 4 + 4
TCP_HEADER == 2 + 2 + 4 + 4 + 1 + 1 + 2 + 2 + 2
ICMP_HEADER == 1 + 1 + 2 + 2 + 2

(* send_tcp_segment and send_icmp_echo_reply cut the data to what their       *)
(* buffers have room for; what they pass to net_send_eth.                     *)
Cut(len, room) == IF len > room THEN room ELSE len
SegmentLength(len) == IP_HEADER + TCP_HEADER + Cut(len, 1400)
EchoLength(len) == IP_HEADER + ICMP_HEADER + Cut(len, 64)

(* net_send_eth and nic_send: the bytes on the wire, or 0 when one refuses.   *)
FrameSent(len) ==
    IF len > 1600 - ETH_HEADER \/ ETH_HEADER + len > 1536 THEN 0
    ELSE IF ETH_HEADER + len < 60 THEN 60 ELSE ETH_HEADER + len

(* Whoever receives it: in arithmetic with end-around carry, which is that    *)
(* modulo 65535, the sum of everything is 0, the checksum included.           *)
Verifies(p) == Partial(p, 0) % (HALF - 1) = 0
=============================================================================
