-------------------------------- MODULE MCNet --------------------------------
(* Small instance of Net: the gateway and a host behind it are up, an        *)
(* address on the link and one behind the gateway have no host.              *)
EXTENDS Net, Packets

CONSTANTS gateway, far, nobody, lost

MCUp == {gateway, far}
MCDown == {nobody, lost}
MCOnLink == {gateway, nobody}

-----------------------------------------------------------------------------
(* The checksums of Packets on all short data over bytes that carry.         *)
SomeBytes == {0, 1, 255}
Data(lengths) == UNION {[1 .. n -> SomeBytes] : n \in lengths}

\* What the code seals verifies at whoever receives it, whatever the field held
\* before, with an odd byte at the end or without (netdefs.h:64).
ASSUME SealedDataVerifies ==
    \A p \in Data(2 .. 5) : \A at \in {1, 3} : at < Len(p) => Verifies(Sealed(p, at))

\* The sum that send_tcp_segment carries from the pseudo header into the segment
\* is that of the two in a row, as the pseudo header has an even length
\* (tcp.c:53), so a segment verifies together with its pseudo header.
ASSUME SealedSegmentVerifies ==
    \A pseudo \in Data({0, 2}) : \A segment \in Data(2 .. 4) :
        /\ Partial(segment, Partial(pseudo, 0)) = Partial(pseudo \o segment, 0)
        /\ Verifies(pseudo \o SealedSegment(pseudo, segment, 1))
==============================================================================
