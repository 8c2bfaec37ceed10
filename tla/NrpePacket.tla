----------------------------- MODULE NrpePacket -----------------------------
(***************************************************************************)
(* Lengths of nrpe packets (pkg/nrpe).  A payload is text without NUL, so  *)
(* its length is all that building and reading a packet depends on.        *)
(***************************************************************************)
EXTENDS Integers

CONSTANTS
    V2Data,     \* NrpeV2MaxPacketDataLength, 1024 in the code
    V4Data      \* NrpeV4MaxPacketDataLength, 65536 in the code

ASSUME NrpeAssumption == V2Data \in Nat /\ V4Data \in Nat /\ 4 < V2Data /\ V2Data < V4Data

V2Length == V2Data + 12    \* NrpeV2PacketLength
V4Header == 16             \* NrpeV4HeaderLength

\* A packet: its version, its size on the wire, the value of its data length
\* header (v4) and the position of the first NUL in its data area.
Packet(v, size, dlen, nul) == [ver |-> v, size |-> size, dlen |-> dlen, nul |-> nul]

\* A plausible slip: an off-by-one that leaves no room for the NUL.
BuildV2NoNul(n) ==
    LET kept == IF n > V2Data THEN V2Data - 1 ELSE n
    IN  Packet(2, V2Length, 0, kept)

BuildV2(n) ==
    LET kept == IF n >= V2Data THEN V2Data - 1 ELSE n
    IN  Packet(2, V2Length, 0, kept)

BuildV4(n) ==
    LET dlen == IF n + 1 > V4Data THEN V4Data
                ELSE IF n + 1 < V2Data THEN V2Data ELSE n + 1
        kept == IF n + 1 > V4Data THEN V4Data - 1 ELSE n
    IN  Packet(4, V4Header + dlen, dlen, kept)

\* The response to a request of version v; v3 requests get a v2 packet.
Build(v, n) == IF v = 4 THEN BuildV4(n) ELSE BuildV2(n)

\* ReadNrpePacket: bytes it asks for, and the size of the data area it finds.
\* The first read takes V2Length bytes, which hold V2Length - V4Header of data.
Remaining(p) ==
    IF p.ver \in {3, 4} /\ p.dlen > V2Length - V4Header
    THEN p.dlen - (V2Length - V4Header) ELSE 0

DataArea(p) ==
    IF p.ver = 2 THEN V2Length - 12
    ELSE IF p.ver \notin {3, 4} THEN 0
    ELSE IF Remaining(p) > 0 THEN p.dlen ELSE V2Length - V4Header

\* The packet can be read: whole, not too large, and terminated in its data.
Readable(p) ==
    /\ p.ver \in {3, 4} => p.dlen <= V4Data
    /\ p.size >= V2Length + Remaining(p)
    /\ p.nul < DataArea(p)

\* What the peer gets to see of a payload of n bytes.
Kept(v, n) == IF n < (IF v = 4 THEN V4Data ELSE V2Data) THEN n
              ELSE (IF v = 4 THEN V4Data ELSE V2Data) - 1
=============================================================================
