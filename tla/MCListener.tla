----------------------------- MODULE MCListener -----------------------------
(* Values of the constants of Listener for TLC; packet sizes are scaled to *)
(* V2Data = 5 and V4Data = 9, with outputs on both sides of every limit.   *)
EXTENDS Listener

Req(p, whole, query, crc) ==
    [pkt |-> p, whole |-> whole, query |-> query, crc |-> crc]

MCRequests ==
    {Req(Build(v, 1), TRUE, TRUE, TRUE) : v \in {2, 4}}
    \union {Req(BuildV2(1), FALSE, TRUE, TRUE),
            Req(BuildV2(1), TRUE, FALSE, TRUE),
            Req(BuildV4(7), TRUE, TRUE, FALSE),
            Req(Packet(3, 25, 9, 0), TRUE, TRUE, TRUE),
            Req(Packet(4, 17, 1, 0), TRUE, TRUE, TRUE),
            Req(Packet(4, 26, 10, 0), TRUE, TRUE, TRUE),
            Req(Packet(9, 17, 0, 0), TRUE, TRUE, TRUE)}
=============================================================================
