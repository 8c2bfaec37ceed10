----------------------------- MODULE MCLogfile ------------------------------
EXTENDS LogfileCheck, TLC
CONSTANTS c1, c2, i1, i2
MCRank == [n \in Names |-> IF n = "a" THEN 1 ELSE 2]
MCFirst == [n \in Names |-> IF n = "a" THEN i1 ELSE None]
MCOffsets == c1 :> {} @@ c2 :> {2}
=============================================================================
