--------------------------- MODULE MCCounterRing ---------------------------
(* Three slots and up to seven calls: the ring wraps twice.                *)
EXTENDS CounterRing
=============================================================================
