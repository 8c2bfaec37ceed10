----------------------------- MODULE MCInvCache -----------------------------
(* Three requests, three calls: one builds, one waits, and the third can   *)
(* start the next build before the waiter has the mutex.                   *)
EXTENDS InvCache
=============================================================================
