---------------------------- MODULE MCLedgerRace ----------------------------
(* One quarter with one row, two connections. *)
EXTENDS LedgerRace

CONSTANTS a, b, t1, t2, p1, p2
=============================================================================
