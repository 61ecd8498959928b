----------------------------- MODULE MCProcessReaper -----------------------------
(* Model values and bounds for checking ProcessReaper with TLC. *)
EXTENDS ProcessReaper

CONSTANTS p1, p2

TwoPids == {p1, p2}
=============================================================================
