------------------------------- MODULE MCCCB -------------------------------
(* Instances of CCB for TLC.  Daemons, like clients, are interchangeable. *)
EXTENDS CCB, TLC

Symmetry == Permutations(Listeners) \cup Permutations(Clients)

=============================================================================
