------------------------------ MODULE MCClassAdLog ------------------------------
(* Model values and bounds for checking ClassAdLog with TLC. *)
EXTENDS ClassAdLog

CONSTANTS k1, a, v1

New1 == [op |-> "New", key |-> k1]
Destroy1 == [op |-> "Destroy", key |-> k1]
SetTo(v) == [op |-> "Set", key |-> k1, name |-> a, val |-> v]
Delete1 == [op |-> "Delete", key |-> k1, name |-> a]

(* An ad that is created, given an attribute and destroyed. *)
CreateSetDestroy == {New1, SetTo(v1), Destroy1}
(* An ad whose attribute comes and goes. *)
CreateSetDelete == {New1, SetTo(v1), Delete1}
(* An ad that comes and goes. *)
CreateDestroy == {New1, Destroy1}
=============================================================================
