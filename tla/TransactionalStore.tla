--------------------------- MODULE TransactionalStore ---------------------------
(***************************************************************************)
(* What a ClassAdLog promises to the daemon that owns it (the schedd's job *)
(* queue, the negotiator's accounting log, ...), without files or records. *)
(*                                                                         *)
(* cur    the committed contents: whole transactions only                  *)
(* shown  what the contents may be after the process dies                  *)
(* safe   what the contents may be after the machine dies                  *)
(* acked  the last change was acknowledged to the caller as durable        *)
(***************************************************************************)
CONSTANTS States,   \* the possible contents
          Empty     \* the contents of a log that was never written

VARIABLES cur, shown, safe, acked

svars == <<cur, shown, safe, acked>>

SInit ==
  /\ cur = Empty
  /\ shown = {Empty}
  /\ safe = {Empty}
  /\ acked = FALSE

(* One transaction, or one operation outside a transaction, takes effect
   at once; until it is synced a crash may or may not keep it. *)
Change ==
  /\ cur' \in States
  /\ shown' = shown \cup {cur'}
  /\ safe' = safe \cup {cur'}
  /\ acked' = FALSE

(* The caller is told that everything so far is durable. *)
Acknowledge ==
  /\ acked' = TRUE
  /\ shown' = {cur}
  /\ safe' = {cur}
  /\ UNCHANGED cur

(* Buffers reach the operating system or the disk: fewer outcomes of a
   crash are possible, and the acknowledgement stands. *)
Settle ==
  /\ shown' \subseteq shown
  /\ safe' \subseteq safe
  /\ shown' \subseteq safe'
  /\ cur \in shown'
  /\ UNCHANGED <<cur, acked>>

(* The process dies: whatever was handed to the operating system is kept. *)
ProcessCrash ==
  /\ cur' \in shown
  /\ shown' \subseteq shown
  /\ safe' \subseteq safe
  /\ shown' \subseteq safe'
  /\ cur' \in shown'
  /\ acked' = FALSE

(* The machine dies: whatever was synced to the disk is kept. *)
MachineCrash ==
  /\ cur' \in safe
  /\ shown' = {cur'}
  /\ safe' = {cur'}
  /\ acked' = FALSE

SNext ==
  \/ Change
  \/ Acknowledge
  \/ Settle
  \/ ProcessCrash
  \/ MachineCrash

SSpec == SInit /\ [][SNext]_svars
=============================================================================
