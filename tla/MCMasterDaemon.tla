--------------------------- MODULE MCMasterDaemon ---------------------------
(* Daemons and commands for checking MasterDaemon with TLC. *)
EXTENDS MasterDaemon

AllInOne == <<"HAD", "NEGOTIATOR", "STARTD">>
OneController == [d \in Range(AllInOne) |-> IF d = "NEGOTIATOR" THEN "HAD" ELSE None]

Alone == <<"STARTD">>
NoController == [d \in {"STARTD"} |-> None]

OnAndOff == {"DAEMON_ON", "DAEMON_OFF", "DAEMON_OFF_FAST"}

All == {"DAEMON_ON", "DAEMON_OFF", "DAEMON_OFF_FAST", "DAEMON_OFF_PEACEFUL",
        "CHILD_ON", "CHILD_OFF", "CHILD_OFF_FAST", "NEW_EXECUTABLE",
        "DAEMONS_ON", "DAEMONS_OFF", "DAEMONS_OFF_FAST", "DAEMONS_OFF_PEACEFUL",
        "MASTER_OFF", "MASTER_OFF_FAST", "RESTART"}
=============================================================================
