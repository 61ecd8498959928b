--------------------------- MODULE MCDaemonCoreDriver ---------------------------
(* The signals of a daemon in the order in which daemon_core_main.cpp registers
   them: the internal DC_SERVICEWAITPIDS comes before SIGCHLD, whose handler
   raises it. *)
EXTENDS DaemonCoreDriver

CONSTANTS SERVICEWAITPIDS, SIGCHLD, SIGTERM

Table == <<SERVICEWAITPIDS, SIGCHLD, SIGTERM>>
Unix == {SIGCHLD, SIGTERM}
=============================================================================
