CONSTANTS
  SERVICEWAITPIDS = SERVICEWAITPIDS
  SIGCHLD = SIGCHLD
  SIGTERM = SIGTERM
  None = None
  SigTable <- Table
  UnixSigs <- Unix
  Services = FALSE
SPECIFICATION FairSpec
INVARIANTS NoSleepOnSignal NoStaleWakeup
PROPERTY SignalIsHandled
