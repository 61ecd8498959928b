CONSTANTS
  Daemons <- AllInOne
  controller <- OneController
  Startds = {"STARTD"}
  Commands <- All
  m_backoff_constant = 1
  m_backoff_factor = 3
  m_backoff_ceiling = 3
  new_bin_delay = 2
  IntMax = 7
  RestartsCap = 2
  MaxCommands = 2
  None = None
SPECIFICATION FairSpec
INVARIANTS BackoffIsBounded StartTimerMeansDown StopIsArmed LoneDaemonsAreKept
CHECK_DEADLOCK FALSE
PROPERTY ShutdownCompletes
