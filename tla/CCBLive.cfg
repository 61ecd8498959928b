CONSTANTS
  Listeners = {l1, l2}
  Clients = {}
  Conns = {1, 2, 3}
  IPs = {1, 2}
  Home = 1
  Jump = 2
  MaxUnflushed = 1
  MaxFaults = 2
  MaxSweeps = 2
  m_reconnect_allowed_from_any_ip = FALSE
  None = None
SPECIFICATION FairSpec
CHECK_DEADLOCK FALSE
PROPERTY ReachableInTheEnd
