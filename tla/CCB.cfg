CONSTANTS
  Listeners = {l1, l2}
  Clients = {p1, p2}
  Conns = {1, 2, 3}
  IPs = {1}
  Home = 1
  Jump = 2
  MaxUnflushed = 1
  MaxFaults = 1
  MaxSweeps = 2
  m_reconnect_allowed_from_any_ip = FALSE
  None = None
SPECIFICATION Spec
INVARIANTS RequestsHaveTargets TargetsHaveRecords AnswersAreOwn RequestsReachTheirDaemon
SYMMETRY Symmetry
CHECK_DEADLOCK FALSE
