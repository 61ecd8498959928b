CONSTANTS
  N = 3
  Period = 9
  Primaries = {TRUE, FALSE}
  MasterFails = TRUE
  MaxFaults = 2
SPECIFICATION Spec
INVARIANTS OneLeaderPerPart NeverTwoLeaders NegotiatorsOfLeaders
CHECK_DEADLOCK FALSE
