CONSTANTS
  p1 = p1
  p2 = p2
  None = None
  Pids <- TwoPids
  MaxReaps = 1
  MaxRetry = 2
  MaxWorkers = {0, 2}
  MaxProcs = 4
SPECIFICATION FairSpec
INVARIANTS TypeOK ReapedOwnStatus EntryHasProcess
PROPERTY ExitIsServiced
