CONSTANTS
  Keys = {k}
  Values = {1}
  MaxTransactions = 2
  MaxEvents = 1
  None = None
SPECIFICATION FairSpec
INVARIANTS MirrorIsPrefix
PROPERTY MirrorCatchesUp
CHECK_DEADLOCK FALSE
