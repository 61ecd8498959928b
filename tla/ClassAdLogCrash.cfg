CONSTANTS
  Keys = {k1}
  Names = {a}
  Values = {v1}
  k1 = k1
  a = a
  v1 = v1
  Appends <- CreateSetDelete
  Unset = Unset
  NoAd = NoAd
  NoTxn = NoTxn
  Parks = FALSE
  MaxHist = 1
  Faults = {"hist", "create", "rename"}
  OptionalTear = FALSE
  MaxLog = 5
  MaxTxn = 3
  MaxSeq = 2
  MaxDowns = 2
SPECIFICATION FairSpec
INVARIANTS TypeOK LogMatchesTable OpenLogIsWellFormed RecoveryIsNeverFatal HistoryWindow
PROPERTIES StoreSpec RecoveryCompletes
