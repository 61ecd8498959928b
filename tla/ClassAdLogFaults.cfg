CONSTANTS
  Keys = {k1}
  Names = {a}
  Values = {v1}
  k1 = k1
  a = a
  v1 = v1
  Appends <- CreateDestroy
  Unset = Unset
  NoAd = NoAd
  NoTxn = NoTxn
  Parks = TRUE
  MaxHist = 1
  Faults = {"flush", "sync"}
  OptionalTear = TRUE
  MaxLog = 6
  MaxTxn = 2
  MaxSeq = 1
  MaxDowns = 2
SPECIFICATION Spec
INVARIANTS LoadReplaysPrefix
