SPECIFICATION Spec
CONSTANTS
  Pages <- TwoPages
  Rows <- RowShared
  MayAbort <- OnePage
  MayCall = {"purge", "refresh"}
  MaxQueue = 2
  MaxUses = 3
INVARIANTS
  TypeOK
  
  AckedDurable
  NothingForgotten
  
CHECK_DEADLOCK FALSE
