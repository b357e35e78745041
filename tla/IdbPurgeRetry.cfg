SPECIFICATION Spec
CONSTANTS
  Pages <- OnePage
  Rows <- TwoRows
  MayAbort <- OnePage
  MayCall = {"purge", "refresh", "close"}
  MaxQueue = 2
  MaxUses = 2
INVARIANTS
  PurgeDeletes
CHECK_DEADLOCK FALSE
