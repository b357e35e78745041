SPECIFICATION FairSpec
CONSTANTS
  Pages <- OnePage
  Rows <- TwoRows
  MayAbort <- NoPages
  MayCall = {"purge", "refresh", "close"}
  MaxQueue = 3
  MaxUses = 3
INVARIANTS
  PurgeDeletes
PROPERTIES
  FlushEnds
CHECK_DEADLOCK FALSE
