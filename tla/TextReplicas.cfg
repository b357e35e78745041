SPECIFICATION Spec
CONSTANTS
  Origins = {0, 1, 2, 3}
  Replicas = {1, 2, 3}
  Ordered = {1, 2}
  Legacy <- TwoOld
  Holders = {1, 2}
  FirstSeq <- LocalAndSession
  Texts <- SomeTexts
  MaxOps <- FewOps
  MaxBatch = 2
  MaxRestarts <- OnlyReader
INVARIANTS
  TypeOK
  IncrementalIsReplay
  NothingStuck
  
PROPERTIES
  AnchorsHold
CHECK_DEADLOCK FALSE
