SPECIFICATION FairSpec
CONSTANTS
  Shape = "log"
  Self = 2
  RemoteOps <- OneChain
  Listeners = {"l1", "l2"}
  Retains = TRUE
  OfflineWrites = TRUE
  ListenersCall = TRUE
  Faults <- AllFaults
  MaxWrites = 1
  MaxDepth = 2
  MaxLives = 2
INVARIANTS
  TypeOK
  FannedOnce
  NothingMissed
  DeltaIsNews
  BaseIsPrior

  
CHECK_DEADLOCK FALSE
