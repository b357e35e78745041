SPECIFICATION Spec
CONSTANTS
  Shape = "value"
  Self = 2
  RemoteOps <- TwoWriters
  Listeners = {"l1", "l2"}
  Retains = TRUE
  OfflineWrites = FALSE
  ListenersCall = FALSE
  Faults <- NoFaults
  MaxWrites = 2
  MaxDepth = 2
  MaxLives = 2
INVARIANTS
  AttachedHoldsSession
  NoFork
  ReturnedHeld
  ViewsCurrent

  
CHECK_DEADLOCK FALSE
