SPECIFICATION Spec
CONSTANTS
  Shape = "value"
  Self = 2
  RemoteOps <- NoRemoteOps
  Listeners = {"l1"}
  Retains = TRUE
  OfflineWrites = TRUE
  ListenersCall = FALSE
  Faults <- NoFaults
  MaxWrites = 4
  MaxDepth = 1
  MaxLives = 2
INVARIANTS
  NoFork
CHECK_DEADLOCK FALSE
