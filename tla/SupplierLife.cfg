SPECIFICATION FairSpec
CONSTANTS
  N = 2
  Refusing <- NoneRefusing
  MaxDrops = 1
  MaxFailures = 2
  MaxAttempt = 1
INVARIANTS
  TypeOK
  OneHandler
  NeverStranded
PROPERTIES
  NoneAfterDetach
  EverServed
CHECK_DEADLOCK FALSE
