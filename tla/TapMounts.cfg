SPECIFICATION Spec
CONSTANTS
  Taps = {"t1", "t2"}
  Params = {"doc", "part"}
  Values = {"x", "y"}
  FillSpec <- TwoTaps
  Lit = {"t2"}
  MaxOps = 2
  MaxFailures = 1
INVARIANTS
  TypeOK
  
  TapFollowsFill
  ShownIsAssembled
