SPECIFICATION Spec
CONSTANTS
  Tabs = {a, b}
  Users = {u1, u2}
  MaxKeys = 3
  MaxTrouble = 2
  Parallel = FALSE
  None = None
SYMMETRY Symmetry
INVARIANTS
  
  
  InOwnName
  NoLateIdentity
CHECK_DEADLOCK FALSE
