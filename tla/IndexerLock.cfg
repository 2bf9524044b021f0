SPECIFICATION FairLockSpec
CONSTANTS
  Instances = {i1, i2, i3}
  MaxStarting = 1
  MaxCrashes = 2
  Nobody = Nobody
INVARIANTS
  OneHolder

  
CHECK_DEADLOCK FALSE
