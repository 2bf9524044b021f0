SPECIFICATION LockSpec
CONSTANTS
  Instances = {i1, i2, i3}
  MaxStarting = 2
  MaxCrashes = 1
  Nobody = Nobody
INVARIANT
  OneHolder
CHECK_DEADLOCK FALSE
