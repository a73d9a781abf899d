SPECIFICATION GroupsSpec
CONSTANTS
  NoOne = NoOne
  Members = {m1, m2}
  MaxRemovals = 1
  MaxRetries = 2
  MaxPasses = 0
  MaxTimeouts = 0
  MaxLostOpks = 0
  MaxRefreshes = 1
  MaxReloads = 0
  MaxEvents = 3
INVARIANT RotationLocksOut
CHECK_DEADLOCK FALSE
