\* The smallest context in which a caller has a number when its frame is ended.
CONSTANTS
  PoolSize = 2
  StartFrames = 2
  MaxUsed = 2
  MaxOpen = 2
SPECIFICATION PrecomputeSpec
INVARIANT UsedCountsAssigned
