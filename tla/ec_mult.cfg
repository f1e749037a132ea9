CONSTANTS
  NULL = NULL
  Order = 131
  Generators = {1, 2}
  Calls <- RunCalls
  Thresholds = {4, 8}
  BlockSize = 3
  MinWindow = 2
SPECIFICATION Spec
INVARIANTS
  SumsSoFar
  WnafForm
  NothingLost
