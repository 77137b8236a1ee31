\* One full list, and the last one.
CONSTANTS
  Workers = {w1, w2}
  OpsNum = 3
  KeyBytes = 2
  LogSize = 3
  SkiplistMaxNum = 1
SPECIFICATION Spec
SYMMETRY WorkerSymmetry
CHECK_DEADLOCK FALSE
INVARIANT ExitMeansFlushed
