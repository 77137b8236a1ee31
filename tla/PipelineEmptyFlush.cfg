\* Two full lists, and an empty last one.
CONSTANTS
  Workers = {w1, w2}
  OpsNum = 4
  KeyBytes = 2
  LogSize = 3
  SkiplistMaxNum = 1
SPECIFICATION Spec
SYMMETRY WorkerSymmetry
CHECK_DEADLOCK FALSE
INVARIANT FlushedListNotEmpty
