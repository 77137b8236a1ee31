\* Two threads that insert different keys.
CONSTANTS
  Threads = {t1, t2}
  N = 3
  MaxHeight = 1
  Keyings <- DistinctKeys
SPECIFICATION Spec
CHECK_DEADLOCK FALSE
INVARIANT InOrder
