\* Four keys in every order, nodes of height one to three.
CONSTANTS
  Threads = {t1}
  N = 4
  MaxHeight = 3
  Keyings <- DistinctKeys
SPECIFICATION FairSpec
CHECK_DEADLOCK FALSE
INVARIANTS
  InOrder NothingCutOff NvmLagsByOnePointer CrashSafe
  PredecessorsHaveKeys FingersFit
  PlaceFound
PROPERTY ImplementsDurableSet EveryInsertEnds
