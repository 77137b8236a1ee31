\* One full list may wait (the default), four lists of two keys and a last
\* one of one key, so that every path of Flush is taken more than once.  No
\* symmetry, because of the liveness properties.
CONSTANTS
  Workers = {w1, w2}
  OpsNum = 9
  KeyBytes = 2
  LogSize = 3
  SkiplistMaxNum = 1
SPECIFICATION FairSpec
CHECK_DEADLOCK FALSE
INVARIANTS
  BlockIsQueueLength BackPressure OneOwner NoListLost
  FreedOnlyWhenFlushed NvmOutlivesFlushers EveryKeyInOnePlace
PROPERTIES
  ImplementsWriteBehind
  BlockedWriterResumes QueuedListServed WriterDoneThenExit
