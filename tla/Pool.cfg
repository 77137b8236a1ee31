\* More workers than tasks at times, and fewer at others.  No symmetry,
\* because of the liveness properties.
CONSTANTS
  Workers = {w1, w2, w3}
  Clients = {c1, c2}
  Calls = 2
SPECIFICATION FairSpec
CHECK_DEADLOCK FALSE
INVARIANTS
  NoLostWakeup StopReachesAll NothingDropped
PROPERTIES
  ImplementsTaskPool EveryTaskRuns PoolEnds
