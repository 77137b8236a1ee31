SPECIFICATION FairSpec
CONSTANTS
  Writer = writer
  Threads = {writer, worker1, worker2}
  Half = 8
  A = 3
  Seeds = {0, 5, 7, 12}
INVARIANTS
  ExactWhenAlone
  SticksOnlyAfterRace
PROPERTIES
  StuckForever
  CyclesWhenAlone
