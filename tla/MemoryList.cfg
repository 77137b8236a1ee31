\* Four Inserts of any of four keys, nodes of height one to three.
CONSTANTS
  N = 4
  MaxHeight = 3
  Keys <- SmallKeys
SPECIFICATION Spec
CHECK_DEADLOCK FALSE
INVARIANTS
  LevelsSorted ShortcutIsSound DeletesEachNodeOnce
