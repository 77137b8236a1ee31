SPECIFICATION Spec
CONSTANTS
  Args <- MCArgs
  Base = 2
  Digits = 2
  NvmSize = 910
  Heights = {1, 20}
  Extras = {0, 3}
INVARIANTS
  EveryPairHasItsKey
  NoOrderError
  OverrunsOnlyIfTooSmall
  NodesMisaligned
  DividesByZero
