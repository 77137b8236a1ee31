\* Lists of one to four keys; the sizes make the first file too small, a later
\* one, neither, or a full list fit exactly.
CONSTANTS
  OpsNum = 9
  KeyBytes = 3
  LogSizes = {0, 3, 4, 5, 11}
  DefaultSize = 6
  Slack = 1
  MaxWaiting = 3
  Width = 8
  Base = 10
  Word = 2000000020
  FirstNumbers <- SomeNumbers
SPECIFICATION Spec
CHECK_DEADLOCK FALSE
INVARIANTS  OverrunsWhenTooLong
