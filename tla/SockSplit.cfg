SPECIFICATION FairSpec

CONSTANTS
  LEN = 4
  ROOM = 3
  SIZE_MOD = 16
  MaxWriteEintr = 1
  MaxReadEintr = 1
  Unset = Unset

INVARIANTS
  CountTellsLoss

PROPERTIES
  BothReturn

\* Both calls return, and nothing is left to do.
CHECK_DEADLOCK FALSE
