SPECIFICATION Spec

CONSTANTS
  LEN = 3
  ROOM = 3
  SIZE_MOD = 16
  MaxWriteEintr = 0
  MaxReadEintr = 0
  Unset = Unset

INVARIANTS
  ReadAsWritten

\* Both calls return, and nothing is left to do.
CHECK_DEADLOCK FALSE
