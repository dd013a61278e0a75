SPECIFICATION FairSpec
CONSTANTS
  MAX_SEND_WR = 4
  num_wc = 2
  INIT_MSG = INIT_MSG
  END_MSG = END_MSG
  Flushed = Flushed
  Message = Message
  Torn = Torn
  None = None
INVARIANTS
  ReadsNeverRefused
PROPERTIES
  ShownOnce
  MessageSeen

\* A post that is refused ends the program.
CHECK_DEADLOCK FALSE
