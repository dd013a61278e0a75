SPECIFICATION FairPacedSpec

CONSTANTS
  PADDING = 10000
  MSG_SIZE = 512
  NUM_BUF_SLOT = 2
  NumInvokers = 2
  RECV_DEPTH = 2
  MAX_RECV_WR = 2
  MAX_SEND_WR = 3
  NUM_WC = 2
  MaxWrites = 4
  Stale = Stale
  Torn = Torn
  Flushed = Flushed

INVARIANTS
  TypeOK
  NoLostWakeup
  ReceivesConserved
  OwnWord
  WritesNeverRefused

PROPERTIES
  ImplementsMailbox
  EveryWriteReported

\* The endless write loop stops at MaxWrites, and the invoker then waits for ever.
CHECK_DEADLOCK FALSE
