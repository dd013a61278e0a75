SPECIFICATION FairLife

CONSTANTS
  PADDING = 10000
  MSG_SIZE = 512
  NUM_BUF_SLOT = 2
  NumInvokers = 1
  RECV_DEPTH = 2
  MAX_RECV_WR = 2
  MAX_SEND_WR = 2
  NUM_WC = 2
  MaxWrites = 3
  Stale = Stale
  Torn = Torn
  Flushed = Flushed
  Consumers = {"event", "poll"}
  MaxFailures = 1

INVARIANTS
  ReceivesAnswered

PROPERTIES
  ImplementsMailbox
  FailureNoticed
  EveryWriteSettled
  DeliveredIsReported

\* The endless write loop stops at MaxWrites, and processes end.
CHECK_DEADLOCK FALSE
