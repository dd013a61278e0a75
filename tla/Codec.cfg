SPECIFICATION CodecSpec

CONSTANTS
  PADDING = 10000
  MSG_SIZE = 512
  NUM_BUF_SLOT = 4
  NumInvokers = 4
  PARTS = 32
  ULONG_SIZE = 16777216
  MaxScore = 100
  Colds = {0, 3000, 99999}
  MaxName = 4

INVARIANTS
  RoundTrip
  SlotsApart
  SlotInside
  AddressesMeet
  ScoresComeBack
  HashIsRemainder

\* Every table is tried once.
CHECK_DEADLOCK FALSE
