SPECIFICATION FairStart
CONSTANTS
  total_invoker_num = 4
  QP_START = 1
  per_inv_sleep_time = 30
  write_sleep_time = 1
  GAPS = {0, 10, 40, 80}
  MaxEnds = 1
  WRITES_PER_UNIT = 10
  MAX_SEND_WR = 10000
  None = None
  Garbage = Garbage
INVARIANTS
  TypeOK
  PeerOrder
  NoneRefused
  TablesAgree
  WindowBounded
PROPERTIES
  AllDone
CHECK_DEADLOCK FALSE
