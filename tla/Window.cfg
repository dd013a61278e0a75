SPECIFICATION StartSpec
CONSTANTS
  total_invoker_num = 3
  QP_START = 1
  per_inv_sleep_time = 30
  write_sleep_time = 1
  GAPS = {0}
  MaxEnds = 0
  WRITES_PER_UNIT = 10
  MAX_SEND_WR = 2048
  None = None
  Garbage = Garbage
INVARIANTS
  WritesOutlastMesh
CHECK_DEADLOCK FALSE
