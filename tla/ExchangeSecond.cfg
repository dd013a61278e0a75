SPECIFICATION Spec
CONSTANTS
  NumControllers = 2
  NumInvokers = 1
  MaxCrash = 0
  None = None
  Garbage = Garbage
INVARIANTS
  EveryControllerKnown
CHECK_DEADLOCK FALSE
