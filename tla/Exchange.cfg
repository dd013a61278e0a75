SPECIFICATION FairSpec
CONSTANTS
  NumControllers = 2
  NumInvokers = 2
  MaxCrash = 2
  None = None
  Garbage = Garbage
INVARIANTS
  TypeOK
  Paired
  AcceptedKnown
  NobodyHangs
PROPERTIES
  EverybodySettles
CHECK_DEADLOCK FALSE
