SPECIFICATION ProcessSpec
CONSTANTS
  Addresses = {A, B, C, D}
  Stray = Stray
  NumInterfaces = 6
  MaxListed = 4
INVARIANTS
  TypeOK
  PeersFollowNumbers
  OneQpEach
  ReachableIsLive
  NoneStillInUse
  AllGivenBack
CHECK_DEADLOCK FALSE
