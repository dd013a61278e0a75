SPECIFICATION Spec
CONSTANTS
  Addresses = {A, B, C, D}
  Stray = Stray
  NumInterfaces = 6
  MaxListed = 4
INVARIANTS
  ErrorMeansNoAddress
CHECK_DEADLOCK FALSE
