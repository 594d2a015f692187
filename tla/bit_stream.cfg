SPECIFICATION Spec
CONSTANTS
  SIZE = 2
  BITS = 2
  MaxBits = 9
CHECK_DEADLOCK FALSE
INVARIANTS
  BitsInOrder
  EndNoticed
