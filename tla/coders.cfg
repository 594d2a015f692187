SPECIFICATION BothSpec
CONSTANTS
  symbols_amount = 4
  SIZE = 16
  BITS = 8
  MaxInput = 6
  alphabet_size = 9
  FRACTION_BITS = 6
CHECK_DEADLOCK FALSE
INVARIANTS
  RanksOrdered
  ReversibleInside
  Distribution
  Recoverable
