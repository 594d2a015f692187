SPECIFICATION Spec
CONSTANTS
  alphabet_size = 4
  eof_symbol = 3
  MAX_ALPHA_SIZE = 5
  Paddings = {0, 1, 7}
  MaxSymbols = 9
  MaxLag = 2
CHECK_DEADLOCK FALSE
INVARIANTS
  WellFormed
  SiblingProperty
  CodesFresh
  Optimal
PROPERTIES
  DecodesOldest
