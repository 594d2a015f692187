SPECIFICATION EntropySpec
CONSTANTS
  Value = {0, 1}
  eofSymbol = 2
  n = 2
  MaxRun = 3
  length = 2
  MaxInput = 9
  BITS = 3
CHECK_DEADLOCK FALSE
INVARIANTS
  TypeOK
  CoderAgrees
  OutputInOrder
PROPERTIES
  DecoderStops
  BitsAreTokens
