SPECIFICATION Spec
CONSTANTS
  BYTE = 2
  WORD = 10
  MASK = 32
  sub_k = 2
  K = 4
  Bases <- MCBases
  Table <- MCTable
  Slope = 3
  Offset = 6
  MaxInput = 6
CHECK_DEADLOCK FALSE
INVARIANTS
  HashOfContext
  MinimumOfWindow
