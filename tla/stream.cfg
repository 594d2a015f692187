SPECIFICATION Spec
CONSTANTS
  BLOCK_SIZE = 3
  FileLengths = {0, 1, 3, 5, 6, 7}
CHECK_DEADLOCK FALSE
INVARIANTS
  OneOwner
  ArchiveInOrder
  TableInOrder
  OutputInOrder
PROPERTIES
  BothEnd
