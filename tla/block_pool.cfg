SPECIFICATION Spec
CONSTANTS
  HardwareThreads = {5, 6, 7}
  BlockSize = 2
  FileLengths = {0, 1, 2, 4, 5, 6, 8, 9}
CHECK_DEADLOCK FALSE
INVARIANTS
  ArchiveInOrder
  OutputInOrder
PROPERTIES
  BufferOwned
  PoolEnds
