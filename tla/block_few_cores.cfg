SPECIFICATION Spec
CONSTANTS
  HardwareThreads = {4}
  BlockSize = 2
  FileLengths = {3}
CHECK_DEADLOCK FALSE
PROPERTY CompressEnds
