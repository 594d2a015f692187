SPECIFICATION Spec
CONSTANTS
  SIZE = 2
  NumSymbols = 3
  UNVISITED = 16
  K = 2
  Seeds <- MCSeeds
  RawHash <- MCHash
  INITIAL_SIZE = 1
  MIN_PROBES = 1
  LoadNum = 7
  LoadDen = 10
  CellBytes = 1
  Memories <- Shares
  MaxInput = 7
CHECK_DEADLOCK FALSE
PROPERTY RoundTrip
