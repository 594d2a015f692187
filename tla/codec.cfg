SPECIFICATION Spec
CONSTANTS
  SIZE = 2
  NumSymbols = 3
  UNVISITED = 16
  K = 2
  Seeds <- MCSeeds
  RawHash <- MCHash
  INITIAL_SIZE = 1
  MIN_PROBES = 1
  LoadNum = 3
  LoadDen = 4
  CellBytes = 1
  Memories <- MCMemories
  MaxInput = 7
CHECK_DEADLOCK FALSE
INVARIANTS
  TypeOK
  Synchronised
  UsedCountsVisited
  DistinctSymbols
  LoadBounded
  ClassicWhole
PROPERTIES
  RoundTrip
  IdealLists
