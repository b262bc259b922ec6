SPECIFICATION Spec
CONSTANTS
  Nodes = {n1, n2}
  MaxHeight = 2
  Horizon = 3
  MaxConc = 2
  BatchScrapSize = 2
  ChanCap = 2
  PrepIds = {p1, p2}
  MaxInflightBlocks = 1
  MinInflightBlocks = 1
  MinChainHeightToStart = 0
  StartSet = FALSE
  StartVal = 0
  SerializationErrors = FALSE
  OtherIndexer = FALSE
  MaxCrashes = 0
SYMMETRY PrepPermutations
INVARIANTS FastSyncComplete
