SPECIFICATION Spec
CONSTANTS
  Nodes = {n1}
  MaxHeight = 3
  Horizon = 4
  MaxConc = 1
  BatchScrapSize = 1
  ChanCap = 2
  PrepIds = {p1, p2}
  MaxInflightBlocks = 3
  MinInflightBlocks = 1
  MinChainHeightToStart = 0
  StartSet = TRUE
  StartVal = 2
  SerializationErrors = TRUE
  OtherIndexer = TRUE
  MaxCrashes = 1
SYMMETRY PrepPermutations
INVARIANTS NoHoles
PROPERTIES LogSpec
