SPECIFICATION FairSpec
CONSTANTS
  Nodes = {n1}
  MaxHeight = 3
  Horizon = 7
  MaxConc = 2
  BatchScrapSize = 2
  ChanCap = 1
  PrepIds = {p1}
  MaxInflightBlocks = 1
  MinInflightBlocks = 1
  MinChainHeightToStart = 0
  StartSet = FALSE
  StartVal = 0
  SerializationErrors = FALSE
  OtherIndexer = FALSE
  MaxCrashes = 1
PROPERTIES Progress
