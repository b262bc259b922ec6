SPECIFICATION ReadsSpec
CONSTANTS
  Calls <- MCCalls
  MaxTraces = 2
  Sequence = 3
  Limit = 2
  First = 3
  MaxKey = 5
  MaxRows = 3
  MaxEdges = 4
  Requests = {r1, r2}
  Collections = {c1, c2, c3}
  MaxColHeight = 3
  Clients = {k1, k2}
  MaxStatusHeight = 3
  PageLimit = 2
  MaxItems = 5
  MaxFetched = 8
CHECK_DEADLOCK FALSE
INVARIANTS RowsFollowCalls PagesExact CacheExact StatusHonest NodePagesExact
