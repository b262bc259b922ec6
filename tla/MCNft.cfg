SPECIFICATION NftSpec
CONSTANTS
  t1 = t1
  t2 = t2
  c1 = c1
  c2 = c2
  o1 = o1
  Tokens = {t1, t2}
  Collections = {c1, c2}
  ColOf <- MCColOf
  Owners = {o1, o2}
  CreatorOf <- MCCreatorOf
  NameOf <- MCNameOf
  Uris = {1, 2}
  NoOne = NoOne
  MaxHeight = 2
  MaxEvents = 3
SYMMETRY Symmetry
INVARIANTS RowsRight CountsRight CollectPrepared
PROPERTIES PairsNamed
CHECK_DEADLOCK FALSE
