SPECIFICATION FairSpec
CONSTANTS
  alice = alice
  bob = bob
  carol = carol
  Accounts <- MCAccounts
  MaxSeq = 4
  Height <- MCHeight
  Signer <- MCSigner
  Named <- MCNamed
  Ret <- MCRet
  LegacyHeight = 1
  BatchSize = 2
  MaxKills = 1
CHECK_DEADLOCK FALSE
INVARIANTS TypeOK RetOnlyGone Repaired CountsHonest
PROPERTIES KeepsGoodRows CatchesUp
