SPECIFICATION Spec
CONSTANTS
  a = a
  b = b
  c = c
  Processes = {p1}
  Consumers = {p1}
  Accounts <- MCAccounts
  MaxHeight = 3
  Entries <- MCEntries
  Work <- MCWork
  AccountsOf <- MCAccountsOf
  MaxFails = 2
CHECK_DEADLOCK FALSE
INVARIANTS TypeOK Consecutive CacheRight EdgesRight NoOrphanEdges
