SPECIFICATION FairRichListSpec
CONSTANTS
  Processes = {p1, p2}
  Patches <- MCPatches
  MaxKills = 1
  Accounts = {u, m}
  Modules = {m}
  Zero = zero
  Moves <- MCMoves
  Hidden <- MCHidden
  Delay = 1
  MaxHeight = 4
CHECK_DEADLOCK FALSE
INVARIANTS RichListTypeOK PatchesOnce RichRight
PROPERTIES RichCatchesUp
