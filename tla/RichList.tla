------------------------------ MODULE RichList ------------------------------
(***************************************************************************)
(* The rich-list extension (extension/richlist), from the patches that an  *)
(* indexer applies first to the balances it keeps: Initialize,             *)
(* InitializeBalances, and the loop of Processor.Run over the heights,     *)
(* with the processors of the three virtual machines.                      *)
(*                                                                         *)
(* One denom, amounts of one.  A block moves one unit, inside a            *)
(* transaction (the extension sees its event) or outside (begin and end    *)
(* blocker; it does not).  A balance of zero and no row are not told       *)
(* apart.  All accounts exist when the list is initialized.                *)
(***************************************************************************)
EXTENDS Patcher

CONSTANTS
  Accounts,
  Modules,    \* accounts of modules that may mint or burn
  Zero,       \* EvmEmptyAddress; the other side of a mint or a burn
  Moves,      \* <<from, to>>: what a transaction may do
  Hidden,     \* what begin and end blockers may do
  Delay,      \* RICH_LIST_BLOCK_DELAY
  MaxHeight   \* bound: blocks

ASSUME RichListAssumption ==
  /\ Modules \subseteq Accounts
  /\ Zero \notin Accounts
  /\ Moves \union Hidden \subseteq (Accounts \union {Zero}) \X (Accounts \union {Zero})
  /\ Delay \in Nat
  /\ MaxHeight \in Nat
  /\ Delay < MaxHeight   \* room for a block that is deep enough
  /\ "v1.0.14" \in Versions

VARIABLES
  vm,       \* VmType
  blocks,   \* the block table: [from, to, tx, bal], bal the balances after the block
  rich,     \* rich_list
  status,   \* rich_list_status: its height, 0 without a row
  ext,      \* process -> [at, cur]: the extension of the process and its currentHeight
  synced    \* history: account -> the height whose balance was last stored as such

richVars == <<patcherVars, vm, blocks, rich, status, ext, synced>>

NoRows == [a \in Accounts |-> 0]
Off    == [at |-> "off", cur |-> 0]
-----------------------------------------------------------------------------
(* The chain, and the collector that has indexed it.                       *)
Genesis == [a \in Accounts |-> 1]

BalanceAt(h) == IF h = 0 THEN Genesis ELSE blocks[h].bal

(* On wasm coins are minted to and burned from module accounts.            *)
Allowed(m) ==
  vm = "wasm" /\ Zero \in {m[1], m[2]} => {m[1], m[2]} \subseteq Modules \union {Zero}

Moved(bal, from, to) ==
  [a \in Accounts |-> IF a = from THEN bal[a] - 1 ELSE IF a = to THEN bal[a] + 1 ELSE bal[a]]

(* Blocks are collected by an indexer that has applied the patches.        *)
NewBlock ==
  /\ Len(blocks) < MaxHeight
  /\ \E p \in Processes : Patched(p)
  /\ \E tx \in BOOLEAN : \E m \in IF tx THEN Moves ELSE Hidden :
       LET before == BalanceAt(Len(blocks))
       IN  /\ Allowed(m)
           /\ m[1] \in Accounts => before[m[1]] > 0
           /\ blocks' = Append(blocks, [from |-> m[1], to |-> m[2], tx |-> tx,
                                        bal |-> Moved(before, m[1], m[2])])
  /\ UNCHANGED <<patcherVars, vm, rich, status, ext, synced>>
-----------------------------------------------------------------------------
(* ProcessBalanceChanges: the accounts whose change the processor applies. *)
evmTracks(block, a)  == TRUE                               \* processEvmTransferEvents
moveTracks(block, a) == a \notin Modules                   \* processMoveTransferEvents
wasmTracks(block, a) ==                                    \* processCosmos*Event
  Zero \in {block.from, block.to} \/ a \notin Modules

Tracks(block, a) ==
  CASE vm = "evm" -> evmTracks(block, a)
    [] vm = "move" -> moveTracks(block, a)
    [] vm = "wasm" -> wasmTracks(block, a)

ProcessBalanceChanges(block) ==
  [a \in Accounts |->
     IF ~block.tx \/ ~Tracks(block, a) THEN 0
     ELSE IF a = block.from THEN -1
     ELSE IF a = block.to THEN 1 ELSE 0]

(* Bug: the balances of the latest block.                                  *)
queryLatestBalances(height) == BalanceAt(Len(blocks))

(* The balances an archive node answers for a height: queryERC20Balances,  *)
(* GetAllBalances.                                                         *)
queryBalances(height) == BalanceAt(height)

(* UpdateBalanceChanges: the rows after the changes, and whether one of    *)
(* those it changed is negative.                                           *)
UpdateBalanceChanges(balanceMap) == [a \in Accounts |-> rich[a] + balanceMap[a]]

Negative(balanceMap) ==
  \E a \in Accounts : balanceMap[a] # 0 /\ UpdateBalanceChanges(balanceMap)[a] < 0

(* AfterProcess: a denom with a negative row is queried again on evm.      *)
AfterProcess(height, balanceMap) ==
  IF vm = "evm" /\ Negative(balanceMap)
  THEN /\ rich' = queryBalances(height)
       /\ synced' = [a \in Accounts |-> height]
  ELSE /\ rich' = UpdateBalanceChanges(balanceMap)
       /\ UNCHANGED synced

UpdateRichListStatus(height) == status' = height

(* GetCollectedBlock waits until the block is Delay blocks deep.           *)
GetCollectedBlock(height) == height + Delay <= Len(blocks)

(* Bug: one block deeper than the delay asks for.                          *)
ProcessHeightDeeper(p) ==
  LET height == ext[p].cur
  IN  /\ ext[p].at = "run"
      /\ height + Delay < Len(blocks)
      /\ AfterProcess(height, ProcessBalanceChanges(blocks[height]))
      /\ UpdateRichListStatus(height)
      /\ ext' = [ext EXCEPT ![p].cur = height + 1]
      /\ UNCHANGED <<patcherVars, vm, blocks>>

(* One turn of the loop of Processor.Run, one transaction.                 *)
ProcessHeight(p) ==
  LET height == ext[p].cur
  IN  /\ ext[p].at = "run"
      /\ GetCollectedBlock(height)
      /\ AfterProcess(height, ProcessBalanceChanges(blocks[height]))
      /\ UpdateRichListStatus(height)
      /\ ext' = [ext EXCEPT ![p].cur = height + 1]
      /\ UNCHANGED <<patcherVars, vm, blocks>>

(* FetchAndUpdateBalances: a row for every balance that is not zero.       *)
FetchAndUpdateBalances(height) ==
  [a \in Accounts |-> IF queryBalances(height)[a] = 0 THEN rich[a] ELSE queryBalances(height)[a]]

(* Bug: the first height of the loop is the height of the balances.        *)
InitializeBalancesAgain(p) ==
  LET height == ext[p].cur
  IN  /\ ext[p].at = "init"
      /\ rich' = FetchAndUpdateBalances(height)
      /\ synced' = [a \in Accounts |-> height]
      /\ UpdateRichListStatus(height)
      /\ ext' = [ext EXCEPT ![p].at = "run"]
      /\ UNCHANGED <<patcherVars, vm, blocks>>

(* InitializeBalances and the status row, one transaction.                 *)
InitializeBalances(p) ==
  LET height == ext[p].cur
  IN  /\ ext[p].at = "init"
      /\ rich' = FetchAndUpdateBalances(height)
      /\ synced' = [a \in Accounts |-> height]
      /\ UpdateRichListStatus(height)
      /\ ext' = [ext EXCEPT ![p] = [at |-> "run", cur |-> height + 1]]
      /\ UNCHANGED <<patcherVars, vm, blocks>>

(* Initialize: go on after the status row, or else start at the latest     *)
(* block, for which it waits.  The processes share a database but run the  *)
(* extension one at a time: nothing in ProcessHeight compares its height   *)
(* with the status row, so two at once would apply every height twice.     *)
Initialize(p) ==
  /\ Patched(p)
  /\ \A q \in Processes : ext[q].at = "off"
  /\ status # 0 \/ Len(blocks) > 0
  /\ ext' = [ext EXCEPT ![p] = IF status # 0 THEN [at |-> "run", cur |-> status + 1]
                                             ELSE [at |-> "init", cur |-> Len(blocks)]]
  /\ UNCHANGED <<patcherVars, vm, blocks, rich, status, synced>>
-----------------------------------------------------------------------------
PatchAhead(p) ==
  /\ \/ PatchBegin(p)
     \/ PatchSkip(p)
     \/ PatchConflict(p)
  /\ UNCHANGED <<vm, blocks, rich, status, ext, synced>>

(* v1_0_14.Patch deletes the rich list and its status; the other patches   *)
(* leave them alone.                                                       *)
PatchRichList(p) ==
  /\ PatchCommit(p)
  /\ IF version(p) = "v1.0.14"
     THEN rich' = NoRows /\ status' = 0
     ELSE UNCHANGED <<rich, status>>
  /\ UNCHANGED <<vm, blocks, ext, synced>>

(* An error of the extension or of the patcher ends the process, as a kill *)
(* does; it starts again.                                                  *)
Kill(p) ==
  /\ PatcherKill(p)
  /\ ext' = [ext EXCEPT ![p] = Off]
  /\ UNCHANGED <<vm, blocks, rich, status, synced>>

EmptyBlock == [from |-> Zero, to |-> Zero, tx |-> TRUE, bal |-> Genesis]

(* A database of an older release may hold a wrong list.                   *)
RichListInit ==
  /\ PatcherInit
  /\ vm \in {"evm", "wasm", "move"}
  /\ \/ blocks = <<>> /\ rich = NoRows /\ status = 0
     \/ /\ "v1.0.14" \notin applied
        /\ blocks = [h \in 1 .. Delay + 1 |-> EmptyBlock]
        /\ rich = [a \in Accounts |-> 2]
        /\ status = 1
  /\ ext = [p \in Processes |-> Off]
  /\ synced = NoRows

Work(p) ==
  \/ PatchAhead(p)
  \/ PatchRichList(p)
  \/ Initialize(p)
  \/ InitializeBalances(p)
  \/ ProcessHeight(p)

RichListNext ==
  \/ NewBlock
  \/ \E p \in Processes : Work(p) \/ Kill(p)

RichListSpec == RichListInit /\ [][RichListNext]_richVars

(* A process that is not killed goes on, and one that is starts again.     *)
FairRichListSpec == RichListSpec /\ \A p \in Processes : WF_richVars(Work(p))
-----------------------------------------------------------------------------
(* Type invariant; the heights of the extension and of its status row are  *)
(* heights of the block table.                                             *)
RichListTypeOK ==
  /\ applied \in SUBSET Versions
  /\ patching \in [Processes -> [next : 1 .. Len(Patches) + 1, saw : (SUBSET Versions) \union {NoTxn}]]
  /\ runs \in [Versions -> Nat]
  /\ kills \in 0 .. MaxKills
  /\ Len(blocks) \in 0 .. MaxHeight
  /\ rich \in [Accounts -> Int]
  /\ status \in 0 .. Len(blocks)
  /\ ext \in [Processes -> [at : {"off", "init", "run"}, cur : 0 .. Len(blocks) + 1]]
  /\ synced \in [Accounts -> 0 .. Len(blocks)]

(* Accounts whose balance the list does not follow: Tracks leaves out the  *)
(* transfers of modules on wasm and move.                                  *)
Untracked == IF vm = "evm" THEN {} ELSE Modules

(* The changes of account a that no event of a transaction shows.          *)
HiddenFrom(a, h) == ~blocks[h].tx /\ a \in {blocks[h].from, blocks[h].to}

(* Once v1.0.14 is applied, the list holds for every account it follows    *)
(* the balance at the height of its status row, neither a block early nor  *)
(* late, through requeries, kills and restarts at any step, unless the     *)
(* balance has changed outside transactions since it was last queried; on  *)
(* evm no row is negative (Processor.Run, InitializeBalances,              *)
(* UpdateBalanceChanges, AfterProcess).                                    *)
RichRight ==
  "v1.0.14" \in applied /\ status # 0 =>
    /\ \A a \in Accounts \ Untracked :
         (\A h \in synced[a] + 1 .. status : ~HiddenFrom(a, h)) => rich[a] = BalanceAt(status)[a]
    /\ vm = "evm" => \A a \in Accounts : rich[a] >= 0

(* The list catches up with the blocks that are deep enough whenever the   *)
(* chain rests, as it does at MaxHeight at the latest, however often the   *)
(* processes restart (GetCollectedBlock waits, Initialize goes on after    *)
(* the status row).                                                        *)
RichCatchesUp ==
  []<>(status + Delay >= Len(blocks))
=============================================================================
