--------------------------- MODULE RichListProofs ---------------------------
(***************************************************************************)
(* Proofs about the patcher and the rich list: whoever starts, fails or is *)
(* killed, every patch is committed at most once and in order, and the     *)
(* list holds the balances at the height of its status row.                *)
(***************************************************************************)
EXTENDS RichList, SequenceTheorems, TLAPS

(* The history is a prefix of the patches; a patch that this release has   *)
(* not committed has not run, one that it has ran once; a process has only *)
(* passed patches that are applied, and what its transaction read is not   *)
(* ahead of the history.                                                   *)
HistoryInv ==
  /\ \A i, j \in DOMAIN Patches : i < j /\ Patches[j] \in applied => Patches[i] \in applied
  /\ \A v \in Versions : runs[v] <= 1 /\ (v \notin applied => runs[v] = 0)
  /\ \A p \in Processes : \A i \in DOMAIN Patches :
       i < patching[p].next => Patches[i] \in applied
  /\ \A p \in Processes : patching[p].saw = NoTxn \/ patching[p].saw \subseteq applied

Block == [from : Accounts \union {Zero}, to : Accounts \union {Zero},
          tx : BOOLEAN, bal : [Accounts -> Nat]]

(* The balances after a block follow from those before it.                 *)
ChainInv ==
  /\ vm \in {"evm", "wasm", "move"}
  /\ blocks \in Seq(Block)
  /\ \A h \in 1 .. Len(blocks) :
       blocks[h].bal = Moved(BalanceAt(h - 1), blocks[h].from, blocks[h].to)

(* One extension at a time, of a process that is done with the patches; it *)
(* is one height ahead of the status row, or has none.                     *)
ExtInv ==
  /\ \A p \in Processes : ext[p].at # "off" => Patched(p)
  /\ \A p, q \in Processes : ext[p].at # "off" /\ ext[q].at # "off" => p = q
  /\ \A p \in Processes : ext[p].at = "init" => status = 0 /\ ext[p].cur \in 1 .. Len(blocks)
  /\ \A p \in Processes : ext[p].at = "run" => status # 0 /\ ext[p].cur = status + 1

(* Without a status row the list is empty once v1.0.14 has emptied it; a   *)
(* row is stored as of the status height at the latest.                    *)
RowsInv ==
  /\ "v1.0.14" \notin applied => synced = NoRows
  /\ "v1.0.14" \in applied /\ status = 0 => rich = NoRows
  /\ \A a \in Accounts : synced[a] <= status

RichInv ==
  /\ RichListTypeOK
  /\ HistoryInv
  /\ ChainInv
  /\ ExtInv
  /\ RowsInv
  /\ RichRight
-----------------------------------------------------------------------------
(* The patcher's part of the type invariant.                               *)
PatcherTypeOK ==
  /\ applied \in SUBSET Versions
  /\ patching \in [Processes -> [next : 1 .. Len(Patches) + 1, saw : (SUBSET Versions) \union {NoTxn}]]
  /\ runs \in [Versions -> Nat]
  /\ kills \in 0 .. MaxKills

PatcherInv == PatcherTypeOK /\ HistoryInv

(* Positions of the patches, and the patch at a position.                  *)
LEMMA PatchPositions ==
  /\ Len(Patches) \in Nat
  /\ DOMAIN Patches = 1 .. Len(Patches)
  /\ \A i \in 1 .. Len(Patches) : Patches[i] \in Versions
  BY PatcherAssumption DEF Versions

(* The state in which an indexer finds upgrade_history.                    *)
LEMMA PatcherInvInit == PatcherInit => PatcherInv
<1> SUFFICES ASSUME PatcherInit PROVE PatcherInv
  OBVIOUS
<1>1. PICK n \in 0 .. Len(Patches) : applied = {Patches[i] : i \in 1 .. n}
  BY DEF PatcherInit
<1>2. PatcherTypeOK
  BY <1>1, PatchPositions, PatcherAssumption DEF PatcherInit, PatcherTypeOK
<1>3. ASSUME NEW i \in DOMAIN Patches, NEW j \in DOMAIN Patches, i < j, Patches[j] \in applied
      PROVE  Patches[i] \in applied
  <2>1. PICK k \in 1 .. n : Patches[j] = Patches[k]
    BY <1>1, <1>3
  <2>2. k \in DOMAIN Patches /\ j = k
    BY <2>1, PatchPositions, PatcherAssumption
  <2>3. i \in 1 .. n
    BY <1>3, <2>2, PatchPositions
  <2> QED
    BY <1>1, <2>3
<1>4. HistoryInv
  BY <1>3, PatchPositions DEF PatcherInit, HistoryInv
<1> QED
  BY <1>2, <1>4 DEF PatcherInv

(* isApplied only reads.                                                   *)
LEMMA PatchBeginInv ==
  ASSUME PatcherInv, NEW p \in Processes, PatchBegin(p)
  PROVE  PatcherInv'
  BY DEF PatcherInv, PatcherTypeOK, HistoryInv, PatchBegin

(* A process that starts again has passed no patch.                        *)
LEMMA PatchAgainInv ==
  ASSUME PatcherInv, NEW p \in Processes, PatchAgain(p), UNCHANGED <<applied, runs>>,
         kills' \in 0 .. MaxKills
  PROVE  PatcherInv'
  BY PatchPositions DEF PatcherInv, PatcherTypeOK, HistoryInv, PatchAgain

(* A patch is skipped when the transaction saw its row.                    *)
LEMMA PatchSkipInv ==
  ASSUME PatcherInv, NEW p \in Processes, PatchSkip(p)
  PROVE  PatcherInv'
<1>1. patching[p].next \in 1 .. Len(Patches) /\ version(p) \in applied
  BY PatchPositions DEF PatcherInv, PatcherTypeOK, HistoryInv, PatchSkip, Patched
<1>2. PatcherTypeOK'
  BY <1>1, PatchPositions DEF PatcherInv, PatcherTypeOK, PatchSkip
<1>3. \A q \in Processes : \A i \in DOMAIN Patches : i < patching'[q].next => Patches[i] \in applied
  BY <1>1, PatchPositions DEF PatcherInv, PatcherTypeOK, HistoryInv, PatchSkip, version
<1> QED
  BY <1>2, <1>3 DEF PatcherInv, PatcherTypeOK, HistoryInv, PatchSkip

(* A patch that is committed is the next of the history, and had not run.  *)
LEMMA PatchCommitInv ==
  ASSUME PatcherInv, NEW p \in Processes, PatchCommit(p)
  PROVE  PatcherInv'
<1>1. patching[p].next \in 1 .. Len(Patches) /\ version(p) \in Versions
  BY PatchPositions DEF PatcherInv, PatcherTypeOK, PatchCommit, Patched, version
<1>2. PatcherTypeOK'
  BY <1>1, PatchPositions DEF PatcherInv, PatcherTypeOK, PatchCommit
<1>3. ASSUME NEW i \in DOMAIN Patches, NEW j \in DOMAIN Patches, i < j, Patches[j] \in applied'
      PROVE  Patches[i] \in applied'
  <2>1. CASE Patches[j] \in applied
    BY <1>3, <2>1 DEF PatcherInv, HistoryInv, PatchCommit
  <2>2. CASE Patches[j] = version(p)
    <3>1. j = patching[p].next
      BY <2>2, <1>1, PatchPositions, PatcherAssumption DEF version
    <3> QED
      BY <3>1, <1>3 DEF PatcherInv, HistoryInv, PatchCommit
  <2> QED
    BY <1>3, <2>1, <2>2 DEF PatchCommit
<1>4. \A v \in Versions : runs'[v] <= 1 /\ (v \notin applied' => runs'[v] = 0)
  BY <1>1 DEF PatcherInv, PatcherTypeOK, HistoryInv, PatchCommit
<1>5. ASSUME NEW q \in Processes, NEW i \in DOMAIN Patches, i < patching'[q].next
      PROVE  Patches[i] \in applied'
  <2>1. i < patching[q].next \/ (q = p /\ i = patching[p].next)
    BY <1>5, <1>1, PatchPositions DEF PatcherInv, PatcherTypeOK, PatchCommit
  <2> QED
    BY <2>1 DEF PatcherInv, HistoryInv, PatchCommit, version
<1>6. \A q \in Processes : patching'[q].saw = NoTxn \/ patching'[q].saw \subseteq applied'
  BY DEF PatcherInv, PatcherTypeOK, HistoryInv, PatchCommit
<1> QED
  BY <1>2, <1>3, <1>4, <1>5, <1>6 DEF PatcherInv, HistoryInv

(* Another indexer got ahead: the process starts again.                    *)
LEMMA PatchConflictInv ==
  ASSUME PatcherInv, NEW p \in Processes, PatchConflict(p)
  PROVE  PatcherInv'
<1>1. PatchAgain(p) /\ UNCHANGED <<applied, runs>> /\ kills' \in 0 .. MaxKills
  BY DEF PatchConflict, PatcherInv, PatcherTypeOK
<1> QED
  BY <1>1, PatchAgainInv

(* A kill.                                                                 *)
LEMMA PatcherKillInv ==
  ASSUME PatcherInv, NEW p \in Processes, PatcherKill(p)
  PROVE  PatcherInv'
<1>1. PatchAgain(p) /\ UNCHANGED <<applied, runs>> /\ kills' \in 0 .. MaxKills
  BY PatcherAssumption DEF PatcherKill, PatcherInv, PatcherTypeOK
<1> QED
  BY <1>1, PatchAgainInv

(* What the invariant says of the patches.                                 *)
LEMMA PatcherInvImplies == PatcherInv => PatchesOnce
<1> SUFFICES ASSUME PatcherInv PROVE PatchesOnce
  OBVIOUS
<1>1. ASSUME NEW p \in Processes, Patched(p) PROVE applied = Versions
  <2>1. \A i \in DOMAIN Patches : Patches[i] \in applied
    BY <1>1, PatchPositions DEF PatcherInv, PatcherTypeOK, HistoryInv, Patched
  <2> QED
    BY <2>1 DEF PatcherInv, PatcherTypeOK, Versions
<1> QED
  BY <1>1 DEF PatcherInv, HistoryInv, PatchesOnce
-----------------------------------------------------------------------------
(* The rest of the type invariant.                                         *)
ListTypeOK ==
  /\ Len(blocks) \in 0 .. MaxHeight
  /\ rich \in [Accounts -> Int]
  /\ status \in 0 .. Len(blocks)
  /\ ext \in [Processes -> [at : {"off", "init", "run"}, cur : 0 .. Len(blocks) + 1]]
  /\ synced \in [Accounts -> 0 .. Len(blocks)]

(* The part of the invariant that is not the patcher's.                    *)
ListInv ==
  /\ ListTypeOK
  /\ ChainInv
  /\ ExtInv
  /\ RowsInv
  /\ RichRight

LEMMA InvParts == RichInv <=> PatcherInv /\ ListInv
  BY DEF RichInv, PatcherInv, ListInv, RichListTypeOK, PatcherTypeOK, ListTypeOK

(* Balances are never negative.                                            *)
LEMMA BalanceType ==
  ASSUME ChainInv, NEW h \in 0 .. Len(blocks)
  PROVE  BalanceAt(h) \in [Accounts -> Nat]
<1>1. CASE h = 0
  BY <1>1 DEF BalanceAt, Genesis
<1>2. CASE h # 0
  <2>1. h \in 1 .. Len(blocks)
    BY <1>2
  <2>2. blocks[h] \in Block
    BY <2>1 DEF ChainInv
  <2> QED
    BY <1>2, <2>2 DEF BalanceAt, Block
<1> QED
  BY <1>1, <1>2

(* Every processor applies the changes of the accounts the list follows.   *)
LEMMA FollowedIsTracked ==
  ASSUME ChainInv, NEW a \in Accounts \ Untracked, NEW block
  PROVE  Tracks(block, a)
  BY DEF ChainInv, Untracked, Tracks, evmTracks, moveTracks, wasmTracks

(* The database of a fresh start, or of an older release.                  *)
LEMMA ListInvInit == RichListInit => ListInv
<1> SUFFICES ASSUME RichListInit PROVE ListInv
  OBVIOUS
<1> USE RichListAssumption
<1>1. CASE blocks = <<>> /\ rich = NoRows /\ status = 0
  <2>1. ListTypeOK
    BY <1>1 DEF RichListInit, ListTypeOK, NoRows, Off
  <2>2. ChainInv
    BY <1>1 DEF RichListInit, ChainInv
  <2>3. ExtInv /\ RowsInv /\ RichRight
    BY <1>1 DEF RichListInit, ExtInv, RowsInv, RichRight, NoRows, Off
  <2> QED
    BY <2>1, <2>2, <2>3 DEF ListInv
<1>2. CASE /\ "v1.0.14" \notin applied
           /\ blocks = [h \in 1 .. Delay + 1 |-> EmptyBlock]
           /\ rich = [a \in Accounts |-> 2]
           /\ status = 1
  <2>1. EmptyBlock \in Block
    BY DEF EmptyBlock, Block, Genesis
  <2>2. blocks \in Seq(Block) /\ Len(blocks) = Delay + 1
    BY <1>2, <2>1
  <2>3. ListTypeOK
    BY <1>2, <2>2 DEF RichListInit, ListTypeOK, NoRows, Off
  <2>4. ChainInv
    <3>1. \A h \in 1 .. Len(blocks) :
            blocks[h].bal = Genesis /\ blocks[h].from = Zero /\ blocks[h].to = Zero
      BY <1>2, <2>2 DEF EmptyBlock
    <3>2. \A h \in 1 .. Len(blocks) : BalanceAt(h - 1) = Genesis
      BY <2>2, <3>1 DEF BalanceAt
    <3>3. Moved(Genesis, Zero, Zero) = Genesis
      BY DEF Moved, Genesis
    <3> QED
      BY <2>2, <3>1, <3>2, <3>3 DEF RichListInit, ChainInv
  <2>5. ExtInv /\ RowsInv /\ RichRight
    BY <1>2 DEF RichListInit, ExtInv, RowsInv, RichRight, NoRows, Off
  <2> QED
    BY <2>3, <2>4, <2>5 DEF ListInv
<1> QED
  BY <1>1, <1>2 DEF RichListInit

(* A new block leaves the list alone, and the heights below it.            *)
LEMMA NewBlockInv ==
  ASSUME ListInv, NewBlock
  PROVE  ListInv'
<1> USE RichListAssumption
<1> DEFINE n == Len(blocks)
<1>1. PICK tx \in BOOLEAN, m \in Moves \union Hidden :
        /\ m[1] \in Accounts => BalanceAt(n)[m[1]] > 0
        /\ blocks' = Append(blocks, [from |-> m[1], to |-> m[2], tx |-> tx,
                                     bal |-> Moved(BalanceAt(n), m[1], m[2])])
  BY DEF NewBlock
<1>2. /\ n \in Nat /\ n < MaxHeight /\ blocks \in Seq(Block)
      /\ UNCHANGED <<patcherVars, vm, rich, status, ext, synced>>
  BY DEF NewBlock, ListInv, ListTypeOK, ChainInv
<1> DEFINE b == [from |-> m[1], to |-> m[2], tx |-> tx, bal |-> Moved(BalanceAt(n), m[1], m[2])]
<1>3. b \in Block
  <2>1. BalanceAt(n) \in [Accounts -> Nat]
    BY <1>2, BalanceType DEF ListInv
  <2>2. m[1] \in Accounts \union {Zero} /\ m[2] \in Accounts \union {Zero}
    OBVIOUS
  <2>3. Moved(BalanceAt(n), m[1], m[2]) \in [Accounts -> Nat]
    BY <1>1, <2>1 DEF Moved
  <2> QED
    BY <2>2, <2>3 DEF Block
<1>4. /\ blocks' \in Seq(Block) /\ Len(blocks') = n + 1
      /\ \A h \in 1 .. n : blocks'[h] = blocks[h]
      /\ blocks'[n + 1] = b
  BY <1>1, <1>2, <1>3
<1>5. \A h \in 0 .. n : BalanceAt(h)' = BalanceAt(h)
  BY <1>2, <1>4 DEF BalanceAt
<1>6. ListTypeOK'
  BY <1>2, <1>4 DEF ListInv, ListTypeOK
<1>7. ChainInv'
  <2>1. ASSUME NEW h \in 1 .. n + 1
        PROVE  blocks'[h].bal = Moved(BalanceAt(h - 1)', blocks'[h].from, blocks'[h].to)
    <3>1. CASE h \in 1 .. n
      BY <1>2, <1>4, <1>5, <3>1, SMTT(30) DEF ListInv, ChainInv, Moved
    <3>2. CASE h = n + 1
      <4>1. BalanceAt(h - 1)' = BalanceAt(n)
        BY <1>2, <1>5, <3>2
      <4> QED
        BY <1>4, <3>2, <4>1
    <3> QED
      BY <1>2, <3>1, <3>2
  <2> QED
    BY <1>2, <1>4, <2>1 DEF ListInv, ChainInv, Moved
<1>8. ExtInv'
  BY <1>2, <1>4 DEF ListInv, ExtInv, Patched, patcherVars
<1>9. RowsInv'
  BY <1>2 DEF ListInv, RowsInv, patcherVars
<1>10. RichRight'
  <2>1. status \in 0 .. n /\ synced \in [Accounts -> 0 .. n]
    BY DEF ListInv, ListTypeOK
  <2>2. BalanceAt(status)' = BalanceAt(status)
    BY <1>2, <1>5, <2>1 DEF BalanceAt
  <2>3. \A a \in Accounts : \A h \in synced[a] + 1 .. status : HiddenFrom(a, h)' <=> HiddenFrom(a, h)
    BY <1>2, <1>4, <2>1 DEF HiddenFrom
  <2>4. Untracked' = Untracked
    BY <1>2 DEF Untracked
  <2> QED
    BY <1>2, <2>1, <2>2, <2>3, <2>4 DEF ListInv, RichRight, patcherVars
<1> QED
  BY <1>6, <1>7, <1>8, <1>9, <1>10 DEF ListInv

(* Applying the changes of a height moves the rows from the balances below *)
(* it to its own, except where the change is hidden.                       *)
LEMMA ChangesFollow ==
  ASSUME ListInv, NEW height \in 1 .. Len(blocks), NEW a \in Accounts \ Untracked,
         ~HiddenFrom(a, height), rich[a] = BalanceAt(height - 1)[a]
  PROVE  UpdateBalanceChanges(ProcessBalanceChanges(blocks[height]))[a] = BalanceAt(height)[a]
<1> DEFINE b == blocks[height]
<1>1. Tracks(b, a)
  BY FollowedIsTracked DEF ListInv
<1>2. BalanceAt(height)[a] = Moved(BalanceAt(height - 1), b.from, b.to)[a]
  BY DEF ListInv, ListTypeOK, ChainInv, BalanceAt
<1>3. BalanceAt(height - 1)[a] \in Nat
  <2>1. height - 1 \in 0 .. Len(blocks)
    BY DEF ListInv, ListTypeOK
  <2> QED
    BY <2>1, BalanceType DEF ListInv
<1>4. ProcessBalanceChanges(b)[a] =
        IF ~b.tx THEN 0 ELSE IF a = b.from THEN -1 ELSE IF a = b.to THEN 1 ELSE 0
  BY <1>1 DEF ProcessBalanceChanges
<1>5. UpdateBalanceChanges(ProcessBalanceChanges(b))[a] = rich[a] + ProcessBalanceChanges(b)[a]
  BY DEF UpdateBalanceChanges
<1> QED
  BY <1>2, <1>3, <1>4, <1>5 DEF Moved, HiddenFrom

(* The types of what a height changes.                                     *)
LEMMA ChangesType ==
  ASSUME ListInv, NEW height \in 1 .. Len(blocks)
  PROVE  /\ ProcessBalanceChanges(blocks[height]) \in [Accounts -> Int]
         /\ UpdateBalanceChanges(ProcessBalanceChanges(blocks[height])) \in [Accounts -> Int]
         /\ queryBalances(height) \in [Accounts -> Nat]
<1>1. ProcessBalanceChanges(blocks[height]) \in [Accounts -> Int]
  BY DEF ProcessBalanceChanges
<1>2. UpdateBalanceChanges(ProcessBalanceChanges(blocks[height])) \in [Accounts -> Int]
  BY <1>1 DEF UpdateBalanceChanges, ListInv, ListTypeOK
<1>3. queryBalances(height) \in [Accounts -> Nat]
  BY BalanceType DEF queryBalances, ListInv, ListTypeOK
<1> QED
  BY <1>1, <1>2, <1>3

(* One turn of the loop of Processor.Run: the row after it is that of the  *)
(* height, by the changes of the block or by a query.                      *)
LEMMA ProcessHeightInv ==
  ASSUME PatcherInv, ListInv, NEW p \in Processes, ProcessHeight(p)
  PROVE  ListInv'
<1> USE RichListAssumption
<1> DEFINE height == ext[p].cur
           changes == ProcessBalanceChanges(blocks[height])
<1>1. /\ ext[p].at = "run" /\ height = status + 1 /\ status # 0
      /\ height \in 1 .. Len(blocks) /\ Len(blocks) \in Nat
      /\ UNCHANGED <<patcherVars, vm, blocks>>
      /\ status' = height
      /\ ext' = [ext EXCEPT ![p].cur = height + 1]
  BY DEF ProcessHeight, UpdateRichListStatus, GetCollectedBlock, ListInv, ListTypeOK, ExtInv
<1>2. \/ /\ vm = "evm" /\ Negative(changes)
         /\ rich' = queryBalances(height) /\ synced' = [a \in Accounts |-> height]
      \/ /\ ~(vm = "evm" /\ Negative(changes))
         /\ rich' = UpdateBalanceChanges(changes) /\ synced' = synced
  BY DEF ProcessHeight, AfterProcess
<1>3. /\ changes \in [Accounts -> Int]
      /\ UpdateBalanceChanges(changes) \in [Accounts -> Int]
      /\ queryBalances(height) \in [Accounts -> Nat]
  BY <1>1, ChangesType
<1>4. ListTypeOK'
  BY <1>1, <1>2, <1>3, SMTT(30) DEF ListInv, ListTypeOK
<1>5. ChainInv'
  BY <1>1 DEF ListInv, ChainInv, BalanceAt, Moved
<1>6. ExtInv'
  BY <1>1 DEF ListInv, ListTypeOK, ExtInv, Patched, patcherVars
<1>7. "v1.0.14" \in applied
  BY <1>1, PatcherInvImplies DEF ListInv, ExtInv, PatchesOnce
<1>8. RowsInv'
  BY <1>1, <1>2, <1>7 DEF ListInv, ListTypeOK, RowsInv, patcherVars
<1>9. BalanceAt(status)' = BalanceAt(height) /\ Untracked' = Untracked
      /\ \A a, h : HiddenFrom(a, h)' <=> HiddenFrom(a, h)
  BY <1>1 DEF BalanceAt, Untracked, HiddenFrom
<1>10. RichRight'
  <2>1. ASSUME NEW a \in Accounts \ Untracked,
               \A h \in synced'[a] + 1 .. status' : ~HiddenFrom(a, h)
        PROVE  rich'[a] = BalanceAt(height)[a]
    <3>1. CASE rich' = queryBalances(height)
      BY <3>1 DEF queryBalances
    <3>2. CASE rich' = UpdateBalanceChanges(changes) /\ synced' = synced
      <4>1. synced[a] \in 0 .. status /\ status \in Nat
        BY DEF ListInv, ListTypeOK, RowsInv
      <4>2. ~HiddenFrom(a, height)
        BY <1>1, <2>1, <3>2, <4>1
      <4>3. \A h \in synced[a] + 1 .. status : ~HiddenFrom(a, h)
        BY <1>1, <2>1, <3>2, <4>1
      <4>4. rich[a] = BalanceAt(status)[a]
        BY <1>1, <1>7, <4>3 DEF ListInv, RichRight
      <4>5. height - 1 = status
        BY <1>1, <4>1
      <4> QED
        BY <1>1, <3>2, <4>2, <4>4, <4>5, ChangesFollow
    <3> QED
      BY <1>2, <3>1, <3>2
  <2>2. ASSUME vm = "evm", NEW a \in Accounts
        PROVE  rich'[a] >= 0
    <3>1. CASE rich' = queryBalances(height)
      BY <1>3, <3>1
    <3>2. CASE ~Negative(changes) /\ rich' = UpdateBalanceChanges(changes)
      <4>1. rich[a] \in Nat
        BY <1>1, <1>7, <2>2 DEF ListInv, ListTypeOK, RichRight
      <4> QED
        BY <1>3, <3>2, <4>1 DEF Negative, UpdateBalanceChanges
    <3> QED
      BY <1>2, <2>2, <3>1, <3>2
  <2> QED
    BY <1>1, <1>9, <2>1, <2>2 DEF RichRight
<1> QED
  BY <1>4, <1>5, <1>6, <1>8, <1>10 DEF ListInv

(* InitializeBalances fills an empty list with the balances of one height. *)
LEMMA InitializeBalancesInv ==
  ASSUME PatcherInv, ListInv, NEW p \in Processes, InitializeBalances(p)
  PROVE  ListInv'
<1> USE RichListAssumption
<1> DEFINE height == ext[p].cur
<1>1. /\ ext[p].at = "init" /\ status = 0
      /\ height \in 1 .. Len(blocks) /\ Len(blocks) \in Nat
      /\ UNCHANGED <<patcherVars, vm, blocks>>
      /\ status' = height
      /\ rich' = FetchAndUpdateBalances(height)
      /\ synced' = [a \in Accounts |-> height]
      /\ ext' = [ext EXCEPT ![p] = [at |-> "run", cur |-> height + 1]]
  BY DEF InitializeBalances, UpdateRichListStatus, ListInv, ListTypeOK, ExtInv
<1>2. "v1.0.14" \in applied /\ rich = NoRows
  BY <1>1, PatcherInvImplies DEF ListInv, ExtInv, RowsInv, PatchesOnce
<1>3. queryBalances(height) \in [Accounts -> Nat]
  BY <1>1, ChangesType
<1>4. rich' = queryBalances(height)
  BY <1>1, <1>2, <1>3 DEF FetchAndUpdateBalances, NoRows
<1>5. ListTypeOK'
  BY <1>1, <1>3, <1>4 DEF ListInv, ListTypeOK
<1>6. ChainInv'
  BY <1>1 DEF ListInv, ChainInv, BalanceAt, Moved
<1>7. ExtInv'
  BY <1>1 DEF ListInv, ListTypeOK, ExtInv, Patched, patcherVars
<1>8. RowsInv'
  BY <1>1, <1>2 DEF RowsInv, patcherVars
<1>9. BalanceAt(status)' = queryBalances(height)
  BY <1>1 DEF BalanceAt, queryBalances
<1>10. RichRight'
  BY <1>1, <1>3, <1>4, <1>9 DEF RichRight
<1> QED
  BY <1>5, <1>6, <1>7, <1>8, <1>10 DEF ListInv

(* Initialize starts the one extension after the status row.               *)
LEMMA InitializeInv ==
  ASSUME ListInv, NEW p \in Processes, Initialize(p)
  PROVE  ListInv'
<1> USE RichListAssumption
<1>1. /\ Patched(p) /\ \A q \in Processes : ext[q].at = "off"
      /\ status # 0 \/ Len(blocks) > 0
      /\ Len(blocks) \in Nat /\ status \in 0 .. Len(blocks)
      /\ UNCHANGED <<patcherVars, vm, blocks, rich, status, synced>>
      /\ ext' = [ext EXCEPT ![p] = IF status # 0 THEN [at |-> "run", cur |-> status + 1]
                                             ELSE [at |-> "init", cur |-> Len(blocks)]]
  BY DEF Initialize, ListInv, ListTypeOK
<1>2. ListTypeOK'
  BY <1>1 DEF ListInv, ListTypeOK
<1>3. ChainInv' /\ RowsInv'
  BY <1>1 DEF ListInv, ChainInv, BalanceAt, Moved, RowsInv, patcherVars
<1>4. ExtInv'
  BY <1>1 DEF ListInv, ListTypeOK, ExtInv, Patched, patcherVars
<1>5. RichRight'
  BY <1>1 DEF ListInv, RichRight, Untracked, HiddenFrom, BalanceAt, patcherVars
<1> QED
  BY <1>2, <1>3, <1>4, <1>5 DEF ListInv

(* The extension of a process that is still at the patches is off.         *)
LEMMA PatchAheadInv ==
  ASSUME ListInv, NEW p \in Processes, ~Patched(p),
         \A q \in Processes \ {p} : patching'[q] = patching[q],
         UNCHANGED <<applied, vm, blocks, rich, status, ext, synced>>
  PROVE  ListInv'
<1>1. ListTypeOK' /\ ChainInv' /\ RowsInv'
  BY DEF ListInv, ListTypeOK, ChainInv, BalanceAt, Moved, RowsInv
<1>2. ExtInv'
  BY DEF ListInv, ExtInv, Patched
<1>3. RichRight'
  BY DEF ListInv, RichRight, Untracked, HiddenFrom, BalanceAt
<1> QED
  BY <1>1, <1>2, <1>3 DEF ListInv

(* v1.0.14 empties the list when no extension runs and nothing was stored; *)
(* another patch leaves it alone.                                          *)
LEMMA PatchRichListInv ==
  ASSUME PatcherInv, ListInv, NEW p \in Processes, PatchRichList(p)
  PROVE  ListInv'
<1> USE RichListAssumption
<1>1. /\ ~Patched(p) /\ version(p) \notin applied
      /\ applied' = applied \union {version(p)}
      /\ patching' = [patching EXCEPT ![p] = [next |-> @.next + 1, saw |-> NoTxn]]
      /\ UNCHANGED <<vm, blocks, ext, synced>>
  BY DEF PatchRichList, PatchCommit
<1>2. version(p) \in Versions
  BY PatchPositions DEF PatcherInv, PatcherTypeOK, PatchRichList, PatchCommit, Patched, version
<1>3. \A q \in Processes : ext[q].at = "off"
  BY <1>1, <1>2, PatcherInvImplies DEF PatchesOnce, ListInv, ExtInv
<1>4. ExtInv'
  BY <1>1, <1>3 DEF ExtInv
<1>5. ChainInv'
  BY <1>1 DEF ListInv, ChainInv, BalanceAt, Moved
<1>6. CASE version(p) = "v1.0.14"
  <2>1. rich' = NoRows /\ status' = 0 /\ synced = NoRows
    BY <1>1, <1>6 DEF PatchRichList, ListInv, RowsInv
  <2>2. ListTypeOK'
    BY <1>1, <2>1 DEF ListInv, ListTypeOK, NoRows
  <2>3. RowsInv' /\ RichRight'
    BY <1>1, <1>6, <2>1 DEF RowsInv, RichRight, NoRows
  <2> QED
    BY <1>4, <1>5, <2>2, <2>3 DEF ListInv
<1>7. CASE version(p) # "v1.0.14"
  <2>1. UNCHANGED <<rich, status>> /\ ("v1.0.14" \in applied' <=> "v1.0.14" \in applied)
    BY <1>1, <1>7 DEF PatchRichList
  <2>2. ListTypeOK' /\ RowsInv'
    BY <1>1, <2>1 DEF ListInv, ListTypeOK, RowsInv
  <2>3. RichRight'
    BY <1>1, <2>1 DEF ListInv, RichRight, Untracked, HiddenFrom, BalanceAt
  <2> QED
    BY <1>4, <1>5, <2>2, <2>3 DEF ListInv
<1> QED
  BY <1>6, <1>7

(* A kill ends the extension of the process and loses no row.              *)
LEMMA KillInv ==
  ASSUME PatcherInv, ListInv, NEW p \in Processes, Kill(p)
  PROVE  ListInv'
<1>1. /\ UNCHANGED <<applied, vm, blocks, rich, status, synced>>
      /\ ext' = [ext EXCEPT ![p] = Off]
      /\ patching' = [patching EXCEPT ![p] = [next |-> 1, saw |-> NoTxn]]
  BY DEF Kill, PatcherKill, PatchAgain
<1>2. ListTypeOK'
  BY <1>1 DEF ListInv, ListTypeOK, Off
<1>3. ChainInv' /\ RowsInv'
  BY <1>1 DEF ListInv, ChainInv, BalanceAt, Moved, RowsInv
<1>4. ExtInv'
  BY <1>1 DEF ListInv, ListTypeOK, ExtInv, Patched, Off, PatcherInv, PatcherTypeOK
<1>5. RichRight'
  BY <1>1 DEF ListInv, RichRight, Untracked, HiddenFrom, BalanceAt
<1> QED
  BY <1>2, <1>3, <1>4, <1>5 DEF ListInv
-----------------------------------------------------------------------------
LEMMA RichInvInit == RichListInit => RichInv
  BY ListInvInit, PatcherInvInit, InvParts DEF RichListInit

LEMMA RichInvNext == RichInv /\ [RichListNext]_richVars => RichInv'
<1> SUFFICES ASSUME PatcherInv, ListInv, [RichListNext]_richVars
             PROVE  PatcherInv' /\ ListInv'
  BY InvParts, PTL
<1>0. ASSUME UNCHANGED patcherVars PROVE PatcherInv'
  BY <1>0 DEF patcherVars, PatcherInv, PatcherTypeOK, HistoryInv
<1>1. CASE UNCHANGED richVars
  <2>1. UNCHANGED <<patcherVars, vm, blocks, rich, status, ext, synced>>
    BY <1>1 DEF richVars
  <2>2. ListTypeOK' /\ ChainInv' /\ ExtInv' /\ RowsInv'
    BY <2>1 DEF ListInv, ListTypeOK, ChainInv, BalanceAt, Moved, RowsInv, ExtInv, Patched,
                patcherVars
  <2>3. RichRight'
    BY <2>1 DEF ListInv, RichRight, Untracked, HiddenFrom, BalanceAt, patcherVars
  <2> QED
    BY <1>0, <2>1, <2>2, <2>3 DEF ListInv
<1>2. CASE NewBlock
  BY <1>0, <1>2, NewBlockInv DEF NewBlock
<1>3. ASSUME NEW p \in Processes, PatchAhead(p)
      PROVE  PatcherInv' /\ ListInv'
  <2>1. PatcherInv'
    BY <1>3, PatchBeginInv, PatchSkipInv, PatchConflictInv DEF PatchAhead
  <2>2. /\ ~Patched(p) /\ UNCHANGED <<applied, vm, blocks, rich, status, ext, synced>>
        /\ \A q \in Processes \ {p} : patching'[q] = patching[q]
    BY <1>3 DEF PatchAhead, PatchBegin, PatchSkip, PatchConflict, PatchAgain,
                PatcherInv, PatcherTypeOK
  <2> QED
    BY <2>1, <2>2, PatchAheadInv
<1>4. ASSUME NEW p \in Processes, PatchRichList(p)
      PROVE  PatcherInv' /\ ListInv'
  BY <1>4, PatchRichListInv, PatchCommitInv DEF PatchRichList
<1>5. ASSUME NEW p \in Processes, Initialize(p)
      PROVE  PatcherInv' /\ ListInv'
  BY <1>0, <1>5, InitializeInv DEF Initialize
<1>6. ASSUME NEW p \in Processes, InitializeBalances(p)
      PROVE  PatcherInv' /\ ListInv'
  BY <1>0, <1>6, InitializeBalancesInv DEF InitializeBalances
<1>7. ASSUME NEW p \in Processes, ProcessHeight(p)
      PROVE  PatcherInv' /\ ListInv'
  BY <1>0, <1>7, ProcessHeightInv DEF ProcessHeight
<1>8. ASSUME NEW p \in Processes, Kill(p)
      PROVE  PatcherInv' /\ ListInv'
  BY <1>8, KillInv, PatcherKillInv DEF Kill
<1> QED
  BY <1>1, <1>2, <1>3, <1>4, <1>5, <1>6, <1>7, <1>8 DEF RichListNext, Work

LEMMA RichInvariant == RichListSpec => []RichInv
  BY RichInvInit, RichInvNext, PTL DEF RichListSpec

(* The heights of the extension and of its status row are heights of the   *)
(* block table, for any number of processes, patches and blocks.           *)
THEOREM RichListTypes == RichListSpec => []RichListTypeOK
<1>1. RichInv => RichListTypeOK
  BY DEF RichInv
<1> QED
  BY <1>1, RichInvariant, PTL

(* However many indexers run patcher.Patch at once and wherever they fail, *)
(* each patch is committed at most once, none before an older one, and an  *)
(* indexer goes on only when all are.                                      *)
THEOREM PatchesAreAppliedOnce == RichListSpec => []PatchesOnce
<1>1. RichInv => PatchesOnce
  BY InvParts, PatcherInvImplies
<1> QED
  BY <1>1, RichInvariant, PTL

(* The rich list holds the balances at the height of its status row for    *)
(* the accounts it follows, unless a balance changed outside transactions  *)
(* since it was last queried; on evm no row is negative.  For all chains,  *)
(* delays, virtual machines and kills.                                     *)
THEOREM RichListIsRight == RichListSpec => []RichRight
<1>1. RichInv => RichRight
  BY DEF RichInv
<1> QED
  BY <1>1, RichInvariant, PTL
-----------------------------------------------------------------------------
(* What the loop may make of the list at a height: the rows with the       *)
(* changes of that block, or on evm the balances that the node answers.    *)
StoredAt(height) ==
  \/ rich' = UpdateBalanceChanges(ProcessBalanceChanges(blocks[height]))
  \/ vm = "evm" /\ rich' = BalanceAt(height)

(* Once v1.0.14 is applied, the rows and their height change only          *)
(* together: they begin with the balances of one block, and from there     *)
(* every block is applied exactly once, in order and not before it is      *)
(* Delay blocks deep, whichever process does it and wherever one is killed *)
(* (Initialize, Processor.Run).                                            *)
HeightByHeight ==
  "v1.0.14" \in applied =>
    \/ UNCHANGED <<rich, status>>
    \/ status = 0 /\ status' \in 1 .. Len(blocks) /\ rich' = BalanceAt(status')
    \/ /\ status # 0
       /\ status' = status + 1
       /\ status' + Delay <= Len(blocks)
       /\ StoredAt(status')

LEMMA HeightByHeightStep == RichInv /\ [RichListNext]_richVars => HeightByHeight
<1> SUFFICES ASSUME RichInv, [RichListNext]_richVars, "v1.0.14" \in applied
             PROVE  HeightByHeight
  BY DEF HeightByHeight
<1>1. /\ blocks \in Seq(Block) /\ Len(blocks) \in Nat /\ status \in 0 .. Len(blocks)
      /\ rich \in [Accounts -> Int] /\ Delay \in Nat
  BY RichListAssumption DEF RichInv, RichListTypeOK, ChainInv
<1>2. ASSUME UNCHANGED <<rich, status>> PROVE HeightByHeight
  BY <1>2 DEF HeightByHeight
<1>3. CASE UNCHANGED richVars
  BY <1>2, <1>3 DEF richVars
<1>4. CASE NewBlock
  BY <1>2, <1>4 DEF NewBlock
<1>5. ASSUME NEW p \in Processes, PatchAhead(p) \/ Initialize(p) \/ Kill(p) PROVE HeightByHeight
  BY <1>2, <1>5 DEF PatchAhead, Initialize, Kill
<1>6. ASSUME NEW p \in Processes, PatchRichList(p) PROVE HeightByHeight
  <2>1. version(p) # "v1.0.14"
    BY <1>6 DEF PatchRichList, PatchCommit
  <2> QED
    BY <1>2, <1>6, <2>1 DEF PatchRichList
<1>7. ASSUME NEW p \in Processes, InitializeBalances(p) PROVE HeightByHeight
  <2> DEFINE h == ext[p].cur
  <2>1. h \in 1 .. Len(blocks) /\ status = 0 /\ rich = NoRows
    BY <1>7 DEF InitializeBalances, RichInv, ExtInv, RowsInv
  <2>2. status' = h /\ rich' = FetchAndUpdateBalances(h)
    BY <1>7 DEF InitializeBalances, UpdateRichListStatus
  <2>3. BalanceAt(h) \in [Accounts -> Nat]
    <3>1. blocks[h] \in Block /\ h # 0
      BY <1>1, <2>1
    <3> QED
      BY <3>1 DEF BalanceAt, Block
  <2> HIDE DEF h
  <2>4. rich' = BalanceAt(h)
    BY <2>1, <2>2, <2>3 DEF FetchAndUpdateBalances, queryBalances, NoRows
  <2> QED
    BY <2>1, <2>2, <2>4 DEF HeightByHeight
<1>8. ASSUME NEW p \in Processes, ProcessHeight(p) PROVE HeightByHeight
  <2> DEFINE h == ext[p].cur
  <2>1. status # 0 /\ h = status + 1
    BY <1>8 DEF ProcessHeight, RichInv, ExtInv
  <2>2. status' = h /\ h + Delay <= Len(blocks)
    BY <1>8 DEF ProcessHeight, UpdateRichListStatus, GetCollectedBlock
  <2>3. AfterProcess(h, ProcessBalanceChanges(blocks[h]))
    BY <1>8 DEF ProcessHeight
  <2> HIDE DEF h
  <2>4. StoredAt(h)
    BY <2>3 DEF AfterProcess, StoredAt, queryBalances
  <2>5. status' = status + 1 /\ status' + Delay <= Len(blocks) /\ StoredAt(status')
    BY <2>1, <2>2, <2>4 DEF StoredAt
  <2> QED
    BY <2>1, <2>5 DEF HeightByHeight
<1> QED
  BY <1>3, <1>4, <1>5, <1>6, <1>7, <1>8 DEF RichListNext, Work

(* The extension applies every block exactly once to the list, in order    *)
(* and none early, for any number of processes, blocks and kills.          *)
THEOREM ListGoesHeightByHeight == RichListSpec => [][HeightByHeight]_richVars
<1>1. RichInv /\ [RichListNext]_richVars => [HeightByHeight]_richVars
  BY HeightByHeightStep
<1> QED
  BY <1>1, RichInvariant, PTL DEF RichListSpec
=============================================================================
