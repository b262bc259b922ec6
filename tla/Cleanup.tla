------------------------------ MODULE Cleanup ------------------------------
(***************************************************************************)
(* extension/evmret and extension/txaccountcleanup: two extensions repair  *)
(* the table tx_accounts while the collector appends to it.                *)
(*                                                                         *)
(* evmret goes up the heights and deletes the rows of accounts that occur  *)
(* only in the `ret` attribute of a transaction.  txaccountcleanup goes    *)
(* down the sequences, once, and brings each transaction's rows to what    *)
(* the collector would write now.  Each deletes transaction by transaction *)
(* and writes its status row after a whole batch.                          *)
(*                                                                         *)
(* A transaction is its sequence; Height, Signer, Named and Ret say where  *)
(* it is, who signed it, and which accounts its events name outside and    *)
(* inside `ret` attributes.  A row of tx_accounts is "signer" or           *)
(* "account", by its flag, or "none".                                      *)
(***************************************************************************)
EXTENDS Integers, FiniteSets

CONSTANTS
  Accounts,
  MaxSeq,        \* bound: the last transaction
  Height,        \* sequence -> height of its block
  Signer,        \* sequence -> account
  Named,         \* sequence -> accounts outside `ret` attributes
  Ret,           \* sequence -> accounts in `ret` attributes
  LegacyHeight,  \* blocks up to here were indexed by earlier versions
  BatchSize,     \* blocks, or transactions, per batch
  MaxKills       \* bound: how often the process is killed

Seqs == 1 .. MaxSeq

ASSUME CleanupAssumption ==
  /\ MaxSeq \in Nat
  /\ Height \in [Seqs -> Nat \ {0}]
  /\ \A s, t \in Seqs : s < t => Height[s] <= Height[t]
  /\ Signer \in [Seqs -> Accounts]
  /\ Named \in [Seqs -> SUBSET Accounts]
  /\ Ret \in [Seqs -> SUBSET Accounts]
  /\ IsFiniteSet(Accounts)
  /\ LegacyHeight \in Nat
  /\ BatchSize \in Nat \ {0}
  /\ MaxKills \in Nat

VARIABLES
  height,      \* the last block of the collector
  dict,        \* accounts with an id
  txAccounts,  \* sequence -> account -> "none", "account" or "signer"
  retStatus,   \* row evm_ret_cleanup_status
  ret,         \* evmret: its place, currentHeight, endHeight, what is left
  tacStatus,   \* row tx_account_cleanup_status
  tac,         \* txaccountcleanup: the same, and the rows it has read
  unresolved,  \* history: rows not inserted, for their account had no id
  removed,     \* history: rows deleted by either
  kills

vars == <<height, dict, txAccounts, retStatus, ret, tacStatus, tac,
          unresolved, removed, kills>>

RowKinds == {"none", "account", "signer"}
txs      == {s \in Seqs : Height[s] <= height}
noRows   == [a \in Accounts |-> "none"]
retOff   == [at |-> "off", current |-> 0, end |-> 0, todo |-> {}, deleted |-> 0]
tacOff   == [at |-> "off", current |-> 0, start |-> 0, todo |-> {}, deleted |-> 0,
             inserted |-> 0, actual |-> [s \in Seqs |-> noRows]]

MinOf(a, b) == IF a <= b THEN a ELSE b
MaxOf(a, b) == IF a >= b THEN a ELSE b
Highest(S)  == IF S = {} THEN 0 ELSE CHOOSE x \in S : \A y \in S : y <= x
-----------------------------------------------------------------------------
(* The row the collector writes for account a of transaction s.            *)
RowFor(s, a) ==
  IF a = Signer[s] THEN "signer" ELSE IF a \in Named[s] THEN "account" ELSE "none"

(* The next block with its transactions and the ids of its accounts, in    *)
(* one database transaction.                                               *)
BlockCommit ==
  /\ \E s \in Seqs : Height[s] > height
  /\ height' = height + 1
  /\ LET new == {s \in Seqs : Height[s] = height + 1}
     IN  /\ txAccounts' = [s \in Seqs |-> IF s \in new THEN [a \in Accounts |-> RowFor(s, a)]
                                          ELSE txAccounts[s]]
         /\ dict' = dict \union UNION {Named[s] \union {Signer[s]} : s \in new}
  /\ UNCHANGED <<retStatus, ret, tacStatus, tac, unresolved, removed, kills>>

(* The process dies, or an extension returns an error, on which the        *)
(* extension manager panics.                                               *)
Kill ==
  /\ kills < MaxKills
  /\ kills' = kills + 1
  /\ ret' = retOff
  /\ tac' = tacOff
  /\ UNCHANGED <<height, dict, txAccounts, retStatus, tacStatus, unresolved, removed>>

(* The number of rows of transaction s that a statement over accounts S    *)
(* deletes: RowsAffected.                                                  *)
RowsAffected(s, S) == Cardinality({a \in S : txAccounts[s][a] # "none"})
-----------------------------------------------------------------------------
(* evmret: Initialize.                                                     *)
RetStart ==
  /\ ret.at = "off"
  /\ ret' = [ret EXCEPT !.at = "poll", !.current = retStatus.height + 1]
  /\ UNCHANGED <<height, dict, txAccounts, retStatus, tacStatus, tac, unresolved,
                 removed, kills>>

(* Bug: a batch waits until the table is high enough to fill it.           *)
RetPollWaits ==
  LET maxHeight == Highest({Height[s] : s \in txs})
      endHeight == MinOf(ret.current + BatchSize - 1, maxHeight)
  IN  /\ ret.at = "poll"
      /\ ret.current + BatchSize - 1 <= maxHeight
      /\ ret' = [ret EXCEPT !.at = "batch", !.end = endHeight,
                            !.todo = {s \in txs : ret.current <= Height[s] /\ Height[s] <= endHeight}]
      /\ UNCHANGED <<height, dict, txAccounts, retStatus, tacStatus, tac,
                     unresolved, removed, kills>>

(* The maximum height is that of the tx table.                             *)
RetPoll ==
  LET maxHeight == Highest({Height[s] : s \in txs})
      endHeight == MinOf(ret.current + BatchSize - 1, maxHeight)
  IN  /\ ret.at = "poll"
      /\ ret.current <= maxHeight
      /\ ret' = [ret EXCEPT !.at = "batch", !.end = endHeight,
                            !.todo = {s \in txs : ret.current <= Height[s] /\ Height[s] <= endHeight}]
      /\ UNCHANGED <<height, dict, txAccounts, retStatus, tacStatus, tac,
                     unresolved, removed, kills>>

FindRetOnlyAddresses(s) == Ret[s] \ Named[s]

(* Bug: the signer is not spared.                                          *)
FilterNoneSigners(S, s) == S

FilterNonSigners(S, s) == S \ {Signer[s]}

(* Bug: the ids are counted, not the rows.                                 *)
RetTxCountsIds(s) ==
  LET ids == FilterNonSigners(FindRetOnlyAddresses(s) \intersect dict, s)
  IN  /\ ret.at = "batch"
      /\ s \in ret.todo
      /\ \A t \in ret.todo : Height[s] <= Height[t]
      /\ txAccounts' = [txAccounts EXCEPT ![s] = [a \in Accounts |-> IF a \in ids THEN "none" ELSE @[a]]]
      /\ ret' = [ret EXCEPT !.todo = @ \ {s}, !.deleted = @ + Cardinality(ids)]
      /\ removed' = removed + RowsAffected(s, ids)
      /\ UNCHANGED <<height, dict, retStatus, tacStatus, tac, unresolved, kills>>

(* One transaction of the batch, in the order of heights; the delete       *)
(* commits by itself.  One whose data does not parse is passed over with a *)
(* warning: the data is JSON that the collector wrote, so there is none.   *)
RetTx(s) ==
  LET ids == FilterNonSigners(FindRetOnlyAddresses(s) \intersect dict, s)
  IN  /\ ret.at = "batch"
      /\ s \in ret.todo
      /\ \A t \in ret.todo : Height[s] <= Height[t]
      /\ txAccounts' = [txAccounts EXCEPT ![s] = [a \in Accounts |-> IF a \in ids THEN "none" ELSE @[a]]]
      /\ ret' = [ret EXCEPT !.todo = @ \ {s}, !.deleted = @ + RowsAffected(s, ids)]
      /\ removed' = removed + RowsAffected(s, ids)
      /\ UNCHANGED <<height, dict, retStatus, tacStatus, tac, unresolved, kills>>

(* Bug: the status is written before the batch is done.                    *)
RetUpdateStatusEarly ==
  /\ ret.at = "batch"
  /\ retStatus' = [height |-> ret.end, corrected |-> retStatus.corrected + ret.deleted]
  /\ ret' = IF ret.todo = {} THEN [retOff EXCEPT !.at = "poll", !.current = ret.end + 1]
            ELSE [ret EXCEPT !.deleted = 0]
  /\ UNCHANGED <<height, dict, txAccounts, tacStatus, tac, unresolved, removed, kills>>

RetUpdateStatus ==
  /\ ret.at = "batch"
  /\ ret.todo = {}
  /\ retStatus' = [height |-> ret.end, corrected |-> retStatus.corrected + ret.deleted]
  /\ ret' = [retOff EXCEPT !.at = "poll", !.current = ret.end + 1]
  /\ UNCHANGED <<height, dict, txAccounts, tacStatus, tac, unresolved, removed, kills>>
-----------------------------------------------------------------------------
(* txaccountcleanup: Initialize; on the first run the highest sequence is  *)
(* read and then stored.                                                   *)
TacStart ==
  /\ tac.at = "off"
  /\ tac' = [tac EXCEPT !.at = IF tacStatus.sequence < 0 THEN "first" ELSE "next",
                        !.current = IF tacStatus.sequence < 0 THEN Highest(txs)
                                    ELSE tacStatus.sequence]
  /\ UNCHANGED <<height, dict, txAccounts, retStatus, ret, tacStatus, unresolved,
                 removed, kills>>

TacFirst ==
  /\ tac.at = "first"
  /\ tacStatus' = [tacStatus EXCEPT !.sequence = tac.current]
  /\ tac' = [tac EXCEPT !.at = "next"]
  /\ UNCHANGED <<height, dict, txAccounts, retStatus, ret, unresolved, removed, kills>>

(* The transactions of the batch and their rows are read.                  *)
TacBatch ==
  LET startSeq == MaxOf(tac.current - BatchSize + 1, 1)
  IN  /\ tac.at = "next"
      /\ tac.current > 0
      /\ tac' = [tac EXCEPT !.at = "batch", !.start = startSeq,
                            !.todo = txs \intersect (startSeq .. tac.current),
                            !.actual = [s \in Seqs |-> IF s \in startSeq .. tac.current
                                                      THEN txAccounts[s] ELSE noRows]]
      /\ UNCHANGED <<height, dict, txAccounts, retStatus, ret, tacStatus,
                     unresolved, removed, kills>>

(* The accounts that reconcileTx expects; none is created.                 *)
Expected(s) == (Named[s] \intersect dict) \union {Signer[s]}

(* Bug: wrong signer flags are left alone.                                 *)
ReconciledButFlags(s, a) ==
  LET read == tac.actual[s][a]
      row  == txAccounts[s][a]
      want == IF a \in Expected(s) THEN RowFor(s, a) ELSE "none"
  IN  IF want = "none" /\ read # "none" THEN "none"
      ELSE IF read = "none" /\ row = "none" THEN want
      ELSE row

(* What reconcileTx leaves of the row of account a, given the row it read: *)
(* extra rows are deleted, missing ones inserted unless they are there,    *)
(* and wrong signer flags corrected.                                       *)
Reconciled(s, a) ==
  LET read == tac.actual[s][a]
      row  == txAccounts[s][a]
      want == IF a \in Expected(s) THEN RowFor(s, a) ELSE "none"
  IN  IF read = want THEN row
      ELSE IF want = "none" THEN "none"
      ELSE IF read = "none" THEN (IF row = "none" THEN want ELSE row)
      ELSE IF row = "none" THEN "none" ELSE want

(* reconcileTx, one database transaction.                                  *)
TacTx(s) ==
  LET extra == {a \in Accounts : tac.actual[s][a] # "none" /\ a \notin Expected(s)}
      missing == {a \in Expected(s) : tac.actual[s][a] = "none" /\ txAccounts[s][a] = "none"}
  IN  /\ tac.at = "batch"
      /\ s \in tac.todo
      /\ \A t \in tac.todo : s <= t
      /\ txAccounts' = [txAccounts EXCEPT ![s] = [a \in Accounts |-> Reconciled(s, a)]]
      /\ tac' = [tac EXCEPT !.todo = @ \ {s},
                            !.actual[s] = noRows,
                            !.deleted = @ + RowsAffected(s, extra),
                            !.inserted = @ + Cardinality(missing)]
      /\ removed' = removed + RowsAffected(s, extra)
      /\ unresolved' = unresolved \union {<<s, a>> : a \in Named[s] \ Expected(s)}
      /\ UNCHANGED <<height, dict, retStatus, ret, tacStatus, kills>>

(* Bug: the next batch ends one too low.                                   *)
TacNextBelow(start) == start - 2

TacNext(start) == start - 1

TacUpdateStatus ==
  /\ tac.at = "batch"
  /\ tac.todo = {}
  /\ tacStatus' = [sequence |-> TacNext(tac.start),
                   deleted  |-> tacStatus.deleted + tac.deleted,
                   inserted |-> tacStatus.inserted + tac.inserted]
  /\ tac' = [tacOff EXCEPT !.at = "next", !.current = TacNext(tac.start)]
  /\ UNCHANGED <<height, dict, txAccounts, retStatus, ret, unresolved, removed, kills>>

TacDone ==
  /\ tac.at = "next"
  /\ tac.current <= 0
  /\ tac' = [tac EXCEPT !.at = "done"]
  /\ UNCHANGED <<height, dict, txAccounts, retStatus, ret, tacStatus, unresolved,
                 removed, kills>>
-----------------------------------------------------------------------------
(* What earlier versions left: for each transaction any rows of its        *)
(* accounts, with any flag.  An account with a row, and a signer, has an   *)
(* id.                                                                     *)
Init ==
  /\ height = LegacyHeight
  /\ txAccounts \in
       {r \in [Seqs -> [Accounts -> RowKinds]] :
          \A s \in Seqs : \A a \in Accounts :
            r[s][a] # "none" => s \in txs /\ a \in Named[s] \union Ret[s] \union {Signer[s]}}
  /\ dict = {a \in Accounts : \E s \in txs : txAccounts[s][a] # "none" \/ a = Signer[s]}
  /\ retStatus = [height |-> 0, corrected |-> 0]
  /\ ret = retOff
  /\ tacStatus = [sequence |-> -1, deleted |-> 0, inserted |-> 0]
  /\ tac = tacOff
  /\ unresolved = {}
  /\ removed = 0
  /\ kills = 0

RetStep ==
  \/ RetStart
  \/ RetPoll
  \/ \E s \in Seqs : RetTx(s)
  \/ RetUpdateStatus

TacStep ==
  \/ TacStart
  \/ TacFirst
  \/ TacBatch
  \/ \E s \in Seqs : TacTx(s)
  \/ TacUpdateStatus
  \/ TacDone

Next == BlockCommit \/ Kill \/ RetStep \/ TacStep

Spec == Init /\ [][Next]_vars
-----------------------------------------------------------------------------
Rows == [Seqs -> [Accounts -> RowKinds]]

(* Type invariant.                                                         *)
TypeOK ==
  /\ height \in Nat
  /\ dict \in SUBSET Accounts
  /\ txAccounts \in Rows
  /\ retStatus \in [height : Nat, corrected : Nat]
  /\ ret \in [at : {"off", "poll", "batch"}, current : Nat, end : Nat,
              todo : SUBSET Seqs, deleted : Nat]
  /\ tacStatus \in [sequence : Nat \union {-1}, deleted : Nat, inserted : Nat]
  /\ tac \in [at : {"off", "first", "next", "batch", "done"}, current : Nat,
              start : Nat, todo : SUBSET Seqs, deleted : Nat, inserted : Nat, actual : Rows]
  /\ unresolved \in SUBSET (Seqs \X Accounts)
  /\ removed \in Nat
  /\ kills \in Nat

(* Up to the height of its status row, evmret has left no row of a         *)
(* ret-only account, whatever the other extension wrote since.             *)
RetOnlyGone ==
  \A s \in Seqs : Height[s] <= retStatus.height =>
    \A a \in FindRetOnlyAddresses(s) \ {Signer[s]} : txAccounts[s][a] = "none"

(* Above the sequence of its status row, txaccountcleanup has left exactly *)
(* the rows the collector would write, except for accounts that had no id. *)
Repaired ==
  tacStatus.sequence >= 0 =>
    \A s \in txs : s > tacStatus.sequence =>
      \A a \in Accounts :
        \/ txAccounts[s][a] = RowFor(s, a)
        \/ txAccounts[s][a] = "none" /\ <<s, a>> \in unresolved

(* A status row never counts a row that was not deleted, or twice, after   *)
(* any number of repeated batches.                                         *)
CountsHonest == retStatus.corrected + tacStatus.deleted <= removed

(* No step of either extension removes a row that the collector would      *)
(* write.                                                                  *)
KeepsGoodRows ==
  [][\A s \in txs : \A a \in Accounts :
       txAccounts[s][a] = RowFor(s, a) => txAccounts'[s][a] = RowFor(s, a)]_vars
-----------------------------------------------------------------------------
(* Fairness: the goroutines run and the process is started again.          *)
Fairness ==
  /\ WF_vars(RetStep)
  /\ WF_vars(TacStep)
  /\ WF_vars(BlockCommit)

FairSpec == Spec /\ Fairness

(* Both extensions catch up, one of them ends, and in the end the table is *)
(* as the collector would have written it, except for accounts that had no *)
(* id.                                                                     *)
CatchesUp ==
  <>[](/\ tac.at = "done"
       /\ retStatus.height = Highest({Height[s] : s \in Seqs})
       /\ \A s \in Seqs : \A a \in Accounts :
            txAccounts[s][a] = RowFor(s, a) \/ <<s, a>> \in unresolved)
=============================================================================
