------------------------------- MODULE Status -------------------------------
(***************************************************************************)
(* common-handler/status: the height up to which internal transactions are *)
(* indexed, as GET /status reports it, while the collector and the         *)
(* internal-tx extension go on.  The statements of a request see one       *)
(* snapshot each (READ COMMITTED).  getRichListHeight and                  *)
(* getEvmRetCleanupStatus keep their heights the same way.                 *)
(***************************************************************************)
EXTENDS Integers, Sequences, FiniteSets

CONSTANTS
  Clients,          \* concurrent requests
  MaxStatusHeight   \* bound: blocks

ASSUME StatusAssumption == MaxStatusHeight \in Nat

VARIABLES
  hasTxs,     \* the block table: height -> tx_count > 0
  traced,     \* the height up to which the extension has got
  itxHeight,  \* MAX(height) of evm_internal_tx, 0 without a row
  lastEvmInternalTxHeight,
  asked,      \* client -> [at, lastBlock, loaded, height]
  highest     \* history: the largest height that was stored

statusVars == <<hasTxs, traced, itxHeight, lastEvmInternalTxHeight, asked, highest>>

NoStatus == [at |-> "idle", lastBlock |-> 0, loaded |-> 0, height |-> 0]

Larger(a, b) == IF a > b THEN a ELSE b
-----------------------------------------------------------------------------
CommitBlock ==
  /\ Len(hasTxs) < MaxStatusHeight
  /\ \E b \in BOOLEAN : hasTxs' = Append(hasTxs, b)
  /\ UNCHANGED <<traced, itxHeight, lastEvmInternalTxHeight, asked, highest>>

(* A block of which no transaction could be traced gets no row.            *)
IndexInternal ==
  /\ traced < Len(hasTxs)
  /\ traced' = traced + 1
  /\ \/ hasTxs[traced'] /\ itxHeight' = traced'
     \/ UNCHANGED itxHeight
  /\ UNCHANGED <<hasTxs, lastEvmInternalTxHeight, asked, highest>>

(* GetStatus reads the last block, and fails without one.                  *)
ReadLastBlock(c) ==
  /\ asked[c].at \in {"idle", "answered"}
  /\ hasTxs # <<>>
  /\ asked' = [asked EXCEPT ![c] = [NoStatus EXCEPT !.at = "load", !.lastBlock = Len(hasTxs)]]
  /\ UNCHANGED <<hasTxs, traced, itxHeight, lastEvmInternalTxHeight, highest>>

(* getInternalTxHeight loads the height it knows, ...                      *)
LoadHeight(c) ==
  /\ asked[c].at = "load"
  /\ asked' = [asked EXCEPT ![c].at = "read", ![c].loaded = lastEvmInternalTxHeight]
  /\ UNCHANGED <<hasTxs, traced, itxHeight, lastEvmInternalTxHeight, highest>>

(* ... reads that of the last row, ...                                     *)
ReadInternal(c) ==
  /\ asked[c].at = "read"
  /\ asked' = [asked EXCEPT ![c].at = "swap", ![c].height = itxHeight]
  /\ UNCHANGED <<hasTxs, traced, itxHeight, lastEvmInternalTxHeight, highest>>

Keep(c, height) ==
  /\ lastEvmInternalTxHeight' = height
  /\ highest' = Larger(highest, height)
  /\ asked' = [asked EXCEPT ![c].at = "exists", ![c].height = height]

(* Bug: a plain store.                                                     *)
StoreHeight(c) ==
  /\ asked[c].at = "swap"
  /\ Keep(c, Larger(asked[c].height, asked[c].loaded))
  /\ UNCHANGED <<hasTxs, traced, itxHeight>>

(* ... keeps the larger one, unless another request has stored one since   *)
(* (CompareAndSwap), which it takes then, ...                              *)
SwapHeight(c) ==
  /\ asked[c].at = "swap"
  /\ IF asked[c].height > asked[c].loaded
     THEN Keep(c, IF lastEvmInternalTxHeight = asked[c].loaded
                  THEN asked[c].height ELSE lastEvmInternalTxHeight)
     ELSE /\ asked' = [asked EXCEPT ![c].at = "exists", ![c].height = asked[c].loaded]
          /\ UNCHANGED <<lastEvmInternalTxHeight, highest>>
  /\ UNCHANGED <<hasTxs, traced, itxHeight>>

(* ... and answers with the last block when no later block has             *)
(* transactions.                                                           *)
Answer(c) ==
  /\ asked[c].at = "exists"
  /\ LET exists == \E h \in DOMAIN hasTxs : h > asked[c].height /\ hasTxs[h]
     IN  asked' = [asked EXCEPT ![c].at = "answered",
                                ![c].height = IF exists THEN @ ELSE asked[c].lastBlock]
  /\ UNCHANGED <<hasTxs, traced, itxHeight, lastEvmInternalTxHeight, highest>>

StatusNext ==
  \/ CommitBlock
  \/ IndexInternal
  \/ \E c \in Clients :
       ReadLastBlock(c) \/ LoadHeight(c) \/ ReadInternal(c) \/ SwapHeight(c) \/ Answer(c)

StatusInit ==
  /\ hasTxs = <<>>
  /\ traced = 0
  /\ itxHeight = 0
  /\ lastEvmInternalTxHeight = 0
  /\ asked = [c \in Clients |-> NoStatus]
  /\ highest = 0

StatusSpec == StatusInit /\ [][StatusNext]_statusVars
-----------------------------------------------------------------------------
(* No answer claims a height below which the extension still has a block   *)
(* with transactions to come, though its reads see different snapshots;    *)
(* and the height that is kept between requests never goes back, though    *)
(* they race (GetStatus, getInternalTxHeight).                             *)
StatusHonest ==
  /\ \A c \in Clients : asked[c].at = "answered" =>
       \A h \in 1 .. asked[c].height : h \in DOMAIN hasTxs /\ (hasTxs[h] => h <= traced)
  /\ lastEvmInternalTxHeight = highest
=============================================================================
