---------------------------- MODULE InternalTx -----------------------------
(***************************************************************************)
(* indexer/extension/internaltx: the internal transaction extension.       *)
(*                                                                         *)
(*   block table --> producer --workQueue--> consumer --> internal tx rows *)
(*                                                                         *)
(* The producer takes the next heights with transactions from the block    *)
(* table, has all of them traced, and queues the traces.  The consumer     *)
(* writes the rows of one trace, the edges to the accounts of its calls    *)
(* and the sequence counter in one transaction.  A trace is represented by *)
(* its height; Calls[h] is the number of calls in it, 0 when the node      *)
(* could not trace any of the block's transactions.                        *)
(***************************************************************************)
EXTENDS Integers, Sequences, FiniteSets

CONSTANTS
  MaxHeight,  \* bound: the last height of the block table
  TxHeights,  \* heights whose block row has tx_count > 0
  Calls,      \* height -> number of internal transactions of its trace
  BatchSize,  \* INTERNAL_TX_BATCH_SIZE
  QueueSize,  \* INTERNAL_TX_QUEUE_SIZE
  CheckFails, \* whether the node version check may fail
  MaxKills    \* bound: how often the process is killed

ASSUME InternalTxAssumption ==
  /\ MaxHeight \in Nat
  /\ TxHeights \subseteq 1 .. MaxHeight
  /\ Calls \in [1 .. MaxHeight -> Nat]
  /\ BatchSize \in Nat \ {0}
  /\ QueueSize \in Nat \ {0}
  /\ CheckFails \in BOOLEAN
  /\ MaxKills \in Nat

VARIABLES
  blocks,             \* height of the last block row
  run,                \* "off", "on", or "skipped": not for this node
  lastProducedHeight,
  producer,           \* "idle", "scrape" or "push"
  batch,              \* heights being scraped, or scraped and not yet queued
  workQueue,
  work,               \* the height the consumer works on, 0 for none
  rows,               \* the table evm_internal_tx: [height, sequence]
  edges,              \* sequences in evm_internal_tx_accounts
  seqInfo,            \* the sequence counter's row
  dropped,            \* history: heights whose transaction failed
  kills

extVars   == <<run, lastProducedHeight, producer, batch, workQueue, work>>
tableVars == <<rows, edges, seqInfo>>
vars      == <<blocks, extVars, tableVars, dropped, kills>>

indexed == {r.height : r \in rows}
-----------------------------------------------------------------------------
(* The collector commits the next block row, as ChainLog promises.         *)
BlockCommit ==
  /\ blocks < MaxHeight
  /\ blocks' = blocks + 1
  /\ UNCHANGED <<extVars, tableVars, dropped, kills>>

(* Bugs: resume at the last block row, or at -1 when there is no row.      *)
lastItxBlocks == blocks
lastItxNone   == IF indexed = {} THEN -1 ELSE CHOOSE h \in indexed : \A g \in indexed : g <= h

(* A restart resumes after the highest height that has a row.              *)
lastItx == IF indexed = {} THEN 0 ELSE CHOOSE h \in indexed : \A g \in indexed : g <= h

(* Run: Initialize and start both goroutines ...                           *)
Start ==
  /\ run = "off"
  /\ run' = "on"
  /\ lastProducedHeight' = lastItx
  /\ UNCHANGED <<blocks, producer, batch, workQueue, work, tableVars, dropped, kills>>

(* ... unless the node is too old or does not answer: then the extension   *)
(* does nothing until the process is started again.                        *)
StartSkipped ==
  /\ CheckFails
  /\ run = "off"
  /\ run' = "skipped"
  /\ UNCHANGED <<blocks, lastProducedHeight, producer, batch, workQueue, work,
                 tableVars, dropped, kills>>

(* The process dies; only the database survives.                           *)
Kill ==
  /\ run # "off"
  /\ kills < MaxKills
  /\ kills' = kills + 1
  /\ run' = "off"
  /\ lastProducedHeight' = 0
  /\ producer' = "idle"
  /\ batch' = {}
  /\ workQueue' = <<>>
  /\ work' = 0
  /\ UNCHANGED <<blocks, tableVars, dropped>>
-----------------------------------------------------------------------------
(* What the query for heights may return, in order, before its limit.      *)
candidates == {h \in TxHeights : lastProducedHeight < h /\ h <= blocks}

(* Bug: the limit ignores the free space of the queue.                     *)
batchLimitNoSpace == BatchSize

(* The limit: the batch size or the free space of the queue, if smaller.   *)
batchLimit ==
  LET availableSpace == QueueSize - Len(workQueue)
  IN  IF BatchSize <= availableSpace THEN BatchSize ELSE availableSpace

(* S is what getBatchHeights returns: the lowest candidates, up to the     *)
(* limit.                                                                  *)
IsBatch(S) ==
  /\ S # {}
  /\ IsFiniteSet(S)
  /\ Cardinality(S) <= batchLimit
  /\ Cardinality(S) < batchLimit => S = candidates
  /\ \A x \in S : \A y \in candidates \ S : x < y

(* produceBatchWork with a queue that is not full: start to trace the      *)
(* batch.  Without a candidate nothing happens.                            *)
ProduceStart ==
  /\ run = "on"
  /\ producer = "idle"
  /\ Len(workQueue) < QueueSize
  /\ \E S \in SUBSET candidates : IsBatch(S) /\ batch' = S
  /\ producer' = "scrape"
  /\ UNCHANGED <<blocks, run, lastProducedHeight, workQueue, work, tableVars,
                 dropped, kills>>

(* scrapeBatch: all heights were traced ...                                *)
ScrapeDone ==
  /\ producer = "scrape"
  /\ producer' = "push"
  /\ UNCHANGED <<blocks, run, lastProducedHeight, batch, workQueue, work,
                 tableVars, dropped, kills>>

(* Bug: the height is advanced although the batch was not traced.          *)
ScrapeFailAdvances ==
  /\ producer = "scrape"
  /\ producer' = "idle"
  /\ batch' = {}
  /\ \E h \in batch : (\A g \in batch : g <= h) /\ lastProducedHeight' = h
  /\ UNCHANGED <<blocks, run, workQueue, work, tableVars, dropped, kills>>

(* ... or one of them failed, and the whole batch is tried again later.    *)
ScrapeFail ==
  /\ producer = "scrape"
  /\ producer' = "idle"
  /\ batch' = {}
  /\ UNCHANGED <<blocks, run, lastProducedHeight, workQueue, work, tableVars,
                 dropped, kills>>

(* Bug: the items are queued in the order in which their traces arrived.   *)
PushAnyOrder(h) ==
  /\ producer = "push"
  /\ h \in batch
  /\ Len(workQueue) < QueueSize
  /\ workQueue' = Append(workQueue, h)
  /\ batch' = batch \ {h}
  /\ \/ batch = {h} /\ producer' = "idle" /\ lastProducedHeight' = h
     \/ batch # {h} /\ UNCHANGED <<producer, lastProducedHeight>>
  /\ UNCHANGED <<blocks, run, work, tableVars, dropped, kills>>

(* The items are queued in height order; after the last one the producer   *)
(* remembers its height, which nobody else reads.                          *)
Push(h) ==
  /\ producer = "push"
  /\ h \in batch
  /\ \A g \in batch : h <= g
  /\ Len(workQueue) < QueueSize
  /\ workQueue' = Append(workQueue, h)
  /\ batch' = batch \ {h}
  /\ \/ batch = {h} /\ producer' = "idle" /\ lastProducedHeight' = h
     \/ batch # {h} /\ UNCHANGED <<producer, lastProducedHeight>>
  /\ UNCHANGED <<blocks, run, work, tableVars, dropped, kills>>
-----------------------------------------------------------------------------
Pop ==
  /\ run = "on"
  /\ work = 0
  /\ workQueue # <<>>
  /\ work' = Head(workQueue)
  /\ workQueue' = Tail(workQueue)
  /\ UNCHANGED <<blocks, run, lastProducedHeight, producer, batch, tableVars,
                 dropped, kills>>

(* The sequences CollectInternalTxs gives to the calls of height h.        *)
newSeqs(h) == seqInfo + 1 .. seqInfo + Calls[h]

(* CollectInternalTxs commits.  The rows are inserted with DoNothing: if   *)
(* the height (with its hashes and indices) has rows already they stay,    *)
(* while the edges, whose key holds the new sequence, and the counter are  *)
(* written all the same.                                                   *)
ConsumeCommit ==
  /\ work # 0
  /\ rows' = IF work \in indexed THEN rows
             ELSE rows \union {[height |-> work, sequence |-> s] : s \in newSeqs(work)}
  /\ edges' = edges \union newSeqs(work)
  /\ seqInfo' = seqInfo + Calls[work]
  /\ work' = 0
  /\ UNCHANGED <<blocks, run, lastProducedHeight, producer, batch, workQueue,
                 dropped, kills>>

(* Any error, 40001 included, rolls the transaction back, and the consumer *)
(* goes on with the next item.                                             *)
ConsumeFail ==
  /\ work # 0
  /\ dropped' = dropped \union {work}
  /\ work' = 0
  /\ UNCHANGED <<blocks, run, lastProducedHeight, producer, batch, workQueue,
                 tableVars, kills>>
-----------------------------------------------------------------------------
Init ==
  /\ blocks = 0
  /\ run = "off"
  /\ lastProducedHeight = 0
  /\ producer = "idle"
  /\ batch = {}
  /\ workQueue = <<>>
  /\ work = 0
  /\ rows = {}
  /\ edges = {}
  /\ seqInfo = 0
  /\ dropped = {}
  /\ kills = 0

Producer ==
  \/ ProduceStart
  \/ ScrapeDone
  \/ ScrapeFail
  \/ \E h \in batch : Push(h)

Consumer ==
  \/ Pop
  \/ ConsumeCommit
  \/ ConsumeFail

Next ==
  \/ BlockCommit
  \/ Start
  \/ StartSkipped
  \/ Kill
  \/ Producer
  \/ Consumer

Spec == Init /\ [][Next]_vars
-----------------------------------------------------------------------------
Heights == 1 .. MaxHeight

(* Type invariant.                                                         *)
TypeOK ==
  /\ blocks \in Nat
  /\ run \in {"off", "on", "skipped"}
  /\ lastProducedHeight \in Nat
  /\ producer \in {"idle", "scrape", "push"}
  /\ batch \in SUBSET Heights
  /\ workQueue \in Seq(Heights)
  /\ work \in 0 .. MaxHeight
  /\ rows \in SUBSET [height : Heights, sequence : Nat]
  /\ edges \in SUBSET Nat
  /\ seqInfo \in Nat
  /\ dropped \in SUBSET Heights
  /\ kills \in Nat

(* Push never waits: a batch never exceeds the free space of the queue,    *)
(* which only the producer fills (getBatchHeights, workQueue.Push).        *)
PushHasRoom == Len(workQueue) + Cardinality(batch) <= QueueSize

(* The rows are numbered in chain order and without a gap, and every edge  *)
(* has its row: no height is written twice, whatever kills, restarts,      *)
(* failed batches and rolled back transactions do (CollectInternalTxs      *)
(* would otherwise leave edges without rows).                              *)
NumberedInOrder ==
  /\ {r.sequence : r \in rows} = 1 .. seqInfo
  /\ edges = 1 .. seqInfo
  /\ \A r, s \in rows : r.height < s.height => r.sequence < s.sequence
  /\ \A r, s \in rows : r.sequence = s.sequence => r = s

(* Every block up to the last produced height is indexed, on its way, has  *)
(* no calls, or was dropped by the consumer.                               *)
Accounted(h) ==
  \/ h \in indexed
  \/ Calls[h] = 0
  \/ h \in dropped
  \/ h = work
  \/ \E k \in 1 .. Len(workQueue) : workQueue[k] = h
NothingSkipped ==
  \A h \in TxHeights : h <= lastProducedHeight => Accounted(h)

(* internaltx/README.md:5, "to capture all internal calls": a height below *)
(* an indexed one is indexed, if its trace has calls.                      *)
CapturesAll ==
  \A r \in rows : \A h \in TxHeights :
    h < r.height /\ Calls[h] > 0 => h \in indexed
-----------------------------------------------------------------------------
(***************************************************************************)
(* The conjuncts that make the invariants inductive.  From the table over  *)
(* the consumer and the queue to the batch, heights only grow.             *)
(***************************************************************************)
Beyond(h) ==
  /\ work # 0 => work < h
  /\ \A k \in 1 .. Len(workQueue) : workQueue[k] < h
  /\ \A r \in rows : r.height < h

FlowInOrder ==
  /\ work # 0 => \A r \in rows : r.height < work
  /\ \A k \in 1 .. Len(workQueue) :
       /\ work # 0 => work < workQueue[k]
       /\ \A r \in rows : r.height < workQueue[k]
       /\ \A j \in 1 .. k - 1 : workQueue[j] < workQueue[k]
  /\ \A h \in batch : Beyond(h) /\ h > lastProducedHeight /\ h \in TxHeights
  /\ run = "on" /\ producer # "push" => Beyond(lastProducedHeight + 1)

(* Nothing below a height under way is missing, and nothing below an       *)
(* indexed one is under way.                                               *)
Covered(x) == \A h \in TxHeights : h < x => Accounted(h) \/ h \in batch

Cover ==
  /\ work # 0 => Covered(work)
  /\ \A k \in 1 .. Len(workQueue) : Covered(workQueue[k])
  /\ \A b \in batch : Covered(b)
  /\ \A r \in rows : \A h \in TxHeights :
       h < r.height => h \in indexed \/ Calls[h] = 0 \/ h \in dropped

HasLastItx == indexed = {} \/ \E m \in indexed : \A g \in indexed : g <= m

Running ==
  /\ IsFiniteSet(batch)
  /\ run # "on" => producer = "idle" /\ workQueue = <<>> /\ work = 0
  /\ producer = "idle" => batch = {}
  /\ producer # "idle" => batch # {}
-----------------------------------------------------------------------------
(* Fairness: the goroutines run, the process is started again, a batch     *)
(* that is tried for ever is traced in the end and a trace is committed    *)
(* in the end; the chain grows.                                            *)
Fairness ==
  /\ WF_vars(BlockCommit)
  /\ WF_vars(Start)
  /\ WF_vars(ProduceStart)
  /\ SF_vars(ScrapeDone)
  /\ WF_vars(\E h \in batch : Push(h))
  /\ WF_vars(Pop)
  /\ WF_vars(ConsumeCommit \/ ConsumeFail)

FairSpec == Spec /\ Fairness

(* Every height is indexed in the end, through full queues, failed batches *)
(* and restarts, if its trace has calls and no transaction of it failed,   *)
(* unless the check of the node has switched the extension off for good    *)
(* (runProducer, runConsumer).                                             *)
AllIndexed ==
  \/ <>[](run = "skipped")
  \/ \A h \in TxHeights : Calls[h] > 0 => <>(h \in indexed \cup dropped)
=============================================================================
