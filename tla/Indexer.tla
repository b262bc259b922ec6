------------------------------ MODULE Indexer ------------------------------
(***************************************************************************)
(* indexer/indexer.go and indexer/collector: the whole indexing pipeline.  *)
(*                                                                         *)
(*   scraper --blockChan--> prepare --blockMap--> collect --> database     *)
(*      ^                                            |                     *)
(*      +----------------controlChan-----------------+                     *)
(*                                                                         *)
(* prepare starts one goroutine per received block, which has the tx and   *)
(* nft submodules fetch what they need into their caches and then puts the *)
(* block into blockMap.  collect takes the blocks in height order and      *)
(* writes each in one database transaction.  The process may die at any    *)
(* step and is started again from what the database holds.                 *)
(***************************************************************************)
EXTENDS Scraper, StartHeight

CONSTANTS
  PrepIds,               \* bound: identities of concurrent prepare goroutines
  MaxInflightBlocks,     \* collect pauses the scraper above this many blocks
  MinInflightBlocks,     \* ... and starts it again below this many
  MinChainHeightToStart, \* the height wait() waits for
  StartSet, StartVal,    \* the START_HEIGHT setting
  SerializationErrors,   \* whether the database may answer 40001
  OtherIndexer,          \* whether a second indexer shares the database
  MaxCrashes             \* bound: how often the process is killed

ASSUME IndexerAssumption ==
  /\ MaxInflightBlocks \in Nat
  /\ MinInflightBlocks \in Nat
  /\ MinChainHeightToStart \in Nat
  /\ StartSet \in BOOLEAN
  /\ StartVal \in Nat
  /\ SerializationErrors \in BOOLEAN
  /\ OtherIndexer \in BOOLEAN
  /\ MaxCrashes \in Nat

(* The submodules that prepare data, in the order in which they collect.   *)
Submodules == {"tx", "nft"}

VARIABLES
  height,       \* i.height: the height collect waits for
  prep,         \* prepare goroutine -> its height, 0 when there is none
  prepDone,     \* prepare goroutine -> submodules that have prepared
  prepareCount, \* i.prepareCount
  blockMap,     \* heights in i.blockMap
  cache,        \* submodule -> heights in its cache of prepared data
  paused,       \* i.paused
  coll,         \* where collect() is; at "signal" it holds the mutex
  db,           \* heights of the committed block rows
  crashes       \* number of kills so far

pipelineVars == <<height, prep, prepDone, prepareCount, blockMap, cache,
                  paused, coll>>
storeVars    == <<db, crashes>>
vars         == <<chainVars, scraperVars, pipelineVars, storeVars>>

active == {p \in PrepIds : prep[p] # 0}

PipelineReset(h) ==
  /\ height' = h
  /\ prep' = [p \in PrepIds |-> 0]
  /\ prepDone' = [p \in PrepIds |-> {}]
  /\ prepareCount' = 0
  /\ blockMap' = {}
  /\ cache' = [s \in Submodules |-> {}]
  /\ paused' = FALSE
  /\ coll' = "poll"
-----------------------------------------------------------------------------
(* The height of the last block row; Go's zero value when there is none.   *)
lastBlock == IF db = {} THEN 0 ELSE CHOOSE h \in db : \A g \in db : g <= h

(* The process starts: wait() until the chain is high enough, read the     *)
(* last block, ask a node for the latest height and start the goroutines.  *)
Start ==
  /\ pc = "off"
  /\ \E n \in Nodes : nodeHead[n] > MinChainHeightToStart
  /\ \E n \in Nodes :
       LET h == computeStartHeight(lastBlock + 1, nodeHead[n],
                                   StartSet, StartVal)
       IN  ScraperReset("check", h) /\ PipelineReset(h)
  /\ UNCHANGED <<chainVars, storeVars>>

(* What is left of the process when it dies.                               *)
Dead ==
  /\ ScraperReset("off", 1)
  /\ PipelineReset(1)
  /\ UNCHANGED <<chainVars, db>>

(* A panic of prepare, a shutdown or a kill.                               *)
Crash ==
  /\ pc # "off"
  /\ crashes < MaxCrashes
  /\ crashes' = crashes + 1
  /\ Dead
-----------------------------------------------------------------------------
(* Bug: the block collect waits for is dropped too.                        *)
PrepareRecvDropsHeight(p) ==
  /\ blockChan # <<>>
  /\ blockChan' = Tail(blockChan)
  /\ \/ /\ Head(blockChan) <= height
        /\ UNCHANGED <<prep, prepDone, prepareCount>>
     \/ /\ Head(blockChan) > height
        /\ coll # "signal"
        /\ p \notin active
        /\ prepareCount' = prepareCount + 1
        /\ prep' = [prep EXCEPT ![p] = Head(blockChan)]
        /\ prepDone' = [prepDone EXCEPT ![p] = {}]
  /\ UNCHANGED <<chainVars, pc, status, ctl, from, next, synced, fetching,
                 sending, batch, controlChan, sent, gaveUp, height, blockMap,
                 cache, paused, coll, storeVars>>

(* prepare() receives a block, drops it if it is below the height that     *)
(* collect has reached, and otherwise counts and starts a goroutine for    *)
(* it.  The height is read without the mutex; the count needs it.          *)
PrepareRecv(p) ==
  /\ blockChan # <<>>
  /\ blockChan' = Tail(blockChan)
  /\ \/ /\ Head(blockChan) < height
        /\ UNCHANGED <<prep, prepDone, prepareCount>>
     \/ /\ Head(blockChan) >= height
        /\ coll # "signal"
        /\ p \notin active
        /\ prepareCount' = prepareCount + 1
        /\ prep' = [prep EXCEPT ![p] = Head(blockChan)]
        /\ prepDone' = [prepDone EXCEPT ![p] = {}]
  /\ UNCHANGED <<chainVars, pc, status, ctl, from, next, synced, fetching,
                 sending, batch, controlChan, sent, gaveUp, height, blockMap,
                 cache, paused, coll, storeVars>>

(* A submodule has queried its data and stores it in its cache.            *)
SubPrepared(p, s) ==
  /\ p \in active
  /\ s \notin prepDone[p]
  /\ cache' = [cache EXCEPT ![s] = @ \union {prep[p]}]
  /\ prepDone' = [prepDone EXCEPT ![p] = @ \union {s}]
  /\ UNCHANGED <<chainVars, scraperVars, height, prep, prepareCount, blockMap,
                 paused, coll, storeVars>>

(* A submodule times out: the goroutine prepares the whole block again,    *)
(* what the other submodule cached stays.                                  *)
PrepRetry(p) ==
  /\ p \in active
  /\ prepDone[p] # Submodules
  /\ prepDone' = [prepDone EXCEPT ![p] = {}]
  /\ UNCHANGED <<chainVars, scraperVars, height, prep, prepareCount, blockMap,
                 cache, paused, coll, storeVars>>

(* Bugs: the goroutine counts itself down twice, or does not wait for all  *)
(* submodules.                                                             *)
PrepFinishTwice(p) ==
  /\ p \in active
  /\ prepDone[p] = Submodules
  /\ coll # "signal"
  /\ blockMap' = blockMap \union {prep[p]}
  /\ prepareCount' = prepareCount - 2
  /\ prep' = [prep EXCEPT ![p] = 0]
  /\ prepDone' = [prepDone EXCEPT ![p] = {}]
  /\ UNCHANGED <<chainVars, scraperVars, height, cache, paused, coll,
                 storeVars>>

PrepFinishEarly(p) ==
  /\ p \in active
  /\ prepDone[p] # {}
  /\ coll # "signal"
  /\ blockMap' = blockMap \union {prep[p]}
  /\ prepareCount' = prepareCount - 1
  /\ prep' = [prep EXCEPT ![p] = 0]
  /\ prepDone' = [prepDone EXCEPT ![p] = {}]
  /\ UNCHANGED <<chainVars, scraperVars, height, cache, paused, coll,
                 storeVars>>

(* Under the mutex the prepared block goes to blockMap.                    *)
PrepFinish(p) ==
  /\ p \in active
  /\ prepDone[p] = Submodules
  /\ coll # "signal"
  /\ blockMap' = blockMap \union {prep[p]}
  /\ prepareCount' = prepareCount - 1
  /\ prep' = [prep EXCEPT ![p] = 0]
  /\ prepDone' = [prepDone EXCEPT ![p] = {}]
  /\ UNCHANGED <<chainVars, scraperVars, height, cache, paused, coll,
                 storeVars>>
-----------------------------------------------------------------------------
inflightCount == Cardinality(blockMap) + prepareCount

(* Bug: the flag is tested the wrong way round.                            *)
needStartInverted == inflightCount < MinInflightBlocks /\ ~paused

needPause == inflightCount > MaxInflightBlocks /\ ~paused
needStart == inflightCount < MinInflightBlocks /\ paused

(* collect() takes the block of its height out of blockMap, if it is there. *)
TakeBlock ==
  /\ blockMap' = blockMap \ {height}
  /\ coll' = IF height \in blockMap THEN "collect" ELSE "poll"

(* One round of collect() up to the unlock, when it has nothing to signal. *)
CollectPoll ==
  /\ pc # "off"
  /\ coll = "poll"
  /\ ~needPause /\ ~needStart
  /\ TakeBlock
  /\ UNCHANGED <<chainVars, scraperVars, height, prep, prepDone, prepareCount,
                 cache, paused, storeVars>>

(* With a signal to send it holds the mutex until the channel has room.    *)
CollectLock ==
  /\ pc # "off"
  /\ coll = "poll"
  /\ needPause \/ needStart
  /\ coll' = "signal"
  /\ UNCHANGED <<chainVars, scraperVars, height, prep, prepDone, prepareCount,
                 blockMap, cache, paused, storeVars>>

(* Bug: a signal is dropped when the channel is full.                      *)
CollectSignalDrops ==
  /\ coll = "signal"
  /\ controlChan' = IF controlChan = <<>>
                    THEN <<IF needPause THEN "pause" ELSE "start">>
                    ELSE controlChan
  /\ paused' = needPause
  /\ TakeBlock
  /\ UNCHANGED <<chainVars, pc, status, ctl, from, next, synced, fetching,
                 sending, batch, blockChan, sent, gaveUp, height, prep,
                 prepDone, prepareCount, cache, storeVars>>

CollectSignal ==
  /\ coll = "signal"
  /\ controlChan = <<>>
  /\ controlChan' = <<IF needPause THEN "pause" ELSE "start">>
  /\ paused' = needPause
  /\ TakeBlock
  /\ UNCHANGED <<chainVars, pc, status, ctl, from, next, synced, fetching,
                 sending, batch, blockChan, sent, gaveUp, height, prep,
                 prepDone, prepareCount, cache, storeVars>>
-----------------------------------------------------------------------------
(* Bugs: START_HEIGHT itself counts as below it, or switches the look at   *)
(* the previous row off altogether.                                        *)
LinkedOffByOne(h) ==
  \/ h <= 1
  \/ StartSet /\ h - 1 <= StartVal
  \/ h - 1 \in db

LinkedUnchecked(h) ==
  \/ h <= 1
  \/ StartSet
  \/ h - 1 \in db

(* Whether the block submodule accepts height h: the previous row exists,  *)
(* or the block is the first, or lies at or below START_HEIGHT.            *)
Linked(h) ==
  \/ h <= 1
  \/ StartSet /\ h - 1 < StartVal
  \/ h - 1 \in db

Prepared(h) == \A s \in Submodules : h \in cache[s]

(* Collect finds the row, returns at once and leaves the caches alone.     *)
CollectSkip ==
  /\ coll = "collect"
  /\ height \in db
  /\ coll' = "advance"
  /\ UNCHANGED <<chainVars, scraperVars, height, prep, prepDone, prepareCount,
                 blockMap, cache, paused, storeVars>>

(* The submodules take their data out of their caches and write; commit.   *)
CollectCommit ==
  /\ coll = "collect"
  /\ height \notin db
  /\ Linked(height)
  /\ Prepared(height)
  /\ db' = db \union {height}
  /\ cache' = [s \in Submodules |-> cache[s] \ {height}]
  /\ coll' = "advance"
  /\ UNCHANGED <<chainVars, scraperVars, height, prep, prepDone, prepareCount,
                 blockMap, paused, crashes>>

(* The database answers 40001.  The transaction is rolled back, the caches *)
(* already read (those of the submodules ss) stay read, and Collect says   *)
(* that the block is already indexed.                                      *)
CollectSerialization(ss) ==
  /\ SerializationErrors
  /\ coll = "collect"
  /\ ss # {} => height \notin db /\ Linked(height)
  /\ \A s \in ss : height \in cache[s]
  /\ cache' = [s \in Submodules |->
                 IF s \in ss THEN cache[s] \ {height} ELSE cache[s]]
  /\ coll' = "advance"
  /\ UNCHANGED <<chainVars, scraperVars, height, prep, prepDone, prepareCount,
                 blockMap, paused, storeVars>>

(* The previous row or the prepared data is missing: Collect fails and     *)
(* collect() panics.                                                       *)
CollectFail ==
  /\ coll = "collect"
  /\ height \notin db
  /\ ~(Linked(height) /\ Prepared(height))
  /\ Dead
  /\ UNCHANGED crashes

(* i.height++, outside the mutex.                                          *)
CollectAdvance ==
  /\ coll = "advance"
  /\ height' = height + 1
  /\ coll' = "poll"
  /\ UNCHANGED <<chainVars, scraperVars, prep, prepDone, prepareCount,
                 blockMap, cache, paused, storeVars>>

(* Another indexer with the same settings commits a block.                 *)
OtherCommit(h) ==
  /\ OtherIndexer
  /\ h \notin db
  /\ Available(h)
  /\ Linked(h)
  /\ db' = db \union {h}
  /\ UNCHANGED <<chainVars, scraperVars, pipelineVars, crashes>>
-----------------------------------------------------------------------------
ChainStep   == \E n \in Nodes : NodeAdvance(n) /\ UNCHANGED <<pipelineVars, storeVars>>
ScraperStep == pc # "off" /\ ScraperNext /\ UNCHANGED <<pipelineVars, storeVars>>

PrepareStep ==
  \E p \in PrepIds :
    \/ PrepareRecv(p)
    \/ \E s \in Submodules : SubPrepared(p, s)
    \/ PrepRetry(p)
    \/ PrepFinish(p)

CollectStep ==
  \/ CollectPoll
  \/ CollectLock
  \/ CollectSignal
  \/ CollectSkip
  \/ CollectCommit
  \/ \E ss \in {{}, {"tx"}, Submodules} : CollectSerialization(ss)
  \/ CollectFail
  \/ CollectAdvance

Init ==
  /\ nodeHead = [n \in Nodes |-> 0]
  /\ pc = "off"
  /\ status = "running"
  /\ ctl = "idle"
  /\ from = 1
  /\ next = 1
  /\ synced = 0
  /\ fetching = {}
  /\ sending = {}
  /\ batch = NewBatch
  /\ blockChan = <<>>
  /\ controlChan = <<>>
  /\ sent = {}
  /\ gaveUp = {}
  /\ height = 1
  /\ prep = [p \in PrepIds |-> 0]
  /\ prepDone = [p \in PrepIds |-> {}]
  /\ prepareCount = 0
  /\ blockMap = {}
  /\ cache = [s \in Submodules |-> {}]
  /\ paused = FALSE
  /\ coll = "poll"
  /\ db = {}
  /\ crashes = 0

Next ==
  \/ ChainStep
  \/ Start
  \/ Crash
  \/ ScraperStep
  \/ PrepareStep
  \/ CollectStep
  \/ \E h \in 1 .. MaxHeight : OtherCommit(h)

Spec == Init /\ [][Next]_vars
-----------------------------------------------------------------------------
(* Type invariant.                                                         *)
TypeOK ==
  /\ nodeHead \in [Nodes -> Nat]
  /\ pc \in {"off", "check", "acquire", "wait", "slow"}
  /\ status \in {"running", "paused", "stopped"}
  /\ ctl \in {"idle", "pause", "start"}
  /\ from \in Nat \ {0}
  /\ next \in Nat \ {0}
  /\ synced \in Nat
  /\ fetching \in SUBSET (Nat \ {0})
  /\ sending \in SUBSET (Nat \ {0})
  /\ batch \in [Offsets -> {"fetch", "send", "ok", "err"}]
  /\ blockChan \in Seq(Nat \ {0})
  /\ controlChan \in Seq({"pause", "start"})
  /\ sent \in SUBSET (Nat \ {0})
  /\ gaveUp \in SUBSET (Nat \ {0})
  /\ height \in Nat \ {0}
  /\ prep \in [PrepIds -> Nat]
  /\ prepDone \in [PrepIds -> SUBSET Submodules]
  /\ prepareCount \in Nat
  /\ blockMap \in SUBSET (Nat \ {0})
  /\ cache \in [Submodules -> SUBSET (Nat \ {0})]
  /\ paused \in BOOLEAN
  /\ coll \in {"poll", "signal", "collect", "advance"}
  /\ db \in SUBSET (Nat \ {0})
  /\ crashes \in Nat

(* The first height that must have its predecessor in the database is the  *)
(* one after Floor.                                                        *)
Floor == IF StartSet THEN MaxOf(StartVal, 1) ELSE 1

(* The rows from Floor on have no hole, whatever crashes, restarts, 40001  *)
(* answers (after which collect() moves on without the row) and a second   *)
(* indexer do: Collector.Collect, BlockSubmodule.collect, Indexer.Run.     *)
NoHoles == \A x \in db : \A y \in Floor .. x : y \in db

(* Collect never meets the two states in which collect() would panic:      *)
(* "data is not prepared" (a submodule's cache lacks the height), and,     *)
(* unless the database answered 40001 before, a missing previous block.    *)
CollectReady ==
  coll = "collect" =>
    /\ Prepared(height)
    /\ SerializationErrors \/ height \in db \/ Linked(height)

(* Where a height that was sent on blockChan can be.                       *)
InPipeline(h) ==
  \/ h < height
  \/ \E k \in 1 .. Len(blockChan) : blockChan[k] = h
  \/ \E p \in PrepIds : prep[p] = h
  \/ h \in blockMap
  \/ h = height /\ coll \in {"collect", "advance"}

(* Nothing is dropped between the scraper's goroutines, blockChan, the     *)
(* prepare goroutines, blockMap and collect(): every height the scraper    *)
(* has passed is collected, in one of these places, or was given up by a   *)
(* fastSync goroutine that met the end of a node's chain.                  *)
NoBlockLost ==
  pc # "off" =>
    \A h \in from .. next - 1 : InPipeline(h) \/ h \in busy \/ h \in gaveUp

(* slowSync never moves past a height it has not sent, although the        *)
(* results of a batch arrive in any order and any of them may have failed. *)
SlowSyncNoSkip == pc = "slow" => \A h \in synced + 1 .. next - 1 : h \in sent

(* The status once the control goroutine has handled what is under way.    *)
Stored == CASE ctl = "pause" -> "paused" [] ctl = "start" -> "running"
            [] OTHER -> status
Settled ==
  CASE controlChan = <<"pause">> /\ Stored = "running" -> "paused"
    [] controlChan = <<"start">> /\ Stored = "paused"  -> "running"
    [] OTHER -> Stored

(* collect()'s paused flag and the status fastSync polls agree once the    *)
(* signals under way are handled, unless fastSync has stopped: no signal   *)
(* is lost or applied twice, so a paused scraper is always started again.  *)
SignalAgreement == Settled \in {"stopped", IF paused THEN "paused" ELSE "running"}

(* scraper.go:48, "fast syncing until fully synced": when slowSync takes   *)
(* over, fastSync has delivered every height below the one it starts at.   *)
FastSyncComplete == pc = "slow" => \A h \in from .. synced : h \in sent
-----------------------------------------------------------------------------
(***************************************************************************)
(* The conjuncts that make the invariants above inductive.                 *)
(***************************************************************************)
ScraperBounds ==
  /\ from <= height
  /\ from <= synced + 1
  /\ synced < next
  /\ \A h \in busy : h < next
  /\ pc = "slow" => busy = {}

(* A height of the current batch that is "ok" has been sent.               *)
BatchSent ==
  pc = "slow" =>
    \A i \in Offsets : batch[i] = "ok" => next + i \in sent /\ InPipeline(next + i)

CountExact == IsFiniteSet(active) /\ prepareCount = Cardinality(active)

SignalHeld ==
  /\ controlChan \in {<<>>, <<"pause">>, <<"start">>}
  /\ coll = "signal" => needPause \/ needStart

(* Whether collect() still has to collect height h.                        *)
Uncollected(h) == h > height \/ (h = height /\ coll # "advance")

(* What blockMap and the prepare goroutines hold for a height yet to be    *)
(* collected is still in the caches: a rescraped duplicate of it never     *)
(* takes the data away.                                                    *)
CacheHeld ==
  /\ \A h \in blockMap : Uncollected(h) => Prepared(h)
  /\ \A p \in PrepIds : \A s \in prepDone[p] :
       prep[p] # 0 /\ Uncollected(prep[p]) => prep[p] \in cache[s]
  /\ coll = "collect" => Prepared(height)

HeightLinked ==
  \/ SerializationErrors
  \/ height \in db
  \/ coll # "advance" /\ Linked(height)

HasLast == db = {} \/ \E m \in db : \A x \in db : x <= m
-----------------------------------------------------------------------------
(***************************************************************************)
(* Fairness.  Every goroutine that can step goes on to step (weak).  Of    *)
(* the environment: the chain grows, a request that is repeated for ever   *)
(* succeeds some time, and so does an attempt to prepare (strong).         *)
(***************************************************************************)
InScraper(A) == A /\ UNCHANGED <<pipelineVars, storeVars>>

PrepareComplete(p) ==
  \E s \in Submodules : SubPrepared(p, s) /\ prepDone'[p] = Submodules

Fairness ==
  /\ WF_vars(ChainStep)
  /\ WF_vars(Start)
  /\ WF_vars(InScraper(CtlLoad \/ CtlStore))
  /\ WF_vars(InScraper(FastPoll \/ FastSpawn \/ FastReturn))
  /\ WF_vars(InScraper(\E h \in fetching : FastFetched(h) \/ FastReachedLatest(h)))
  /\ WF_vars(InScraper(\E h \in sending : FastSend(h)))
  /\ WF_vars(InScraper(SlowNext))
  /\ \A i \in Offsets : SF_vars(InScraper(SlowFetched(i)))
  /\ WF_vars(\E p \in PrepIds : PrepareRecv(p))
  /\ WF_vars(\E p \in PrepIds, s \in Submodules : SubPrepared(p, s))
  /\ \A p \in PrepIds : SF_vars(PrepareComplete(p))
  /\ WF_vars(\E p \in PrepIds : PrepFinish(p))
  /\ WF_vars(CollectStep)

FairSpec == Spec /\ Fairness

(* A height that fastSync gave up although a higher one was scraped:       *)
(* slowSync starts above it and nobody scrapes it until a restart.         *)
Lost(h) == h \in gaveUp /\ height <= h /\ h <= synced

(* The indexer keeps up with the chain: every height is committed in the   *)
(* end, through pauses, retries, timeouts and restarts, unless fastSync    *)
(* has lost one.                                                           *)
Progress ==
  []<>((\A h \in Floor .. MaxHeight : h \in db) \/ \E h \in gaveUp : Lost(h))
-----------------------------------------------------------------------------
(* The database as an append-only log of the chain.                        *)
Log == INSTANCE ChainLog WITH db <- db, StartSet <- StartSet, StartVal <- StartVal
LogSpec == Log!Spec
=============================================================================
