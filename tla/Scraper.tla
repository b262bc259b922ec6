------------------------------ MODULE Scraper ------------------------------
(***************************************************************************)
(* indexer/scraper: the producer end of the indexing pipeline.             *)
(*                                                                         *)
(* Scraper.Run first runs fastSync, which starts one goroutine per height  *)
(* (at most MaxConc at a time), and once a node reports that it does not   *)
(* have a height yet, slowSync, which scrapes batches of BatchScrapSize    *)
(* heights.  Every scraped block is sent on blockChan.  A third goroutine  *)
(* turns the collector's "pause" and "start" signals into the status that  *)
(* the fastSync loop polls.                                                *)
(*                                                                         *)
(* A block is represented by its height.  A request that fails for any     *)
(* reason other than a missing height is retried by a fastSync goroutine   *)
(* without changing state, so it is a stuttering step here; in slowSync it *)
(* is the result "err" of that height.                                     *)
(***************************************************************************)
EXTENDS Integers, Sequences, FiniteSets

CONSTANTS
  Nodes,          \* the RPC endpoints (RpcUrls); each has a height of its own
  MaxHeight,      \* bound: the last height the chain produces
  Horizon,        \* bound: the last height fastSync starts a goroutine for
  MaxConc,        \* capacity of the semaphore sem
  BatchScrapSize, \* heights per slowSync batch
  ChanCap         \* capacity of blockChan (types.MaxInflightBlocks)

ASSUME ScraperAssumption ==
  /\ Nodes # {}
  /\ MaxHeight \in Nat
  /\ Horizon \in Nat
  /\ MaxConc \in Nat \ {0}
  /\ BatchScrapSize \in Nat \ {0}
  /\ ChanCap \in Nat \ {0}

VARIABLES
  nodeHead,    \* node -> latest height whose block and results it serves
  pc,          \* where Scraper.Run is
  status,      \* the atomic status word of fastSync
  ctl,         \* the store the control goroutine is about to make, or "idle"
  from,        \* the height Scraper.Run was called with
  next,        \* height: the next height to start, or the base of the batch
  synced,      \* syncedHeight
  fetching,    \* heights whose fastSync goroutine is in scrapeBlock
  sending,     \* heights whose fastSync goroutine is sending on blockChan
  batch,       \* offset -> progress of the slowSync goroutine of that offset
  blockChan,   \* scraper -> prepare
  controlChan, \* collect -> scraper
  sent,        \* history: heights sent on blockChan since Run began
  gaveUp       \* history: heights a fastSync goroutine returned without

chainVars   == <<nodeHead>>
scraperVars == <<pc, status, ctl, from, next, synced, fetching, sending, batch,
                 blockChan, controlChan, sent, gaveUp>>

Offsets  == 0 .. BatchScrapSize - 1
NewBatch == [i \in Offsets |-> "fetch"]

busy == fetching \union sending

(* The state of a scraper that has just been given height h, or, with      *)
(* p = "off", that of a process that is not running.                       *)
ScraperReset(p, h) ==
  /\ pc' = p
  /\ status' = "running"
  /\ ctl' = "idle"
  /\ from' = h
  /\ next' = h
  /\ synced' = h - 1
  /\ fetching' = {}
  /\ sending' = {}
  /\ batch' = NewBatch
  /\ blockChan' = <<>>
  /\ controlChan' = <<>>
  /\ sent' = {}
  /\ gaveUp' = {}
-----------------------------------------------------------------------------
(* The chain: a node commits its next block.                               *)
NodeAdvance(n) ==
  /\ nodeHead[n] < MaxHeight
  /\ nodeHead' = [nodeHead EXCEPT ![n] = @ + 1]
  /\ UNCHANGED scraperVars

(* scrapeBlock asks the endpoints in turn and stops at the first one that  *)
(* answers, with the block or with an error about its current height;      *)
(* endpoints that fail otherwise are skipped, so any node may be the one.  *)
Available(h) == \E n \in Nodes : nodeHead[n] >= h
reachedLatestHeight(h) == \E n \in Nodes : nodeHead[n] < h
-----------------------------------------------------------------------------
(* The control goroutine reads a signal and the status ...                 *)
CtlLoad ==
  /\ ctl = "idle"
  /\ controlChan # <<>>
  /\ controlChan' = Tail(controlChan)
  /\ ctl' = CASE Head(controlChan) = "pause" /\ status = "running" -> "pause"
              [] Head(controlChan) = "start" /\ status = "paused"  -> "start"
              [] OTHER -> "idle"
  /\ UNCHANGED <<chainVars, pc, status, from, next, synced, fetching, sending,
                 batch, blockChan, sent, gaveUp>>

(* ... and stores the new status, whatever has been stored meanwhile.      *)
CtlStore ==
  /\ ctl # "idle"
  /\ status' = IF ctl = "pause" THEN "paused" ELSE "running"
  /\ ctl' = "idle"
  /\ UNCHANGED <<chainVars, pc, from, next, synced, fetching, sending, batch,
                 blockChan, controlChan, sent, gaveUp>>
-----------------------------------------------------------------------------
(* The fastSync loop polls the status; while paused it sleeps and polls    *)
(* again, which changes nothing.                                           *)
FastPoll ==
  /\ pc = "check"
  /\ \/ status = "stopped" /\ pc' = "wait"
     \/ status = "running" /\ next <= Horizon /\ pc' = "acquire"
  /\ UNCHANGED <<chainVars, status, ctl, from, next, synced, fetching, sending,
                 batch, blockChan, controlChan, sent, gaveUp>>

(* It acquires a slot of the semaphore and starts the goroutine of the     *)
(* next height.                                                            *)
FastSpawn ==
  /\ pc = "acquire"
  /\ Cardinality(busy) < MaxConc
  /\ fetching' = fetching \union {next}
  /\ next' = next + 1
  /\ pc' = "check"
  /\ UNCHANGED <<chainVars, status, ctl, from, synced, sending, batch,
                 blockChan, controlChan, sent, gaveUp>>

FastFetched(h) ==
  /\ h \in fetching
  /\ Available(h)
  /\ fetching' = fetching \ {h}
  /\ sending' = sending \union {h}
  /\ UNCHANGED <<chainVars, pc, status, ctl, from, next, synced, batch,
                 blockChan, controlChan, sent, gaveUp>>

(* A goroutine that is told its height does not exist yet stops fast       *)
(* syncing and returns.                                                    *)
FastReachedLatest(h) ==
  /\ h \in fetching
  /\ reachedLatestHeight(h)
  /\ status' = "stopped"
  /\ fetching' = fetching \ {h}
  /\ gaveUp' = gaveUp \union {h}
  /\ UNCHANGED <<chainVars, pc, ctl, from, next, synced, sending, batch,
                 blockChan, controlChan, sent>>

(* The send and the update of syncedHeight are one step: syncedHeight is   *)
(* read only after every goroutine has returned.                           *)
FastSend(h) ==
  /\ h \in sending
  /\ Len(blockChan) < ChanCap
  /\ blockChan' = Append(blockChan, h)
  /\ sent' = sent \union {h}
  /\ synced' = IF h > synced THEN h ELSE synced
  /\ sending' = sending \ {h}
  /\ UNCHANGED <<chainVars, pc, status, ctl, from, next, fetching, batch,
                 controlChan, gaveUp>>

(* wg.Wait, then Scraper.Run goes on with slowSync at syncedHeight + 1.    *)
FastReturn ==
  /\ pc = "wait"
  /\ busy = {}
  /\ pc' = "slow"
  /\ next' = synced + 1
  /\ batch' = NewBatch
  /\ UNCHANGED <<chainVars, status, ctl, from, synced, fetching, sending,
                 blockChan, controlChan, sent, gaveUp>>
-----------------------------------------------------------------------------
SlowFetched(i) ==
  /\ pc = "slow"
  /\ batch[i] = "fetch"
  /\ Available(next + i)
  /\ batch' = [batch EXCEPT ![i] = "send"]
  /\ UNCHANGED <<chainVars, pc, status, ctl, from, next, synced, fetching,
                 sending, blockChan, controlChan, sent, gaveUp>>

(* Any error: a missing height, a network or a parse error.                *)
SlowFailed(i) ==
  /\ pc = "slow"
  /\ batch[i] = "fetch"
  /\ batch' = [batch EXCEPT ![i] = "err"]
  /\ UNCHANGED <<chainVars, pc, status, ctl, from, next, synced, fetching,
                 sending, blockChan, controlChan, sent, gaveUp>>

SlowSend(i) ==
  /\ pc = "slow"
  /\ batch[i] = "send"
  /\ Len(blockChan) < ChanCap
  /\ blockChan' = Append(blockChan, next + i)
  /\ sent' = sent \union {next + i}
  /\ batch' = [batch EXCEPT ![i] = "ok"]
  /\ UNCHANGED <<chainVars, pc, status, ctl, from, next, synced, fetching,
                 sending, controlChan, gaveUp>>

(* Bug: without the break, the last failed height wins.                    *)
IsAdvanceToLast(d) ==
  /\ d \in 0 .. BatchScrapSize
  /\ \A i \in Offsets : i > d => batch[i] = "ok"
  /\ d < BatchScrapSize => batch[d] = "err"
  /\ d = BatchScrapSize => \A i \in Offsets : batch[i] = "ok"

(* How far a finished batch moves the base: to its first failed height, or *)
(* past the batch.                                                         *)
IsAdvance(d) ==
  /\ d \in 0 .. BatchScrapSize
  /\ \A i \in Offsets : i < d => batch[i] = "ok"
  /\ d < BatchScrapSize => batch[d] = "err"

(* g.Wait, the results in height order, and the next batch.                *)
SlowAdvance ==
  /\ pc = "slow"
  /\ \A i \in Offsets : batch[i] \in {"ok", "err"}
  /\ \E d \in 0 .. BatchScrapSize : IsAdvance(d) /\ next' = next + d
  /\ batch' = NewBatch
  /\ UNCHANGED <<chainVars, pc, status, ctl, from, synced, fetching, sending,
                 blockChan, controlChan, sent, gaveUp>>
-----------------------------------------------------------------------------
FastNext ==
  \/ FastPoll
  \/ FastSpawn
  \/ \E h \in fetching : FastFetched(h)
  \/ \E h \in fetching : FastReachedLatest(h)
  \/ \E h \in sending : FastSend(h)
  \/ FastReturn

SlowNext ==
  \/ \E i \in Offsets : SlowFetched(i)
  \/ \E i \in Offsets : SlowFailed(i)
  \/ \E i \in Offsets : SlowSend(i)
  \/ SlowAdvance

ScraperNext ==
  \/ CtlLoad
  \/ CtlStore
  \/ FastNext
  \/ SlowNext
=============================================================================
