# Rollytics: models, checks and proofs

Rollytics indexes an Initia rollup into a relational database. One process scrapes
blocks from the chain's nodes and writes them; *extensions* in the same process derive
more tables from the ones already written; an API process reads. This directory models
the parts with state and concurrency in TLA+, checks them with TLC on small instances and
proves the central properties with TLAPS for every value of the constants.

## 1. Inventory

| component (source) | state | operations | hard behaviour | what makes it correct |
|---|---|---|---|---|
| scraper (`indexer/scraper`) | next height, atomic status word, synced height, semaphore, batch results | `fastSync`, its goroutines and its control goroutine, `slowSync`, `scrapeBlock` | one goroutine per height; nodes of different heights; non-atomic load/store of the status; batches that fail in part | no height is passed over; a pause is always followed by a start |
| indexer pipeline (`indexer/indexer.go`) | `height`, `blockMap`, `prepareCount`, `paused`, two channels | `Run`, `wait`, `prepare`, `collect`, `computeStartHeight` | three goroutine families and a mutex; a blocking send under the mutex; kill and restart | each block is committed once, in order, without a hole; resume where the database ends |
| collector (`indexer/collector`) | the submodules' caches of prepared data; the rows | `Prepare`, `Collect` | all submodules in one transaction; serialization errors; a second indexer | prepared data is there when it is collected; all or nothing |
| tx submodule (`collector/tx`) | sequence counter, tx and edge tables | `collect`, `collectEvm`, address extraction | global sequence; ids from a shared dictionary | sequences are consecutive and unique |
| nft submodules (`collector/*-nft`, `nft-pair`) | collections, tokens, `nft_count`, ibc pairs | mint, transfer, burn, mutate | several of them for one token in one block | the tables are the fold of the events |
| dictionaries (`util/cache`) | process-wide LRU caches of ids; dictionary tables | `GetOrCreate*Ids` | cached inside a transaction that may roll back; conflicts | an id in the cache is the id of that key's row |
| extension manager (`indexer/extension`) | - | `Run` | an error of one stops all | - |
| internal tx (`extension/internaltx`) | last produced height, work queue, table | producer, consumer | bounded queue, failures dropped, restart from the table | heights are indexed in order and none twice |
| rich list (`extension/richlist`) | balances, processed height | init, per-block deltas, requery | deltas against a moving chain; requeries at a height; restarts | balances are those of the processed height |
| cleanups (`extension/evmret`, `extension/txaccountcleanup`) | status row, `tx_accounts` | batches | batch and status are separate commits; both write one table | idempotent, complete |
| querier (`util/querier`) | endpoint health, rotation index | requests with retry and failover | concurrent failures and recoveries | some endpoint is always tried; a healthy one first |
| patcher (`patcher`) | upgrade history | ordered one-time patches | several indexers start together; failure between patches | each once, in order |
| status (`util/common-handler/status`) | cached heights | `GetStatus` | four statements and a compare-and-swap among racing requests | monotone; claims nothing that is not indexed |
| pagination and list endpoints (`util/common-handler/common`, `api/handler`) | keys the client brings back | count, page, next key | a table that changes while it is paged | every row once, in order |
| name cache (`api/handler/nft/cache.go`) | list of collections, height and time of its update, flag | search, update by a request | updates by racing requests | no collection twice, none missing |
| metrics, config, orm, cmd | - | counters, wiring | - | stateless, external or generated: not modelled |

The components meet in the database (the collector's rows are the extensions' input), in
the two channels of the pipeline and in the process-wide caches.
`PROJECT.json` lists every component with its status and every hazard at its line.

## 2. Modules

| module | models | built on |
|---|---|---|
| `StartHeight` | `computeStartHeight`, as an operator | |
| `Scraper` | `Scraper.Run`: fastSync, its control goroutine, slowSync | |
| `Indexer` | the whole pipeline: the scraper composed with prepare, collect, the collector's transaction, kills and restarts; all properties | `Scraper`, `StartHeight` |
| `ChainLog` | what the pipeline promises its readers: an append-only log of block rows | |
| `MCIndexer` | the TLC instance (symmetry of the prepare goroutines) | `Indexer` |
| `IndexerProofs` | the theorems about the pipeline | `Indexer`, TLAPS |
| `InternalTx` | the internal transaction extension: producer, queue, consumer, tables, restarts | |
| `InternalTxProofs` | the theorems about it | `InternalTx`, TLAPS |
| `CallTrace` | `processInternalCall`: the flattening of nested calls, as recursive operators | |
| `Cleanup` | evmret and txaccountcleanup over one `tx_accounts` table, with the collector appending | |
| `Querier` | requests with retries, endpoint rotation, endpoint health and the limiter | |
| `TxCollect` | the numbered rows and account edges of collector and internal transactions, and the dictionary of account ids with its caches, by statement | |
| `NftCollect` | the evm, wasm and move nft submodules and nft-pair: events, prepare, collect, failures | |
| `Patcher` | `patcher.Patch` in several processes | |
| `RichList` | the rich list extension of the three virtual machines, after the patches | `Patcher` |
| `Pagination` | keys, pages and totals of the list endpoints over tables that change | |
| `CollectionCache` | the cache behind the search of collections by name | |
| `Status` | `GetStatus` and the height it keeps | |
| `RestPages` | the pages the querier fetches from a node | |
| `Reads` | the five readers (`CallTrace` supplies the internal transactions that are paged) | `CallTrace`, `Pagination`, `CollectionCache`, `Status`, `RestPages` |
| `RichListProofs`, `ReadsProofs`, `QuerierProofs`, `CleanupProofs`, `NftProofs`, `TxCollectProofs` | the theorems about `Patcher` and `RichList`; about `Status`, `CollectionCache`, `RestPages` and `Pagination`; about `Querier`, `Cleanup`, `NftCollect` and `TxCollect` | these modules, TLAPS |
| `MCInternalTx`, `MCCleanup`, `MCTxCollect`, `MCNft`, `MCRichList`, `MCReads` | the TLC instances | |

### How state and actions correspond to the code

A block is its height: nothing in the pipeline's control depends on more. The variables
carry the source's names (`height`, `blockMap`, `prepareCount`, `paused`, `blockChan`,
`controlChan`, `status`); `pc` and `coll` say where `Scraper.Run` and `collect()` are, and
`prep`/`prepDone` are the local state of the prepare goroutines. `sent` and `gaveUp` are
history variables.

*Scraper.* The fastSync loop is `FastPoll` (the status load), `FastSpawn` (semaphore and
`go`), `FastReturn` (`wg.Wait`, return, start of slowSync). A goroutine is in `fetching`,
then in `sending`; `FastReachedLatest` is the branch that stores `stopped` and returns
without the height. The control goroutine takes two steps, `CtlLoad` and `CtlStore`,
because `status.Load` and `status.Store` are two. Each slowSync goroutine walks from
"fetch" to "send" and "ok", or to "err"; `SlowAdvance` is `g.Wait` and the update of the
height. A request that fails otherwise is retried by fastSync without a change of state
and needs no action; in slowSync it is an "err". A node reports its own height, and
`FetchRPCWithRotation` stops at the first node that answers, so `Available` and
`reachedLatestHeight` may both hold for a height.

*Indexer.* `PrepareRecv` is the receive, the comparison with `i.height` (read without the
mutex, so it is not blocked by a collector that holds it) and the count. `SubPrepared`
stores one submodule's data, `PrepRetry` is a timeout of either, `PrepFinish` the locked
update. A round of `collect()` is `CollectPoll`, or `CollectLock` and `CollectSignal` when
it has a signal to send: between the two it holds the mutex and waits for room in
`controlChan`, so `PrepareRecv` and `PrepFinish` are blocked. `Collect` ends in
`CollectSkip` (row exists), `CollectCommit`, `CollectSerialization` (40001 after any
number of submodules had taken their cache entries) or `CollectFail`, the panic.
`CollectAdvance` is `i.height++`, which is outside the mutex. `Crash` is a kill, a shutdown
or a panic of a prepare goroutine at any step; nothing but the rows survives. `OtherCommit`
is another indexer with the same settings on the same database.

*InternalTx.* Its input, the block table, grows by `BlockCommit`, as `ChainLog` promises.
`Start` and `StartSkipped` are `Run` with a good and a bad answer to the node check;
`ProduceStart`, `ScrapeDone`/`ScrapeFail` and one `Push` per item are a round of
`produceBatchWork`, separated where the consumer can run in between; `Pop` and
`ConsumeCommit`/`ConsumeFail` are a round of the consumer. A trace is its height and the
number of its calls, which may be 0. `rows`, `edges` and `seqInfo` are the three tables one
transaction writes; `dropped` is a history variable. The rows are inserted with
`ON CONFLICT DO NOTHING`, the edges under a key that holds the new sequence: were a height
ever collected twice, its second edges would point to no row, which `NumberedInOrder`
excludes.

*CallTrace.* A call is the sequence of its nested calls; everything else in a trace is
carried over unchanged. `Sequence` and `Index` are computed as the code does, by recursion
with a running counter, and compared with a definition by paths in the call tree. In `Reads`
the rows appear in the table in one step, as their transaction commits.

*Cleanup.* A transaction is its sequence; constants say at which height it is, who signed
it, and which accounts its events name outside and inside `ret` attributes. A row of
`tx_accounts` is "none", "account" or "signer". `RetPoll`, `RetTx` and `RetUpdateStatus`
are a round of evmret; `TacFirst`, `TacBatch` (the rows are read ahead), `TacTx`
(`reconcileTx`, one database transaction) and `TacUpdateStatus` are txaccountcleanup.
Every statement that commits by itself is an action, so the two extensions, the collector
(`BlockCommit`) and a `Kill` come in between. evmret passes over a transaction whose data does
not parse (`evmret/cleanup.go:170`); the collector writes that data as JSON, so this branch
is left out. `Init` ranges over everything earlier
versions may have left in the table. `unresolved` and `removed` are history variables.

*Querier.* A caller walks through "find", "loop", "acquire" and "http" of
`executeWithEndpointRotation` and, inside it, `executeWithRetry`. The clock is reduced to
whether an endpoint's last failure is younger than `recoveryTimeout`. `AnswerLater` stands
for what executeWithRetry repeats without counting, `AnswerRetried` for what it repeats
with counting, `AnswerFailed` for what it returns. A caller that is cancelled inside
executeWithRetry costs the endpoint a failure, as in the code.

*TxCollect.* A writer is a process and a kind: "tx" is its collector, "itx" its consumer of
internal transactions. `txn` holds a writer's local variables and `pend` the writes of its
open transaction, which others do not read before `Commit` but wait for when they insert the
same key. `CollectBegin` is the check that opens the transaction, `InsertBlock` the block
submodule's insert, `GetSeqInfo`, `Lookup`, `Fetch` and `Create` the loop over the entries
with `GetOrCreateAccountIds` inside, `InsertRows` and `UpdateSeqInfo` the end. `Create` is an
insert with `ON CONFLICT DO NOTHING`: the ids of the rows that were inserted are handed to
the first of the new entries and the rest keep 0, which is what goes into the cache (`Place`
is the position of an account among the new entries). An entry of the chain is a value of its
own: the assumption on `Work` says that no two are the same transaction.
`ConsumeFail` rolls back, logs and goes on with the cache as it is; `CollectFail` is the
panic, or a kill, after which the process starts with empty caches; `Evict` is the LRU's
limit. A 40001 is not among the failures here: PostgreSQL does not raise it at READ
COMMITTED (`Indexer`, which does not depend on the isolation, has it). `lost` and `raced`
are history variables. `collectEvm` and the other dictionaries
(message types, type tags, nfts, hashes) repeat this code and are not repeated here.

*NftCollect.* The variable `vm` picks the submodule. The code goes through the events of a
block twice, in prepare and in collect, and fills maps; here the maps (`maps`, with the
names of the code's: mint, transfer, mut, burn, target, updateCountMap, collectionPairMap)
grow with each event as the chain makes it (`EvmLog`, `WasmEvent`, `MoveEvent`,
`CreateCollection`, `RecvPacket`), and the chain's own state (`owner`, `uri`, `exists`)
changes with it. `PrepareEvm` and `PrepareMove` query what the code queries, at
the height of the block (the uri of an evm token may be refused, and the token is kept without
one). The wasm submodule is built without a querier: `PrepareWasm` ends only for a block
without a collection event (a minter together with a creator or an owner) outside the
blacklist, and any other block is `PreparePanics`. `EvmRows`, `WasmRows`, `MoveRows` are the writes of the transaction
in the code's order (insert what was minted unless it is there, update or insert what was
transferred, delete what was burned), `NftCounts` and `Paired` its last two steps. `Paired`
goes by the name of a collection, as the update of nft-pair does: collections of one name
are named together.
`CollectFails` is the panic where collect returns an error. The other history variables say
exactly when the tables are known to differ from the chain (section 3).

*Patcher, RichList.* `PatchBegin` is the snapshot in which isApplied looks, `PatchCommit` the
commit of the patch and its row; `PatchConflict` is what SERIALIZABLE makes of two
processes with the same patch. A block of `RichList` moves one unit between two accounts,
inside a transaction or in a begin or end blocker, and remembers the balances after it, as
an archive node does. `Tracks` is what the processors leave out: module accounts on move,
and on wasm module accounts except where coins are minted or burned. `AfterProcess` is the
requery on evm; `ProcessHeight` one transaction of the loop. The processes take turns with
the extension (see the hazard at `scraper.go:73`).

*Pagination.* A row is its key and an id. `Serve` is a handler: first the count, then the
page, two statements with a snapshot each. `EdgePages` are the handlers that page through
an edge table and then read the transactions; `Response` is the key of the next page.
`NoNft` is the answer of `GetNftTxs` when the token has no row (`nftRow`): an empty page
without a key, after which the client is "gone", not at the "end"; that the dictionary lacks
the token's id gives the same answer and is an empty table. The
actions `AddTx`, `ChangeToken`, `AddAll`, `AddBlock`, `AddRow`, `ChangeRow` are what the indexer
does to the table that is listed; `Reconcile` is what the cleanups do to the edges of accounts,
which `GetNftTxs` reads too on move; and `AddCalls` a batch of internal transactions: in `Reads` it is a
conjunct of `CollectCalls`, with the sequences that `CallTrace` computes. `PagingSpec` is the
module by itself, where the batch is any number of rows after the last one (`AddSomeCalls`).
*CollectionCache*: `CheckRecent`, `tryUpdateCollectionCache` (the
compare-and-swap), `FindCollections`, `AppendCollections` are the steps of a request.
*Status*: one action per statement of `getInternalTxHeight`. *RestPages*: `FetchFrom` is one
turn of the loop with `handlePaginationNextKey`; the node chooses whether it gives a next
key (only if there is more) and a total. `Ascending` lists a set of numbers in order.

## 3. Runs

| run | checks | instance | states |
|---|---|---|---|
| `pipeline` | `TypeOK`, `NoBlockLost`, `SlowSyncNoSkip`, `SignalAgreement`, `CollectReady` | 2 nodes, 2 heights, 2 scraping and 2 preparing goroutines, batches of 2, both inflight limits 1 | 0.5 M |
| `restart` | `NoHoles`, refinement `LogSpec` | START_HEIGHT 2 of 3 heights, 40001, second indexer, 1 kill | 0.5 M |
| `progress` | `Progress` (liveness) | 3 heights, blockChan of 1, limits 1, 1 kill, fairness | 0.3 M |
| `fastsync` | `FastSyncComplete`: violated | as `pipeline` | |
| `internaltx` | `TypeOK`, `PushHasRoom`, `NumberedInOrder`, `NothingSkipped`, `AllIndexed` (liveness) | 7 heights (one empty, one without calls, one with two), batches of 2, queue of 3, 2 kills, fairness | 29 k |
| `itx_captures` | `CapturesAll`: violated | as `internaltx` | |
| `cleanup` | `TypeOK`, `RetOnlyGone`, `Repaired`, `CountsHonest`, `KeepsGoodRows`, `CatchesUp` (liveness) | 3 accounts, 4 transactions, every legacy table, batches of 2, 1 kill, fairness | 0.7 M |
| `querier` | `TypeOK`, `ExhaustedMeansAll`, `EveryCallAnswered` (liveness) | 2 callers, 3 calls, 2 endpoints of which any set never fails, 1 permit, fairness | 0.3 M |
| `rows` | `TypeOK`, `Consecutive`, `CacheRight`, `EdgesRight`, `NoOrphanEdges` | 1 process with both writers, 3 heights, 3 accounts, 2 failures or kills, evictions | 374 k |
| `nft` | `RowsRight`, `CountsRight`, `CollectPrepared`, `PairsNamed` (action property) | 3 virtual machines, 2 tokens, 2 collections of one name, 2 owners, 2 uris, 2 blocks of up to 3 events | 6.1 M |
| `richlist` | `RichListTypeOK`, `PatchesOnce`, `RichRight`, `RichCatchesUp` (liveness) | 3 virtual machines, 2 processes, 2 patches, a user and a module, 4 blocks, delay 1, 1 kill, fairness | 0.9 M |
| `reads` | `RowsFollowCalls`, `PagesExact`, `CacheExact`, `StatusHonest`, `NodePagesExact` | 17 endpoints in both orders, pages of 2, up to 5 keys, blocks of up to 2 traces; 2 requests, 3 collections; 2 requests, 3 blocks; lists of up to 5 items, pages of 2 | 3.5 M |

What they show:

* **pipeline**: over all interleavings, every height the scraper has passed is still
  somewhere between its goroutine and the database, except a height that a fastSync
  goroutine gave up; slowSync never moves past a height it has not sent, whichever of its
  goroutines fail; the collector's `paused` and the scraper's status agree once the signals
  under way are handled; and `Collect` always finds the data that prepare cached, although
  blocks are scraped twice and `i.height` is read without the mutex.
* **restart**: the rows never have a hole. After a 40001 the collector moves on without the
  row; the next block then fails on its missing predecessor, the process panics, and the
  restart heals it.
* **progress**: through a kill everything is committed in the end, unless fastSync has lost
  a height. (That Collect finds its data and its predecessor after any restart, with any
  START_HEIGHT and a second indexer, is the theorem `CollectIsReady`.)
* **fastsync** (finding): with two nodes of different heights, a goroutine that asked the
  slower one gives up its height while a higher one is delivered. slowSync starts above the
  gap and `collect()` waits for the lost block until the process is restarted.
* **internaltx**: a batch always fits into the queue, so the producer never blocks with half
  a batch queued; the internal transactions of the chain are numbered in chain order
  without a gap, and no edge is left without a row; up to the last produced height only
  the consumer loses heights. Full queues, failing batches and restarts do not stop it.
* **itx_captures** (finding): the height of a failed transaction is not queued again, and
  once a higher one has rows not even a restart returns to it.
* **cleanup**: up to its status row each extension has done what it says, although
  rows are read before they are reconciled and the other extension deletes in between;
  rows the collector would write are never lost, and a batch repeated after a kill is not
  counted twice (what it deleted before the kill is not counted at all). The table converges to what the collector would write. Accounts that
  had no id when their transaction was reconciled are the exception: they are not revisited.
* **querier**: a call that is given up has tried every endpoint exactly
  `maxRetriesPerURL` times, wherever it started and whatever others do to the health. With one good endpoint every call is answered, with fewer permits
  than callers.
* **rows**: rows are numbered without a gap in the order of the chain, whichever
  transactions fail. An id in the cache is wrong in exactly two ways: the consumer's
  transaction that created it was rolled back, or an insert met a row that appeared after
  the lookup. Edges inherit exactly these errors and no others.
* **nft**: a token has a row exactly if it has an owner, with that owner and uri, whatever
  happens to it in whichever order and block, if the block can be prepared. A wasm block with
  an event that names a collection cannot: prepare panics (see below), so wasm blocks get
  through only with mints that name no minter. The exceptions are named in `RowsRight`: a
  token that is burned and minted again in one block keeps its old row, since the mint is
  inserted with `ON CONFLICT DO NOTHING` and no longer deleted; a token from before
  START_HEIGHT, or on evm one of a collection without a name, has no row until it is
  transferred, and on move never; a row that a transfer creates has no uri. `nft_count` is
  the number of rows, but is not refreshed when the last token is burned (the grouped count
  has no line for it) or when a transfer creates a row. collect finds what it needs except
  if the blacklist has evicted a nameless collection in between, and then panics, or if a
  move collection is older than START_HEIGHT: its first mint fails again after every
  restart. An ibc packet names every collection that has the name it holds, in the block that
  inserts it too, the name stays, and nothing else gives one; on evm a packet whose token is burned in the same block names nothing.
* **richlist**: each patch is committed once and in order, by whichever process, and the
  extension runs only after all of them. The list then holds the balances of the height of
  its status row, through initialization, requeries and restarts, for every account the
  processors follow, and catches up whenever the chain rests; a balance that changes in a begin or end blocker is wrong from there
  to the next requery.
* **reads**: rows, indices, parents and sequences of internal transactions are right for
  every shape of calls. A client that follows a cursor gets every row that was there
  throughout, once and in order, also while the cleanups delete and insert edges. Two lists
  end early: a page of edges that all lack their transaction has no key, and neither has any
  page of a token's transactions once the token is burned (`nft/tx.go:45`). If no edge was
  reconciled under way, the total is right too; for blocks it is the last height
  (`block.go:37`), which counts the heights below START_HEIGHT. With offsets this holds while rows are only added behind. The name cache
  lists nothing twice and misses only collections inserted at a height that was already
  there (on evm a collection has the height of its contract's first transaction, so that
  can be long after). The status never claims a height with transactions
  that the extension has yet to index, and what it keeps never goes back. The
  pages of a block's transactions are complete whatever keys and totals the node leaves
  out; balances and accounts are not: once without a next key they ask for offset 0 again.

Seen while modelling, and outside the runs:

* `computeStartHeight` says in its comment "effective <= chainHead" (`indexer.go:336`); a
  database that is up to date resumes at head + 1, as line 344 has it.
* Two indexers that reach a height together: Collect looks for the block at READ COMMITTED
  and the block's insert ignores the conflict (`block/collect.go:58`), so the later one runs
  the other submodules too. Its transactions meet their rows, its edges do not meet theirs,
  and seq_info is advanced for rows that do not exist. `TxCollect` with two `Processes`
  shows it.
* `wasm_nft.New` (`wasm-nft/submodule.go:29`) sets no querier. The first wasm event that names
  a collection makes prepare call `GetCollectionData` on nil (`prepare.go:40`), which reads
  `q.RestUrls` (`util/querier/wasm.go:47`): the process panics, and again at that block after
  every restart. A wasm rollup with cw721 contracts is not indexed past its first such event.
* `nft_count` keeps its value when the last token of a collection is burned, and a client that
  pages through a token's transactions when it is burned takes a part of them for all.
* The rich lists of two indexers on one database apply every height twice.
* A list filtered only by message types that the dictionary does not have is not filtered.

**Bounds.** Two scraping goroutines, two preparing ones and a batch of two are the smallest
numbers with reordering between equals; both inflight limits at 1 make pause and start
happen with two blocks. `Horizon` bounds how far fastSync runs ahead of the chain: it must
exceed `MaxHeight` so that the end of the chain is met; `progress` needs more room because
an overwritten `stopped` sends the loop one height further each time. `PrepIds` bounds the
concurrent prepare goroutines, which the code bounds only through the pause signal.
A batch of 2 in a queue of 3 makes the free space smaller than the batch size. In `Cleanup`
one transaction has a signer that is also in its `ret`, and one account is named in one
transaction and in the `ret` of another, over several batches of each kind. Three calls of
two callers let a call meet the health that the last one left. In `rows` an account is
shared by both kinds and by consecutive heights, so that each writer can create, race for
and reuse an id. In `nft` two tokens of one collection and three events in each of two
blocks let a token be minted, moved and burned, and again, within one block and across
blocks, while the other token keeps the count; owners and uris need two values to differ.
In `richlist` four blocks with a delay of one leave room for an initialization, deltas on
either side of it, a requery and a restart; two patches, of which one deletes the list, are
what two processes can order differently. In `reads` pages of two with up to five keys give
three pages, full and not; two requests race. Deadlock is checked in every run
of the pipeline; the other runs end when their bounded chain, their calls or their one
computation does.

**Fairness.** `progress`: weak for each goroutine, since the Go scheduler runs every
runnable goroutine; for `Start`, since the process is supervised; and for the chain, which
grows. Strong for the success of a slowSync request and of an attempt to prepare: both are
repeated for ever and a node answers some time. `internaltx`: weak for both goroutines, the
start and the chain; strong for `ScrapeDone`, since a batch is retried for ever.
`cleanup`: weak for both extensions and the collector. `richlist`: weak for each process,
which goes on while it is not killed and is started again; not for the chain. `querier`: weak for
each goroutine; strong for a permit, and for a definite answer. The semaphore serves waiters
in order, but a waiter whose context ends after its timeout loses its place and comes back at
the end (`query.go:214`): that it does not do so for ever is an assumption, not what the limiter
guarantees. As for the answer, 429, timeouts and "invalid height" are retried on the same endpoint for
ever, so a call can only end if they stop.

Every property of a passing run has a mutant: a plausible bug of the code under which TLC
reports that property violated.

## 4. Proofs

`IndexerProofs` proves, for all values of the constants that satisfy the two named
assumptions (`ScraperAssumption`, `IndexerAssumption`: sizes are natural numbers, capacities
positive, some node exists) and for infinitely many heights as well as finitely many:

* `TypeCorrect`, `DatabaseHasNoHoles`, `SignalsAgree`, `CollectIsReady`,
  `BlocksAreNotLost`, `SlowSyncSkipsNothing`: the invariants of the runs;
* `ImplementsLog`: the pipeline implements `ChainLog`.

The argument is one chain of inductive invariants.

1. *Types and counts.* `TypeOK` is not inductive: `prepareCount \in Nat` needs `CountExact`,
   `prepareCount = Cardinality(active)`.
2. *The database.* `NoHoles` follows from `Linked`, which every commit checks in its
   transaction, whatever the pipeline does; `HasLast` (a non-empty table has a highest row)
   makes `lastBlock` meaningful. The refinement uses the same facts: a new row is the
   successor of the highest one, or lies at or below START_HEIGHT.
3. *Signals.* `SignalHeld` says that controlChan holds at most one signal and that a
   collector holding the mutex still has the reason it took it for, since everything that
   would change the counts needs the mutex.
4. *Readiness.* `CacheHeld` says that what blockMap and the prepare goroutines hold for a
   height yet to be collected is in the caches; a duplicate of the height cannot take it
   away, because only Collect removes entries and only for `height`. `HeightLinked` says
   that the height collect waits for has its predecessor in the database.
5. *Flow.* `ScraperBounds` and `BatchSent` relate `next`, `synced`, the goroutines and the
   batch; with them `NoBlockLost` and `SlowSyncNoSkip` are inductive.

`InternalTxProofs` proves, from `InternalTxAssumption` alone (sizes positive, transactions at
heights of the chain), `TypeCorrect`, `PushNeverWaits`, `RowsNumberedInOrder` and
`NothingIsSkipped`. Their inductive invariant adds `Running` (which goroutine variables are
set when), `FlowInOrder` (from the rows over the consumer and the queue to the batch,
heights only grow: hence no height is collected twice, and a restart, which asks for the
highest row, passes nothing that is under way) and `Cover` (nothing is missing between
them: hence what lies below the highest row is indexed, without calls, or dropped). The same
invariant gives the action property `RowsAreAppended`: the tables are a log to which a step
adds the rows, edges and counter of one height above all others, and in which nothing is
rewritten, so the insert never meets a conflict on which it would do nothing.

`RichListProofs` (from `PatcherAssumption` and `RichListAssumption`): `RichListTypes`,
`PatchesAreAppliedOnce`, `RichListIsRight`, for any number of processes, patches, blocks and
kills and every delay of the requery. `HistoryInv` says that upgrade_history is a prefix of
the patches, that a patch ran exactly if it is in it, and that no process has passed one that
is not. For the list, `ChainInv` derives the balances after a block from those before it, so
that the deltas can be compared with what a node answers; `ExtInv` puts the loop exactly one
height after the status row; `RowsInv` says that there are no rows without a status row, since
v1.0.14 removed them, which is what makes the initialization start from nothing. The action
property `ListGoesHeightByHeight` is what the extension promises, step by step: the list begins
with the balances of one block, and then every block is applied exactly once, in order, with
its status row and not before it is deep enough.

`ReadsProofs` states its theorems of each reader's own specification: `Reads`, which only
runs them side by side, reaches the recursive operators of `CallTrace`.

* `StatusIsHonest`: `AskedInv` says that what a request has read was true when it read it. The
  chain and the extension only move on, so it bounds whatever the request stores or answers,
  in whatever order requests come.
* `CacheIsExact`: the invariant says that only the request that has set the flag is between
  its query and the append, and that the cache with what that request has read is exactly
  the collections up to a height, apart from the late ones.
* `NodePagesAreExact`: what has been fetched is the beginning of the list up to some item, and
  the key, or the number of transactions, points to that item. Appending a page needs the
  fact (`AscendingConcat`) that the ordered list of a set followed by that of a set above it is
  the ordered list of both, and this that ranks in a finite set are a bijection (`Ranks`).
* `PagesAreExact` (`PaginationAssumption`): for every page size, every number of rows and all 17
  endpoints, with every change of the table between the count and a page and between pages.
  It is stated of `PagingSpec`; a batch of `CollectCalls` is one of its steps, because the
  sequences are consecutive after the last (`RowsFollowCalls` by TLC, `RowsAreAppended` of the
  extension). The inductive invariant is `PagingInv`. `TableInv` says what the tables of an
  endpoint can hold: keys are positive, a row of an edge list has its edge, and where the
  largest key stands for a count there is no gap. `CursorInv` is what holds of a cursor although
  edges are reconciled: what the client has is in order, and the rows of its first page's table
  that are still there and that it has not got come after all it has, where the key points. For the
  rest, which needs an undisturbed table, `SessionInv` takes the rows among which the
  client moves (`Base`: in descending order of a cursor those of its first page, otherwise those
  of now) and says that what it has got is in order and in the table (`GotInv`), that all
  others of them come after what it has, which is where the cursor or the offset points
  (`MoreInv`), and that at the end nothing is left that was there when it began (`EndInv`).
  Appending a page keeps this if it is a `GoodPage`: some of the rows that the request leaves
  (`Left`; undisturbed, those the client does not have), in order, with the others after them, and empty, or short with offsets, only if nothing else is left. That
  `ORDER BY`, `LIMIT` and `OFFSET` yield one is proved with ranks, the number of rows ahead of a row. The
  page of an edge list is cut from the edges and only then joined with the rows: it may be
  short without being the last, and empty only in the case that `OrphanPage` names.

`QuerierProofs` (`QuerierAssumption`): `QuerierTypes`, `GivenUpOnlyWhenAllFailed`. The first
needs `PermitsInv`, which counts the requests under way; the second `RotationInv`: with `Turn`,
the distance of an endpoint from the start of the rotation, the endpoints before the present
one have had all their retries and those after it none, and the rotation ends where it began.
`OneUpIsEnough` adds that an endpoint which is up fails no call, so that one of them is enough;
`PermitsAreAccountedFor` states `PermitsInv` by itself. `CallsAlwaysMoveOn`, an action property, is
the safety half of `EveryCallAnswered`: endpoint, retry and repetition of a call only go up, in
an order bounded by `TypeOK`, and every definite answer moves them.

`CleanupProofs` (`CleanupAssumption`): `CleanupTypes`, `RetOnlyRowsAreGone`, `RowsAreRepaired`,
`CountsAreHonest` and, as an action property, `GoodRowsAreKept`. `RetInv` and `TacInv` say that a
loop stands at its status row and that what it has taken from its batch is done. `ReadInv` is
the fact on which the two extensions depend: a row that txaccountcleanup has read is still
there, or evmret has deleted it meanwhile and it does not belong there, so that reconciling
with the stale row does no harm. `CountsInv` adds what will be written to the status rows to
what is in them; a kill only takes away from the first. `StatusRowsMoveOn` is the safety half of
`CatchesUp`: a status row that changes moves on by at least one and at most a batch, for which
`BatchInv` bounds the batches; no kill takes it back.

`NftProofs` (`NftAssumption`): `RowsAreRight`, `CountsAreRight`, `CollectIsPrepared` and the action
property `PairsAreNamed`. On wasm they are about the blocks that can be prepared at all. The properties speak of the tables between blocks; their invariant
speaks of what the maps will make of the tables (`WillBe`), whatever events the block has
had so far, so that collect only has to do what was foretold. `MapsInv` relates the maps of a
token to each other and to its collection, `ColInv` says where the collection of a mint comes
from, and `PrepareInv` that prepare, which runs after the last event, has left what collect
looks up.

`TxCollectProofs` (`TxCollectAssumption`): `TxCollectTypes` and `CacheIsRight` for any number of
indexers; `RowsAreConsecutive`, `EdgesAreRight` and `EdgesHaveRows` under `OneIndexer`, without which
the first and the last are false (section 3). `IdInv` follows an id from the insert that made
it, over the transaction and the cache, into a row: everywhere it is the id of the account's
row, or was lost with the consumer's transaction that made it, or its account raced;
`PendInv` says that an account has no two ids under way, for an insert waits for the open
transaction with the same key. `OneInv` adds the numbers: `NumberInv` says that a transaction
stands above all rows of its kind and has numbered its entries from seq_info on, `SeqInv`
that the rows have exactly the numbers up to seq_info, in chain order, and that no edge has a
higher one; `BlockInv` that rows have their block, hence no block is collected twice.

Only model-checked: `Progress`, `AllIndexed`, `CatchesUp`, `EveryCallAnswered` and
`RichCatchesUp`, because liveness under fairness is outside the prover's reach (of
three of them, what they rest on apart from fairness is proved: `CallsAlwaysMoveOn`,
`StatusRowsMoveOn`, `ListGoesHeightByHeight`); `RowsFollowCalls`, because it compares recursive
operators; and the two violations.

## 5. Not modelled

Contents of rows beyond what is named above, lookups of a single object and the formatting
of answers, metrics, logging, configuration parsing, generated API docs and the schema
migrations (SQL run by an external tool). Within the pipeline: context cancellation is the
kill; the scrape-speed metric is left out. The edges from nfts to transactions (`tx_nft`):
they are built as the account edges of `TxCollect` are. The fungible asset stores of Move
(`tx/fa.go`) and the extraction of addresses from a transaction: parsing without state. The
rebuild of the move nft tables by patch v1.0.2, which replays the events of all transactions
once; the wasm patches of v1.0.2 and v1.0.12, which the code has disabled; v1.0.15, which
deletes the status row of evmret (`Cleanup` starts without one, too). The rich list and
cleanup heights of the status endpoint, kept as the internal transaction height is.

## 6. Plan

Done: all components with state are modelled and checked, and their safety properties are
proved, except `RowsFollowCalls`. Further abstract specifications would be worth stating: that
the list endpoints page through one snapshot of the table, and that the internal transaction
tables are a log, as `ChainLog` says of the blocks; the action properties `RowsAreAppended` and
`ListGoesHeightByHeight` are their steps.
