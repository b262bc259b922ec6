----------------------------- MODULE TxCollect -----------------------------
(***************************************************************************)
(* collector/tx, extension/internaltx and util/cache: the numbered rows    *)
(* and account edges that database transactions write, and the dictionary  *)
(* of account ids behind them.                                             *)
(*                                                                         *)
(* A process has a writer of kind "tx", its collector, and may have one of *)
(* kind "itx", the consumer of internal transactions.  Both take a height  *)
(* per database transaction: they read the last sequence of their kind,    *)
(* look up or create the ids of each entry's accounts through the cache of *)
(* the process, number the entry, insert rows and edges, and store the     *)
(* last sequence.  (collectEvm repeats this for a third kind, and message  *)
(* types, type tags, nfts and hashes have dictionaries like this one.)     *)
(*                                                                         *)
(* The isolation is READ COMMITTED.  Inserts are ON CONFLICT DO NOTHING:   *)
(* one that meets an uncommitted row of its key waits for its transaction. *)
(***************************************************************************)
EXTENDS Integers, Sequences, FiniteSets

CONSTANTS
  Processes,   \* indexers on this database
  Consumers,   \* the processes with the internal transaction extension
  Accounts,
  MaxHeight,   \* bound: the last height
  Entries,     \* transactions and internal calls, of all kinds
  Work,        \* kind -> height -> sequence of entries
  AccountsOf,  \* entry -> accounts
  MaxFails     \* bound: how many database transactions fail

Kinds   == {"tx", "itx"}
Heights == 1 .. MaxHeight
Writers == (Processes \X {"tx"}) \union (Consumers \X {"itx"})
Kind(w) == w[2]

ASSUME TxCollectAssumption ==
  /\ Consumers \subseteq Processes
  /\ IsFiniteSet(Accounts)
  /\ MaxHeight \in Nat
  /\ Work \in [Kinds -> [Heights -> Seq(Entries)]]
  /\ \A k, l \in Kinds, g, h \in Heights :
       \A i \in DOMAIN Work[k][g], j \in DOMAIN Work[l][h] :
         Work[k][g][i] = Work[l][h][j] => k = l /\ g = h /\ i = j
  /\ AccountsOf \in [Entries -> SUBSET Accounts]
  /\ MaxFails \in Nat

VARIABLES
  blocks,   \* committed: heights with a block row
  seqOf,    \* committed: entry -> its sequence, 0 if it has no row
  edges,    \* committed: kind -> set of <<account id, sequence>>
  seqInfo,  \* committed: kind -> last sequence
  dict,     \* committed: account -> id, 0 if it has none
  lastId,   \* the serial of the dictionary; it is not rolled back
  cache,    \* process -> account -> id, or NotCached
  txn,      \* writer -> the variables of its transaction
  pend,     \* writer -> its uncommitted writes
  lost,     \* history: kind that failed -> set of <<account, id>> rolled back
  raced,    \* history: accounts in an insert that met a new row
  fails

dbVars == <<blocks, seqOf, edges, seqInfo, dict>>
vars   == <<dbVars, lastId, cache, txn, pend, lost, raced, fails>>

NotCached == -1
noIds     == [a \in Accounts |-> NotCached]
noWrites  == [block |-> FALSE, dict |-> [a \in Accounts |-> 0],
              rows |-> {}, edges |-> {}, seq |-> NotCached]
idle(h)   == [at |-> "idle", height |-> h, done |-> 0, seq |-> 0, ids |-> noIds, rows |-> <<>>]

Highest(S) == IF S = {} THEN 0 ELSE CHOOSE x \in S : \A y \in S : y <= x
ToSet(s)   == {s[i] : i \in DOMAIN s}
-----------------------------------------------------------------------------
(* Collector.Collect: a block that is there is skipped.                    *)
CollectBegin(w) ==
  /\ Kind(w) = "tx"
  /\ txn[w].at = "idle"
  /\ txn[w].height \in Heights
  /\ txn' = [txn EXCEPT ![w] = IF txn[w].height \in blocks THEN idle(@.height + 1)
                               ELSE [@ EXCEPT !.at = "block"]]
  /\ UNCHANGED <<dbVars, lastId, cache, pend, lost, raced, fails>>

(* BlockSubmodule.collect inserts the block row, or does nothing.          *)
InsertBlock(w) ==
  LET h == txn[w].height
  IN  /\ txn[w].at = "block"
      /\ \A v \in Writers : pend[v].block => txn[v].height # h
      /\ pend' = [pend EXCEPT ![w].block = h \notin blocks]
      /\ txn' = [txn EXCEPT ![w].at = "seq"]
      /\ UNCHANGED <<dbVars, lastId, cache, lost, raced, fails>>

(* CollectInternalTxs: the next height of the consumer.                    *)
ConsumeBegin(w) ==
  /\ Kind(w) = "itx"
  /\ txn[w].at = "idle"
  /\ txn[w].height \in blocks
  /\ txn' = [txn EXCEPT ![w].at = "seq"]
  /\ UNCHANGED <<dbVars, lastId, cache, pend, lost, raced, fails>>

GetSeqInfo(w) ==
  /\ txn[w].at = "seq"
  /\ txn' = [txn EXCEPT ![w].at = "lookup", ![w].seq = seqInfo[Kind(w)]]
  /\ UNCHANGED <<dbVars, lastId, cache, pend, lost, raced, fails>>
-----------------------------------------------------------------------------
work(w)     == Work[Kind(w)][txn[w].height]
accounts(w) == AccountsOf[work(w)[txn[w].done + 1]]
uncached(w) == {a \in accounts(w) : txn[w].ids[a] = NotCached}

(* Bug: a tx whose accounts are all known gets the sequence of the last.   *)
NextSeqReused(w, missed) == IF missed = {} THEN txn[w].seq ELSE txn[w].seq + 1

NextSeq(w, missed) == txn[w].seq + 1

(* The entry gets its sequence and, for each different id, an edge.        *)
Numbered(w, ids, missed) ==
  [txn[w] EXCEPT !.at = "lookup",
                 !.done = @ + 1,
                 !.seq = NextSeq(w, missed),
                 !.ids = noIds,
                 !.rows = Append(@, [entry |-> work(w)[txn[w].done + 1],
                                     ids |-> {ids[a] : a \in accounts(w)},
                                     seq |-> NextSeq(w, missed)])]

(* Bug: accounts that are not cached are not fetched.                      *)
LookupOnly(w) ==
  /\ txn[w].at = "lookup"
  /\ txn[w].done < Len(work(w))
  /\ txn' = [txn EXCEPT ![w] = Numbered(w, cache[w[1]], {})]
  /\ UNCHANGED <<dbVars, lastId, cache, pend, lost, raced, fails>>

(* checkAccountCache.                                                      *)
Lookup(w) ==
  /\ txn[w].at = "lookup"
  /\ txn[w].done < Len(work(w))
  /\ LET ids == [a \in Accounts |-> IF a \in accounts(w) THEN cache[w[1]][a] ELSE NotCached]
     IN  txn' = [txn EXCEPT ![w] = IF \A a \in accounts(w) : ids[a] # NotCached
                                   THEN Numbered(w, ids, {})
                                   ELSE [@ EXCEPT !.at = "select", !.ids = ids]]
  /\ UNCHANGED <<dbVars, lastId, cache, pend, lost, raced, fails>>

(* fetchAccountsFromDB sees what is committed and its own inserts.         *)
Visible(w, a) ==
  IF dict[a] # 0 THEN dict[a] ELSE IF pend[w].dict[a] # 0 THEN pend[w].dict[a] ELSE NotCached

Fetch(w) ==
  /\ txn[w].at = "select"
  /\ LET ids   == [a \in Accounts |-> IF a \in uncached(w) THEN Visible(w, a) ELSE txn[w].ids[a]]
         found == {a \in uncached(w) : ids[a] # NotCached}
     IN  /\ txn' = [txn EXCEPT ![w] = IF found = uncached(w) THEN Numbered(w, ids, found)
                                      ELSE [@ EXCEPT !.at = "create", !.ids = ids]]
         /\ cache' = [cache EXCEPT ![w[1]] =
                        [a \in Accounts |-> IF a \in found THEN ids[a] ELSE @[a]]]
  /\ UNCHANGED <<dbVars, lastId, pend, lost, raced, fails>>

Place(order, a) == CHOOSE k \in DOMAIN order : order[k] = a

(* Bug: the ids are given to the entries in the opposite order.            *)
ReturnedReversed(order, inserted) ==
  [a \in Accounts |->
     LET i == Len(order) + 1 - Place(order, a)
     IN  IF i <= inserted THEN lastId + i ELSE 0]

(* The ids that Create leaves in the new entries, in their order: the rows *)
(* that were inserted return their ids, and these are given to the first   *)
(* entries; the others keep 0.                                             *)
Returned(order, inserted) ==
  [a \in Accounts |->
     LET i == Place(order, a)
     IN  IF i <= inserted THEN lastId + i ELSE 0]

(* createNewAccountEntries, updateAccountCacheAndResult.                   *)
Create(w) ==
  LET new == uncached(w)
      met == {a \in new : dict[a] # 0}
      inserted == Cardinality(new \ met)
  IN  /\ txn[w].at = "create"
      /\ \A v \in Writers \ {w} : \A a \in new : pend[v].dict[a] = 0
      /\ \E order \in [1 .. Cardinality(new) -> new] :
           LET ids == [a \in Accounts |-> IF a \in new THEN Returned(order, inserted)[a]
                                          ELSE txn[w].ids[a]]
               rowId(a) == lastId + Cardinality({k \in 1 .. Place(order, a) : order[k] \notin met})
           IN  /\ ToSet(order) = new
               /\ pend' = [pend EXCEPT ![w].dict = [a \in Accounts |-> IF a \in new \ met THEN rowId(a)
                                                                      ELSE @[a]]]
               /\ lastId' = lastId + inserted
               /\ cache' = [cache EXCEPT ![w[1]] =
                              [a \in Accounts |-> IF a \in new THEN ids[a] ELSE @[a]]]
               /\ txn' = [txn EXCEPT ![w] = Numbered(w, ids, new)]
      /\ raced' = IF met = {} THEN raced ELSE raced \union new
      /\ UNCHANGED <<dbVars, lost, fails>>
-----------------------------------------------------------------------------
pendingRows(w)  == {r.entry : r \in pend[w].rows}
rowEdges(rows)  == UNION {{<<i, r.seq>> : i \in r.ids} : r \in rows}

(* The rows and their edges are inserted, unless they are there.           *)
InsertRows(w) ==
  LET new == {r \in ToSet(txn[w].rows) : seqOf[r.entry] = 0}
      es  == rowEdges(ToSet(txn[w].rows))
  IN  /\ txn[w].at = "lookup"
      /\ txn[w].done = Len(work(w))
      /\ \A v \in Writers \ {w} : Kind(v) = Kind(w) =>
           /\ pendingRows(v) \intersect {r.entry : r \in new} = {}
           /\ pend[v].edges \intersect es = {}
      /\ pend' = [pend EXCEPT ![w].rows = new,
                              ![w].edges = es \ edges[Kind(w)]]
      /\ txn' = [txn EXCEPT ![w].at = "seqinfo"]
      /\ UNCHANGED <<dbVars, lastId, cache, lost, raced, fails>>

(* The row of seq_info is overwritten.                                     *)
UpdateSeqInfo(w) ==
  /\ txn[w].at = "seqinfo"
  /\ \A v \in Writers \ {w} : Kind(v) = Kind(w) => pend[v].seq = NotCached
  /\ pend' = [pend EXCEPT ![w].seq = txn[w].seq]
  /\ txn' = [txn EXCEPT ![w].at = "commit"]
  /\ UNCHANGED <<dbVars, lastId, cache, lost, raced, fails>>

Commit(w) ==
  LET p == pend[w]
  IN  /\ txn[w].at = "commit"
      /\ blocks' = IF p.block THEN blocks \union {txn[w].height} ELSE blocks
      /\ dict' = [a \in Accounts |-> IF p.dict[a] # 0 THEN p.dict[a] ELSE dict[a]]
      /\ seqOf' = [e \in Entries |-> IF e \in pendingRows(w)
                                     THEN (CHOOSE r \in p.rows : r.entry = e).seq
                                     ELSE seqOf[e]]
      /\ edges' = [edges EXCEPT ![Kind(w)] = @ \union p.edges]
      /\ seqInfo' = [seqInfo EXCEPT ![Kind(w)] = p.seq]
      /\ pend' = [pend EXCEPT ![w] = noWrites]
      /\ txn' = [txn EXCEPT ![w] = idle(@.height + 1)]
      /\ UNCHANGED <<lastId, cache, lost, raced, fails>>
-----------------------------------------------------------------------------
rolledBack(S) == {<<a, pend[v].dict[a]>> : a \in Accounts, v \in S} \ (Accounts \X {0})

(* A transaction of the consumer fails: it is rolled back and logged, and  *)
(* the consumer goes on.                                                   *)
ConsumeFail(w) ==
  /\ Kind(w) = "itx"
  /\ txn[w].at # "idle"
  /\ fails < MaxFails
  /\ fails' = fails + 1
  /\ lost' = [lost EXCEPT !["itx"] = @ \union rolledBack({w})]
  /\ pend' = [pend EXCEPT ![w] = noWrites]
  /\ txn' = [txn EXCEPT ![w] = idle(@.height + 1)]
  /\ UNCHANGED <<dbVars, lastId, cache, raced>>

(* Bug: the last height is taken again.                                    *)
restartAtLast(w) ==
  idle(IF Kind(w) = "tx" THEN 1 + Highest(blocks)
       ELSE LET h == Highest({g \in Heights : \E e \in ToSet(Work["itx"][g]) : seqOf[e] # 0})
            IN  IF h = 0 THEN 1 ELSE h)

restart(w) ==
  idle(1 + IF Kind(w) = "tx" THEN Highest(blocks)
           ELSE Highest({h \in Heights : \E e \in ToSet(Work["itx"][h]) : seqOf[e] # 0}))

(* Bug: the process goes on after the error, with its caches.              *)
CollectFailGoesOn(w) ==
  /\ Kind(w) = "tx"
  /\ txn[w].at # "idle"
  /\ fails < MaxFails
  /\ fails' = fails + 1
  /\ lost' = [lost EXCEPT !["tx"] = @ \union rolledBack({w})]
  /\ pend' = [pend EXCEPT ![w] = noWrites]
  /\ txn' = [txn EXCEPT ![w] = restart(w)]
  /\ UNCHANGED <<dbVars, lastId, cache, raced>>

(* A transaction of the collector fails and collect() panics, or the       *)
(* process is killed.  It starts again with empty caches.                  *)
CollectFail(w) ==
  LET own == {v \in Writers : v[1] = w[1]}
  IN  /\ Kind(w) = "tx"
      /\ fails < MaxFails
      /\ fails' = fails + 1
      /\ lost' = [lost EXCEPT !["tx"] = @ \union rolledBack(own)]
      /\ pend' = [v \in Writers |-> IF v \in own THEN noWrites ELSE pend[v]]
      /\ txn' = [v \in Writers |-> IF v \in own THEN restart(v) ELSE txn[v]]
      /\ cache' = [cache EXCEPT ![w[1]] = noIds]
      /\ UNCHANGED <<dbVars, lastId, raced>>

(* Other keys push this one out of the cache.                              *)
Evict(p, a) ==
  /\ cache[p][a] # NotCached
  /\ cache' = [cache EXCEPT ![p][a] = NotCached]
  /\ UNCHANGED <<dbVars, lastId, txn, pend, lost, raced, fails>>
-----------------------------------------------------------------------------
Init ==
  /\ blocks = {}
  /\ seqOf = [e \in Entries |-> 0]
  /\ edges = [k \in Kinds |-> {}]
  /\ seqInfo = [k \in Kinds |-> 0]
  /\ dict = [a \in Accounts |-> 0]
  /\ lastId = 0
  /\ cache = [p \in Processes |-> noIds]
  /\ txn = [w \in Writers |-> idle(1)]
  /\ pend = [w \in Writers |-> noWrites]
  /\ lost = [k \in Kinds |-> {}]
  /\ raced = {}
  /\ fails = 0

Write(w) ==
  \/ CollectBegin(w)
  \/ InsertBlock(w)
  \/ ConsumeBegin(w)
  \/ GetSeqInfo(w)
  \/ Lookup(w)
  \/ Fetch(w)
  \/ Create(w)
  \/ InsertRows(w)
  \/ UpdateSeqInfo(w)
  \/ Commit(w)
  \/ ConsumeFail(w)
  \/ CollectFail(w)

Next ==
  \/ \E w \in Writers : Write(w)
  \/ \E p \in Processes, a \in Accounts : Evict(p, a)

Spec == Init /\ [][Next]_vars
-----------------------------------------------------------------------------
Ids == Nat \union {NotCached}

(* Type invariant.                                                         *)
TypeOK ==
  /\ blocks \in SUBSET Heights
  /\ seqOf \in [Entries -> Nat]
  /\ edges \in [Kinds -> SUBSET (Nat \X Nat)]
  /\ seqInfo \in [Kinds -> Nat]
  /\ dict \in [Accounts -> Nat]
  /\ lastId \in Nat
  /\ cache \in [Processes -> [Accounts -> Ids]]
  /\ txn \in [Writers -> [at : {"idle", "block", "seq", "lookup", "select", "create", "seqinfo", "commit"},
                          height : Nat \ {0}, done : Nat, seq : Nat, ids : [Accounts -> Ids],
                          rows : Seq([entry : Entries, ids : SUBSET Nat, seq : Nat \ {0}])]]
  /\ pend \in [Writers -> [block : BOOLEAN, dict : [Accounts -> Nat],
                           rows : SUBSET [entry : Entries, ids : SUBSET Nat, seq : Nat \ {0}],
                           edges : SUBSET (Nat \X Nat), seq : Ids]]
  /\ lost \in [Kinds -> SUBSET (Accounts \X Nat)]
  /\ raced \in SUBSET Accounts
  /\ fails \in Nat

(* The entries of kind k that have a row.                                  *)
rowsOf(k) == {e \in Entries : seqOf[e] # 0 /\ \E h \in Heights : e \in ToSet(Work[k][h])}

(* The rows of a kind are numbered from 1 to its last sequence, each once, *)
(* in the order of the chain, through failures and restarts                *)
(* (TxSubmodule.collect, CollectInternalTxs).                              *)
Consecutive ==
  \A k \in Kinds :
    /\ Cardinality(rowsOf(k)) = seqInfo[k]
    /\ {seqOf[e] : e \in rowsOf(k)} = 1 .. seqInfo[k]
    /\ \A g, h \in Heights : g < h =>
         \A d \in ToSet(Work[k][g]) \intersect rowsOf(k), e \in ToSet(Work[k][h]) \intersect rowsOf(k) :
           seqOf[d] < seqOf[e]

(* An id in the cache of a process is the one in the dictionary, or about  *)
(* to be.  There are exactly two ways to get another one: the consumer's   *)
(* transaction that created it failed, or its insert met a row that        *)
(* another transaction had inserted after the lookup (GetOrCreate-         *)
(* AccountIds).                                                            *)
CacheRight ==
  \A p \in Processes, a \in Accounts :
    LET i == cache[p][a]
    IN  \/ i = NotCached
        \/ i = dict[a] /\ i # 0
        \/ \E w \in Writers : w[1] = p /\ pend[w].dict[a] = i /\ i # 0
        \/ <<a, i>> \in lost["itx"]
        \/ a \in raced

(* i is the id of account a, committed or about to be, or was in the cache *)
(* while, or although, the transaction that created it failed.             *)
Explained(a, i) ==
  /\ i # 0
  /\ \/ i = dict[a]
     \/ \E w \in Writers : pend[w].dict[a] = i
     \/ <<a, i>> \in lost["itx"] \union lost["tx"]

(* The edges of a row are the ids of its accounts and no others, unless    *)
(* one of them raced: an id that another transaction creates, fails to     *)
(* create or has created is never given to the wrong account or row.       *)
EdgesRight ==
  \A k \in Kinds : \A e \in rowsOf(k) :
    LET ids == {x[1] : x \in {y \in edges[k] : y[2] = seqOf[e]}}
    IN  \/ AccountsOf[e] \intersect raced # {}
        \/ /\ \A a \in AccountsOf[e] : \E i \in ids : Explained(a, i)
           /\ \A i \in ids : \E a \in AccountsOf[e] : Explained(a, i)

(* A block that is indexed is skipped: no edge is written for a sequence   *)
(* that no row has (Collector.Collect).                                    *)
NoOrphanEdges ==
  \A k \in Kinds : \A x \in edges[k] : \E e \in rowsOf(k) : seqOf[e] = x[2]
=============================================================================
