----------------------------- MODULE Pagination -----------------------------
(***************************************************************************)
(* common/pagination.go and the list endpoints that use it: a client asks  *)
(* for page after page, with the key of the last response, while the       *)
(* indexer changes the table.                                              *)
(*                                                                         *)
(* A row has the key it is ordered by (sequence, height, token id, amount) *)
(* and an id.  Rows of equal key come in any order, a new one each query.  *)
(***************************************************************************)
EXTENDS Integers, SequencesExt, FiniteSetsExt

CONSTANTS
  Limit,    \* pagination.limit
  First,    \* START_HEIGHT: the height of the first block
  MaxKey,   \* bound: keys that the indexer adds
  MaxRows,  \* bound: rows it adds to
  MaxEdges  \* bound: edges when the paging begins

ASSUME PaginationAssumption ==
  /\ Limit \in Nat \ {0} /\ First \in Nat \ {0}
  /\ MaxKey \in Nat /\ MaxRows \in Nat /\ MaxEdges \in Nat \ {0}

VARIABLES
  endpoint,   \* what is listed
  order,      \* ASC or DESC
  rows,       \* the table: [key, id]
  edges,      \* sequences in the edge table of the account that is asked for
  nftRow,     \* the token of GetNftTxs has its row in the nft table
  session,    \* the client: [at, CursorValue, Offset, got, total]
  atStart,    \* history: the rows when the first page was read, less the reconciled
  disturbed   \* history: rows have moved under an offset, two had one key, or the
              \* tables were reconciled while the client was under way

pagingVars == <<endpoint, order, rows, edges, nftRow, session, atStart, disturbed>>

(* The lists that page through an edge table, through a table by sequence, *)
(* and by offset.                                                          *)
EdgeLists     == {"txs", "txs_by_account", "evm_txs_by_account", "internal_txs_by_account"}
SequenceLists == {"txs_by_height", "evm_txs", "evm_txs_by_height", "internal_txs",
                  "internal_txs_by_height", "internal_txs_by_hash", "nft_txs"}
OffsetLists   == {"collections", "collections_by_account", "tokens", "tokens_by_account", "holders"}
Endpoints     == EdgeLists \union SequenceLists \union {"blocks"} \union OffsetLists

(* The cursor type that the handlers pass to ParsePagination.              *)
defaultCursorType ==
  CASE endpoint \in EdgeLists \union SequenceLists -> "sequence"
    [] endpoint = "blocks" -> "height"
    [] OTHER -> "offset"

UseCursor == defaultCursorType # "offset"

NoKey == -1
Idle  == [at |-> "first", CursorValue |-> NoKey, Offset |-> 0, got |-> <<>>, total |-> 0]

Keys(S)      == {r.key : r \in S}
RowsOf(keys) == {[key |-> k, id |-> k] : k \in keys}

Ties    == \E r, s \in rows : r # s /\ r.key = s.key

After(k, l) == IF order = "ASC" THEN k > l ELSE k < l
Sorted(s)   == \A i, j \in DOMAIN s : i < j => ~After(s[i].key, s[j].key)

InOrder(S) ==
  [i \in 1 .. Cardinality(S) |->
     CHOOSE r \in S : Cardinality({q \in S : After(r.key, q.key)}) = i - 1]

(* ORDER BY: the sequences a query may answer.                             *)
OrderBy(S) ==
  IF Cardinality(Keys(S)) = Cardinality(S)
  THEN {InOrder(S)}
  ELSE {s \in SetToSeqs(S) : Sorted(s)}

Take(s, from, n) == SubSeq(s, from + 1, IF from + n < Len(s) THEN from + n ELSE Len(s))
-----------------------------------------------------------------------------
(* Bug: the row of the cursor itself is on the next page, too.             *)
WhereCursorInclusive(k) == session.CursorValue = NoKey \/ ~After(session.CursorValue, k)

(* The WHERE of ApplySequence, ApplyToBlock: what follows the cursor.      *)
WhereCursor(k) == session.CursorValue = NoKey \/ After(k, session.CursorValue)

(* ApplySequence, ApplyToBlock, ApplyToNftCollection, ApplyToNft and the   *)
(* query of GetTokenHolders: the pages that may be read.                   *)
Pages ==
  IF UseCursor
  THEN {Take(s, 0, Limit) : s \in OrderBy({r \in rows : WhereCursor(r.key)})}
  ELSE {Take(s, session.Offset, Limit) : s \in OrderBy(rows)}

(* buildTxEdgeQuery: a page of the edges' sequences, then the transactions *)
(* that have them; an edge may have none.                                  *)
EdgePages ==
  LET page == Take(InOrder({[key |-> k] : k \in {e \in edges : WhereCursor(e)}}), 0, Limit)
  IN  {InOrder({r \in rows : r.key \in Keys(ToSet(page))})}

(* The sequence of a transaction, the height of a block.                   *)
GetCursorData(record) == record.key

(* ToResponseWithLastRecord, ToResponse: a cursor always leads on from the *)
(* last record, an offset only from a full page.                           *)
Response(page) ==
  LET seen == session.got \o page
  IN  CASE UseCursor /\ page # <<>> ->
             [session EXCEPT !.at = "more", !.got = seen, !.CursorValue = GetCursorData(Last(page))]
        [] ~UseCursor /\ Len(page) = Limit ->
             [session EXCEPT !.at = "more", !.got = seen, !.Offset = @ + Limit]
        [] OTHER -> [session EXCEPT !.at = "end", !.got = seen]

(* GetCountWithTimeout: -1 when it takes too long.                         *)
GetCountWithTimeout(S) == {Cardinality(S), -1}

(* getCountByMax: the largest key stands for the count.                    *)
getCountByMax(keys) == {IF keys = {} THEN 0 ELSE Max(keys)}

(* GetOptimizedCount: counted exactly only if the list is filtered.        *)
GetOptimizedCount(hasFilters) ==
  IF hasFilters THEN GetCountWithTimeout(rows) ELSE getCountByMax(Keys(rows))

(* A handler counts, then reads a page: two statements, each with a        *)
(* snapshot of its own.  The client keeps the total of the first answer.   *)
Serve(list, totals, pages) ==
  /\ endpoint = list
  /\ \/ /\ session.at = "first"
        /\ \E total \in totals : session' = [session EXCEPT !.at = "counted", !.total = total]
        /\ UNCHANGED <<atStart, disturbed>>
     \/ /\ session.at \in {"counted", "more"}
        /\ \E page \in pages : session' = Response(page)
        /\ atStart' = IF session.at = "counted" THEN rows ELSE atStart
        /\ disturbed' = (disturbed \/ Ties)
  /\ UNCHANGED <<endpoint, order, rows, edges, nftRow>>

(* The edges of GetTxs are those of the message types.                     *)
GetTxs                     == Serve("txs", getCountByMax(edges), EdgePages)
GetTxsByAccount            == Serve("txs_by_account", GetCountWithTimeout(edges), EdgePages)
GetTxsByHeight             == Serve("txs_by_height", GetOptimizedCount(TRUE), Pages)
GetEvmTxs                  == Serve("evm_txs", GetOptimizedCount(FALSE), Pages)
GetEvmTxsByHeight          == Serve("evm_txs_by_height", GetOptimizedCount(TRUE), Pages)
GetEvmTxsByAccount         == Serve("evm_txs_by_account", GetCountWithTimeout(edges), EdgePages)
GetEvmInternalTxs          == Serve("internal_txs", GetOptimizedCount(FALSE), Pages)
GetEvmInternalTxsByHeight  == Serve("internal_txs_by_height", GetOptimizedCount(TRUE), Pages)
GetEvmInternalTxsByAccount == Serve("internal_txs_by_account", GetCountWithTimeout(edges), EdgePages)
GetEvmInternalTxsByHash    == Serve("internal_txs_by_hash", GetOptimizedCount(TRUE), Pages)
GetBlocks                  == Serve("blocks", getCountByMax(Keys(rows)), Pages)

(* GetNftTxs looks for the row of the token first: without it the answer   *)
(* is an empty page that has no key.                                       *)
NoNft ==
  /\ endpoint = "nft_txs"
  /\ session.at \in {"first", "more"}
  /\ ~nftRow
  /\ session' = [session EXCEPT !.at = "gone"]
  /\ UNCHANGED <<endpoint, order, rows, edges, nftRow, atStart, disturbed>>

GetNftTxs ==
  \/ NoNft
  \/ /\ nftRow \/ session.at = "counted"
     /\ Serve("nft_txs", GetOptimizedCount(TRUE), Pages)

(* The total of GetCollections is an estimate and that of GetTokenHolders  *)
(* is counted after the page: left out.                                    *)
GetCollections             == Serve("collections", {0}, Pages)
GetCollectionsByAccount    == Serve("collections_by_account", {Cardinality(rows)}, Pages)
GetTokensByCollectionAddr  == Serve("tokens", GetOptimizedCount(TRUE), Pages)
GetTokensByAccount         == Serve("tokens_by_account", GetOptimizedCount(TRUE), Pages)
GetTokenHolders            == Serve("holders", {0}, Pages)

Handler ==
  \/ GetTxs \/ GetTxsByAccount \/ GetTxsByHeight
  \/ GetEvmTxs \/ GetEvmTxsByHeight \/ GetEvmTxsByAccount
  \/ GetEvmInternalTxs \/ GetEvmInternalTxsByHeight
  \/ GetEvmInternalTxsByAccount \/ GetEvmInternalTxsByHash
  \/ GetNftTxs \/ GetBlocks
  \/ GetCollections \/ GetCollectionsByAccount
  \/ GetTokensByCollectionAddr \/ GetTokensByAccount \/ GetTokenHolders
-----------------------------------------------------------------------------
FreeId == Min((1 .. MaxRows) \ {r.id : r \in rows})

(* A change is harmless to an offset when it only adds rows at the end,    *)
(* and to the total when it removes none.                                  *)
Disturb(new) ==
  disturbed' =
    \/ disturbed
    \/ session.at \in {"counted", "more"} /\ ~(rows \subseteq new)
    \/ session.at = "more" /\ \E r \in rows, s \in new \ rows : ~After(s.key, r.key)

(* The collector adds a transaction with its edges; it may mint or burn    *)
(* the token that GetNftTxs is asked for.                                  *)
AddTx ==
  LET sequence == Max(edges \union Keys(rows) \union {0}) + 1
  IN  /\ endpoint \in EdgeLists \union {"evm_txs", "nft_txs"}
      /\ sequence <= MaxKey
      /\ edges' = IF endpoint \in EdgeLists THEN edges \union {sequence} ELSE edges
      /\ rows' = rows \union RowsOf({sequence})
      /\ nftRow' \in IF endpoint = "nft_txs" THEN BOOLEAN ELSE {nftRow}
      /\ UNCHANGED <<endpoint, order, session, atStart, disturbed>>

(* A token is minted or burned by an event outside of a transaction.       *)
ChangeToken ==
  /\ endpoint = "nft_txs"
  /\ nftRow' = ~nftRow
  /\ UNCHANGED <<endpoint, order, rows, edges, session, atStart, disturbed>>

(* The cleanups (reconcileTx, DeleteRetOnlyRecords) delete the edge of a   *)
(* transaction to an account, or insert one; on move GetNftTxs reads these *)
(* edges, too.                                                             *)
Reconcile ==
  /\ endpoint \in {"txs_by_account", "nft_txs"}
  /\ \E k \in 1 .. MaxKey :
       \/ /\ k \in Keys(rows)
          /\ rows' = rows \ RowsOf({k})
          /\ edges' = edges \ {k}
          /\ atStart' = atStart \ RowsOf({k})
       \/ /\ k \notin edges \union Keys(rows)
          /\ rows' = rows \union RowsOf({k})
          /\ edges' = IF endpoint \in EdgeLists THEN edges \union {k} ELSE edges
          /\ UNCHANGED atStart
  /\ disturbed' = (disturbed \/ session.at \in {"counted", "more"})
  /\ UNCHANGED <<endpoint, order, nftRow, session>>

(* The transactions of a height, or the calls of a transaction, are added  *)
(* together.                                                               *)
AddAll ==
  /\ endpoint \in {"txs_by_height", "evm_txs_by_height",
                   "internal_txs_by_height", "internal_txs_by_hash"}
  /\ rows = {}
  /\ \E n \in 1 .. MaxKey : rows' = RowsOf(1 .. n)
  /\ UNCHANGED <<endpoint, order, edges, nftRow, session, atStart, disturbed>>

(* The rows of a batch of traces are committed together.                   *)
AddCalls(sequences) ==
  /\ endpoint = "internal_txs"
  /\ rows' = rows \union RowsOf(sequences)
  /\ UNCHANGED <<endpoint, order, edges, nftRow, session, atStart, disturbed>>

AddBlock ==
  /\ endpoint = "blocks"
  /\ Max(Keys(rows)) < First + MaxKey
  /\ LET height == Max(Keys(rows)) + 1
     IN  rows' = rows \union RowsOf({height})
  /\ UNCHANGED <<endpoint, order, edges, nftRow, session, atStart, disturbed>>

(* A collection has the height of its creation, which on evm may be that   *)
(* of an earlier block, or appears when the account gets a token of it; a  *)
(* token has any id, of its own within a collection; a holder any amount.  *)
AddRow ==
  /\ ~UseCursor
  /\ Cardinality(rows) < MaxRows
  /\ \E k \in 1 .. MaxKey :
       /\ endpoint = "tokens" => k \notin Keys(rows)
       /\ rows' = rows \union {[key |-> k, id |-> FreeId]}
       /\ Disturb(rows')
  /\ UNCHANGED <<endpoint, order, edges, nftRow, session, atStart>>

(* A token is burned or leaves the account; the amount of a holder         *)
(* changes.                                                                *)
ChangeRow ==
  /\ \E r \in rows :
       \/ /\ endpoint \in {"tokens", "tokens_by_account", "collections_by_account"}
          /\ rows' = rows \ {r}
       \/ /\ endpoint = "holders"
          /\ \E k \in (1 .. MaxKey) \ {r.key} : rows' = (rows \ {r}) \union {[r EXCEPT !.key = k]}
  /\ Disturb(rows')
  /\ UNCHANGED <<endpoint, order, edges, nftRow, session, atStart>>

(* Nothing is of interest when the client has no key any more.             *)
PagingNext ==
  /\ session.at \notin {"end", "gone"}
  /\ Handler \/ AddTx \/ ChangeToken \/ Reconcile \/ AddAll \/ AddBlock \/ AddRow \/ ChangeRow

(* The internal transactions that the next block may have (CallTrace).     *)
AddSomeCalls ==
  LET last == Max(Keys(rows) \union {0})
  IN  \E n \in Nat : AddCalls(last + 1 .. last + n)

(* What the tables hold when the first page is asked for.  An edge may     *)
(* have lost its transaction (the orphans of module Cleanup).              *)
Tables ==
  /\ edges \in CASE endpoint = "txs"                    -> {1 .. n : n \in 1 .. MaxEdges}
                 [] endpoint \in EdgeLists \ {"txs"}  -> SUBSET (1 .. MaxEdges) \ {{}}
                 [] OTHER                              -> {{}}
  /\ rows \in CASE endpoint \in EdgeLists    -> {RowsOf(S) : S \in SUBSET edges}
                [] endpoint = "internal_txs" -> {RowsOf(1 .. n) : n \in 0 .. MaxKey}
                [] endpoint = "blocks"       -> {RowsOf({First})}
                [] OTHER                     -> {{}}

PagingInit ==
  /\ endpoint \in Endpoints
  /\ order \in {"ASC", "DESC"}
  /\ Tables
  /\ nftRow \in IF endpoint = "nft_txs" THEN BOOLEAN ELSE {TRUE}
  /\ session = Idle
  /\ atStart = {}
  /\ disturbed = FALSE

PagingSpec == PagingInit /\ [][PagingNext \/ AddSomeCalls]_pagingVars
-----------------------------------------------------------------------------
Got == ToSet(session.got)

(* Edges without a transaction fill a page.                                *)
OrphanPage ==
  \E k, l \in edges :
    /\ k <= l
    /\ Cardinality({e \in edges : k <= e /\ e <= l}) = Limit
    /\ \A r \in rows : ~(k <= r.key /\ r.key <= l)

(* A client that follows the keys of a cursor gets the rows in order, none *)
(* twice, and when a page has no key any more it has every row that was    *)
(* there from the first page on, however the tables change meanwhile,      *)
(* unless a page of edges has no transaction at all or the list is that of *)
(* a token whose row is gone.  Unless the cleanups reconciled edges under  *)
(* way, it has in descending order no other row, and as many as the total  *)
(* said (where every edge has its transaction; the total of GetBlocks is   *)
(* the last height and counts the First - 1 blocks that are not there).    *)
(* With offsets all this holds as long as rows are only added at the end   *)
(* and no two have the same key (ParsePagination, Apply*,                  *)
(* ToResponseWithLastRecord, GetNftTxs).                                   *)
PagesExact ==
  /\ UseCursor \/ ~disturbed =>
       \A i, j \in DOMAIN session.got : i < j => After(session.got[j].key, session.got[i].key)
  /\ session.at = "end" /\ ~OrphanPage =>
       /\ UseCursor \/ ~disturbed => atStart \subseteq Got
       /\ ~disturbed /\ UseCursor /\ order = "DESC" => Got = atStart
       /\ ~disturbed /\ edges \subseteq Keys(rows) =>
            Cardinality(Got) >= session.total - (IF endpoint = "blocks" THEN First - 1 ELSE 0)
=============================================================================
