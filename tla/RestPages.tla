----------------------------- MODULE RestPages -----------------------------
(***************************************************************************)
(* util/querier/cosmos.go: how the pages of a list are fetched from a      *)
(* node's REST API, for the transactions of a block (GetCosmosTxs), the    *)
(* balances of an account (GetAllBalances) and the accounts                *)
(* (FetchAllAccountsWithPagination).                                       *)
(*                                                                         *)
(* The list is 1 .. items.  A node may leave out the next key of a page    *)
(* that is not the last, or the total, as it likes.  A request that fails  *)
(* is module Querier's.                                                    *)
(***************************************************************************)
EXTENDS Integers, SequencesExt

CONSTANTS
  PageLimit,   \* paginationLimit
  MaxItems,    \* bound: items of a list
  MaxFetched   \* bound: items fetched

ASSUME RestPagesAssumption ==
  PageLimit \in Nat \ {0} /\ MaxItems \in Nat /\ MaxFetched \in Nat

VARIABLES
  list,      \* what is fetched
  items,     \* how many there are
  skipped,   \* items that extractAddressesFromAccounts leaves out
  fetched,   \* allTxs, allBalances or allAddresses
  nextKey,
  useOffset,
  fetching,  \* the loop has not ended
  cut        \* history: the node has left out a next key

restVars == <<list, items, skipped, fetched, nextKey, useOffset, fetching, cut>>

Lists == {"txs", "balances", "accounts"}

(* Bug: the offset of the page after the first.                            *)
OffsetOfSecondPage == PageLimit

(* The pagination.offset of fetchTxs; the other two always ask for 0.      *)
Offset == IF list = "txs" THEN Len(fetched) ELSE 0

(* What a node answers that is asked from an item on.                      *)
Page(from) == from + 1 .. (IF from + PageLimit < items THEN from + PageLimit ELSE items)

(* The numbers of S in ascending order.                                    *)
Below(S, x) == {y \in S : y < x}

Ascending(S) ==
  [i \in 1 .. Cardinality(S) |-> CHOOSE x \in S : Cardinality(Below(S, x)) = i - 1]

(* One turn of the loop.  handlePaginationNextKey: the next key is         *)
(* followed if there is one; without one but with a total that has not     *)
(* been reached, a full page is followed by an offset, from then on.       *)
FetchFrom(from) ==
  LET more == from + PageLimit < items
      all  == fetched \o Ascending(Page(from) \ skipped)
  IN  \E keyGiven, totalGiven \in BOOLEAN :
        /\ keyGiven => more
        /\ fetched' = all
        /\ cut' = (cut \/ (more /\ ~keyGiven))
        /\ nextKey' = IF keyGiven THEN from + PageLimit ELSE nextKey
        /\ IF keyGiven
           THEN UNCHANGED <<useOffset, fetching>>
           ELSE IF totalGiven /\ Len(all) < items /\ Cardinality(Page(from)) = PageLimit
           THEN useOffset' = TRUE /\ UNCHANGED fetching
           ELSE fetching' = FALSE /\ UNCHANGED useOffset
        /\ UNCHANGED <<list, items, skipped>>

Fetch ==
  /\ fetching
  /\ Len(fetched) < MaxFetched
  /\ FetchFrom(IF useOffset THEN Offset ELSE nextKey)

(* GetCosmosTxs starts over until it has as many as the block has.         *)
FetchAgain ==
  /\ list = "txs"
  /\ ~fetching
  /\ Len(fetched) # items
  /\ fetched' = <<>>
  /\ nextKey' = 0
  /\ useOffset' = FALSE
  /\ fetching' = TRUE
  /\ UNCHANGED <<list, items, skipped, cut>>

RestNext == Fetch \/ FetchAgain

RestInit ==
  /\ list \in Lists
  /\ items \in 0 .. MaxItems
  /\ skipped \in IF list = "accounts" THEN SUBSET (1 .. items) ELSE {{}}
  /\ fetched = <<>>
  /\ nextKey = 0
  /\ useOffset = FALSE
  /\ fetching = TRUE
  /\ cut = FALSE

RestSpec == RestInit /\ [][RestNext]_restVars
-----------------------------------------------------------------------------
Wanted == Ascending((1 .. items) \ skipped)

(* Every page continues what has been fetched, and when the loop ends with *)
(* as many transactions as the block has they are all of them, each once,  *)
(* whatever keys and totals a node leaves out.  Balances and accounts are  *)
(* complete, too, if the node leaves out no key and the loop never goes    *)
(* over to offsets: the code then asks for offset 0, the first page, again *)
(* and again.  That happens without a missing key, too, when the last page *)
(* of accounts is full and some of them are left out                       *)
(* (handlePaginationNextKey, fetchAllTxsWithPagination, GetAllBalances).   *)
NodePagesExact ==
  list = "txs" \/ (~cut /\ ~useOffset) =>
    /\ IsPrefix(fetched, Wanted)
    /\ ~fetching /\ (list = "txs" => Len(fetched) = items) => fetched = Wanted
=============================================================================
