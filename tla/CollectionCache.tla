-------------------------- MODULE CollectionCache --------------------------
(***************************************************************************)
(* api/handler/nft/cache.go: the list of all collections that the search   *)
(* by name looks through, brought up to date by the requests themselves.   *)
(*                                                                         *)
(* A collection is its id; the clock is reduced to `recent`, whether the   *)
(* last update is younger than the polling interval.                       *)
(***************************************************************************)
EXTENDS Integers, Sequences, FiniteSets, SequencesExt

CONSTANTS
  Requests,       \* concurrent requests
  Collections,
  MaxColHeight    \* bound: heights at which collections are created

ASSUME CollectionCacheAssumption == IsFiniteSet(Collections) /\ MaxColHeight \in Nat

VARIABLES
  colHeight,              \* nft_collection: id -> height, for the ids in it
  collectionCacheByName,  \* ids, in the order they were appended
  lastUpdatedHeight,
  recent,
  updating,
  search,                 \* request -> [at, cols]
  late                    \* history: ids inserted with a height at which there already were some

searchVars ==
  <<colHeight, collectionCacheByName, lastUpdatedHeight, recent, updating, search, late>>

Stored   == DOMAIN colHeight
NoSearch == [at |-> "idle", cols |-> <<>>]

(* ORDER BY height ASC.                                                    *)
ByHeight(S) ==
  {s \in SetToSeqs(S) : \A i, j \in DOMAIN s : i < j => colHeight[s[i]] <= colHeight[s[j]]}
-----------------------------------------------------------------------------
(* The collector commits a block with new collections.  Each has the       *)
(* height of the block, or on evm that of the contract's first transaction *)
(* (getCollectionCreationInfo).                                            *)
InsertCollections ==
  \E S \in (SUBSET (Collections \ Stored)) \ {{}}, h \in 1 .. MaxColHeight :
    /\ colHeight' = [c \in Stored \union S |-> IF c \in S THEN h ELSE colHeight[c]]
    /\ late' = IF \E c \in Stored : colHeight[c] >= h THEN late \union S ELSE late
    /\ UNCHANGED <<collectionCacheByName, lastUpdatedHeight, recent, updating, search>>

PollingIntervalPasses ==
  /\ recent
  /\ recent' = FALSE
  /\ UNCHANGED <<colHeight, collectionCacheByName, lastUpdatedHeight, updating, search, late>>

(* A request that finds the list recent uses it as it is, which changes    *)
(* nothing here.                                                           *)
CheckRecent(r) ==
  /\ search[r].at = "idle"
  /\ ~recent
  /\ search' = [search EXCEPT ![r].at = "checked"]
  /\ UNCHANGED <<colHeight, collectionCacheByName, lastUpdatedHeight, recent, updating, late>>

(* Bug: the flag is set without a look at it.                              *)
tryUpdateCollectionCacheAlways(r) ==
  /\ search[r].at = "checked"
  /\ updating' = TRUE
  /\ search' = [search EXCEPT ![r].at = "update"]
  /\ UNCHANGED <<colHeight, collectionCacheByName, lastUpdatedHeight, recent, late>>

(* The CompareAndSwap of tryUpdateCollectionCache: one request at a time   *)
(* updates, the others use the list as it is.  The list may have become    *)
(* recent since the check.                                                 *)
tryUpdateCollectionCache(r) ==
  /\ search[r].at = "checked"
  /\ updating' = TRUE
  /\ search' = [search EXCEPT ![r].at = IF updating THEN "idle" ELSE "update"]
  /\ UNCHANGED <<colHeight, collectionCacheByName, lastUpdatedHeight, recent, late>>

(* updateCollectionCache reads what is above lastUpdatedHeight.  When that *)
(* fails or is nothing, the next request tries again at once.              *)
FindCollections(r) ==
  LET above == {c \in Stored : colHeight[c] > lastUpdatedHeight}
  IN  /\ search[r].at = "update"
      /\ \/ /\ above # {}
            /\ \E cols \in ByHeight(above) : search' = [search EXCEPT ![r] = [at |-> "append", cols |-> cols]]
            /\ UNCHANGED updating
         \/ /\ search' = [search EXCEPT ![r] = NoSearch]
            /\ updating' = FALSE
      /\ UNCHANGED <<colHeight, collectionCacheByName, lastUpdatedHeight, recent, late>>

(* The rest of it, under cacheMtx.                                         *)
AppendCollections(r) ==
  LET cols == search[r].cols
  IN  /\ search[r].at = "append"
      /\ collectionCacheByName' = collectionCacheByName \o cols
      /\ lastUpdatedHeight' = colHeight[Last(cols)]
      /\ recent' = TRUE
      /\ updating' = FALSE
      /\ search' = [search EXCEPT ![r] = NoSearch]
      /\ UNCHANGED <<colHeight, late>>

SearchNext ==
  \/ InsertCollections
  \/ PollingIntervalPasses
  \/ \E r \in Requests :
       \/ CheckRecent(r) \/ tryUpdateCollectionCache(r)
       \/ FindCollections(r) \/ AppendCollections(r)

SearchInit ==
  /\ colHeight = <<>>
  /\ collectionCacheByName = <<>>
  /\ lastUpdatedHeight = 0
  /\ recent = FALSE
  /\ updating = FALSE
  /\ search = [r \in Requests |-> NoSearch]
  /\ late = {}

SearchSpec == SearchInit /\ [][SearchNext]_searchVars
-----------------------------------------------------------------------------
(* The list has no collection twice and is ordered by height, however      *)
(* requests meet; it has every collection up to lastUpdatedHeight, but for *)
(* those that were inserted when one of their height was there already,    *)
(* which it may miss for ever; and when no request updates it, the next    *)
(* one may (tryUpdateCollectionCache, updateCollectionCache).              *)
CacheExact ==
  /\ \A i, j \in DOMAIN collectionCacheByName :
       i < j => /\ collectionCacheByName[i] # collectionCacheByName[j]
                /\ colHeight[collectionCacheByName[i]] <= colHeight[collectionCacheByName[j]]
  /\ \A c \in Stored \ late :
       colHeight[c] <= lastUpdatedHeight => c \in ToSet(collectionCacheByName)
  /\ updating <=> \E r \in Requests : search[r].at \in {"update", "append"}
=============================================================================
