---------------------------- MODULE ReadsProofs ----------------------------
(***************************************************************************)
(* Proofs about what is read while it is being written: the status, the    *)
(* list of collections that the search keeps, the lists that are fetched   *)
(* from a node, and the pages of the list endpoints.                       *)
(***************************************************************************)
EXTENDS Status, CollectionCache, RestPages, Pagination, FiniteSetTheorems, SequenceTheorems, TLAPS

-----------------------------------------------------------------------------
(* The status.                                                             *)

Places == {"idle", "load", "read", "swap", "exists", "answered"}

StatusTypes ==
  /\ hasTxs \in Seq(BOOLEAN)
  /\ traced \in 0 .. Len(hasTxs)
  /\ itxHeight \in 0 .. traced
  /\ lastEvmInternalTxHeight \in 0 .. traced
  /\ highest \in Nat
  /\ asked \in [Clients -> [at : Places, lastBlock : Nat, loaded : Nat, height : Nat]]

(* What a request has read was true when it read it, and the extension     *)
(* only moves on.                                                          *)
AskedInv ==
  \A c \in Clients :
    /\ asked[c].lastBlock <= Len(hasTxs)
    /\ asked[c].loaded <= traced
    /\ asked[c].at \in {"load", "read", "swap", "exists"} => asked[c].height <= traced

StatusInv == StatusTypes /\ AskedInv /\ StatusHonest

LEMMA StatusInvInit == StatusInit => StatusInv
  BY DEF StatusInit, StatusInv, StatusTypes, AskedInv, StatusHonest, NoStatus, Places

(* The chain and the extension only move on.                               *)
LEMMA StatusProgress ==
  ASSUME StatusInv,
         hasTxs' \in Seq(BOOLEAN), Len(hasTxs') >= Len(hasTxs),
         \A h \in 1 .. Len(hasTxs) : hasTxs'[h] = hasTxs[h],
         traced' \in traced .. Len(hasTxs'), itxHeight' \in 0 .. traced',
         UNCHANGED <<lastEvmInternalTxHeight, asked, highest>>
  PROVE  StatusInv'
<1>1. StatusTypes'
  BY DEF StatusInv, StatusTypes
<1>2. AskedInv'
  BY DEF StatusInv, StatusTypes, AskedInv
<1>3. StatusHonest'
  BY DEF StatusInv, StatusTypes, StatusHonest
<1> QED
  BY <1>1, <1>2, <1>3 DEF StatusInv

AskedType == [Clients -> [at : Places, lastBlock : Nat, loaded : Nat, height : Nat]]

(* What the steps of a request write.                                      *)
LEMMA AskedUpdate ==
  ASSUME NEW f \in AskedType, NEW c \in Clients, NEW at \in Places, NEW n \in Nat
  PROVE  /\ [f EXCEPT ![c].at = at, ![c].height = n] \in AskedType
         /\ [f EXCEPT ![c].at = at, ![c].height = n][c] = [f[c] EXCEPT !.at = at, !.height = n]
         /\ [f EXCEPT ![c].at = at, ![c].loaded = n] \in AskedType
         /\ [f EXCEPT ![c].at = at, ![c].loaded = n][c] = [f[c] EXCEPT !.at = at, !.loaded = n]
  BY DEF AskedType

(* A request that has not answered goes on with what is there.             *)
LEMMA StatusRead ==
  ASSUME StatusInv, NEW c \in Clients,
         asked' \in AskedType, \A d \in Clients \ {c} : asked'[d] = asked[d],
         asked'[c].at # "answered",
         asked'[c].lastBlock <= Len(hasTxs), asked'[c].loaded <= traced,
         asked'[c].height <= traced,
         lastEvmInternalTxHeight' \in 0 .. traced, highest' = lastEvmInternalTxHeight',
         UNCHANGED <<hasTxs, traced, itxHeight>>
  PROVE  StatusInv'
<1>1. StatusTypes'
  BY DEF StatusInv, StatusTypes, AskedType
<1>2. AskedInv'
  BY DEF StatusInv, StatusTypes, AskedInv
<1>3. StatusHonest'
  BY DEF StatusInv, StatusTypes, StatusHonest
<1> QED
  BY <1>1, <1>2, <1>3 DEF StatusInv

(* The compare-and-swap stores nothing smaller than what is stored.        *)
LEMMA SwapHeightInv ==
  ASSUME StatusInv, NEW c \in Clients, SwapHeight(c)
  PROVE  StatusInv'
<1>1. asked[c].at = "swap" /\ UNCHANGED <<hasTxs, traced, itxHeight>>
  BY DEF SwapHeight
<1>2. /\ asked[c].height \in 0 .. traced /\ asked[c].loaded \in 0 .. traced
      /\ lastEvmInternalTxHeight \in 0 .. traced /\ traced \in Nat
      /\ highest = lastEvmInternalTxHeight
  BY <1>1 DEF StatusInv, StatusTypes, AskedInv, StatusHonest
<1>3. ASSUME NEW height \in 0 .. traced,
             asked' = [asked EXCEPT ![c].at = "exists", ![c].height = height],
             lastEvmInternalTxHeight' \in 0 .. traced, highest' = lastEvmInternalTxHeight'
      PROVE  StatusInv'
  <2>1. asked' \in AskedType
    <3>1. asked \in AskedType /\ "exists" \in Places /\ height \in Nat
      BY <1>2 DEF StatusInv, StatusTypes, AskedType, Places
    <3> QED
      BY <1>3, <3>1, AskedUpdate
  <2>2. /\ \A d \in Clients \ {c} : asked'[d] = asked[d]
        /\ asked'[c].at = "exists" /\ asked'[c].height = height
        /\ asked'[c].lastBlock = asked[c].lastBlock /\ asked'[c].loaded = asked[c].loaded
    BY <1>3 DEF StatusInv, StatusTypes
  <2>3. asked[c].lastBlock <= Len(hasTxs)
    BY DEF StatusInv, AskedInv
  <2>4. /\ asked'[c].at # "answered" /\ asked'[c].lastBlock <= Len(hasTxs)
        /\ asked'[c].loaded <= traced /\ asked'[c].height <= traced
    BY <1>2, <2>2, <2>3
  <2> QED
    BY <1>1, <1>3, <2>1, <2>2, <2>4, StatusRead
<1>4. CASE asked[c].height > asked[c].loaded
  <2> DEFINE height == IF lastEvmInternalTxHeight = asked[c].loaded
                       THEN asked[c].height ELSE lastEvmInternalTxHeight
  <2>1. Keep(c, height)
    BY <1>4 DEF SwapHeight
  <2>2. height \in 0 .. traced /\ Larger(highest, height) = height
    BY <1>2, <1>4 DEF Larger
  <2> QED
    BY <1>3, <2>1, <2>2 DEF Keep
<1>5. CASE ~(asked[c].height > asked[c].loaded)
  BY <1>2, <1>3, <1>5 DEF SwapHeight
<1> QED
  BY <1>4, <1>5

(* The answer is either what was read, up to which all is traced, or the   *)
(* last block, when no block above has transactions.                       *)
LEMMA AnswerInv ==
  ASSUME StatusInv, NEW c \in Clients, Answer(c)
  PROVE  StatusInv'
<1> DEFINE exists == \E h \in DOMAIN hasTxs : h > asked[c].height /\ hasTxs[h]
           height == IF exists THEN asked[c].height ELSE asked[c].lastBlock
<1>1. /\ asked[c].at = "exists"
      /\ UNCHANGED <<hasTxs, traced, itxHeight, lastEvmInternalTxHeight, highest>>
      /\ asked' = [asked EXCEPT ![c].at = "answered", ![c].height = height]
  BY DEF Answer
<1>2. height \in Nat /\ asked[c].height <= traced /\ asked[c].lastBlock <= Len(hasTxs)
  BY <1>1 DEF StatusInv, StatusTypes, AskedInv
<1>3. \A h \in 1 .. height : h \in DOMAIN hasTxs /\ (hasTxs[h] => h <= traced)
  BY <1>2 DEF StatusInv, StatusTypes
<1>4. StatusTypes'
  BY <1>1, <1>2, ZenonT(40) DEF StatusInv, StatusTypes, Places
<1>5. AskedInv'
  BY <1>1 DEF StatusInv, StatusTypes, AskedInv
<1>6. StatusHonest'
  BY <1>1, <1>3 DEF StatusInv, StatusTypes, StatusHonest
<1> QED
  BY <1>4, <1>5, <1>6 DEF StatusInv

LEMMA StatusInvNext == StatusInv /\ [StatusNext]_statusVars => StatusInv'
<1> SUFFICES ASSUME StatusInv, [StatusNext]_statusVars PROVE StatusInv'
  OBVIOUS
<1>1. CASE UNCHANGED statusVars
  BY <1>1 DEF statusVars, StatusInv, StatusTypes, AskedInv, StatusHonest
<1>2. CASE CommitBlock
  BY <1>2, StatusProgress DEF CommitBlock, StatusInv, StatusTypes
<1>3. CASE IndexInternal
  BY <1>3, StatusProgress DEF IndexInternal, StatusInv, StatusTypes
<1>4. ASSUME NEW c \in Clients, ReadLastBlock(c) \/ LoadHeight(c) \/ ReadInternal(c)
      PROVE  StatusInv'
  <2>1. /\ UNCHANGED <<hasTxs, traced, itxHeight, lastEvmInternalTxHeight, highest>>
        /\ lastEvmInternalTxHeight \in 0 .. traced /\ highest = lastEvmInternalTxHeight
    BY <1>4 DEF ReadLastBlock, LoadHeight, ReadInternal, StatusInv, StatusTypes, StatusHonest
  <2>2. \A d \in Clients \ {c} : asked'[d] = asked[d]
    BY <1>4 DEF ReadLastBlock, LoadHeight, ReadInternal, StatusInv, StatusTypes
  <2>3. /\ asked \in AskedType /\ "load" \in Places /\ "read" \in Places /\ "swap" \in Places
        /\ traced \in Nat /\ itxHeight \in Nat /\ itxHeight <= traced /\ Len(hasTxs) \in Nat
        /\ lastEvmInternalTxHeight \in Nat /\ lastEvmInternalTxHeight <= traced
    BY DEF StatusInv, StatusTypes, AskedType, Places
  <2>4. CASE ReadLastBlock(c)
    <3> DEFINE s == [NoStatus EXCEPT !.at = "load", !.lastBlock = Len(hasTxs)]
    <3>1. /\ s \in [at : Places, lastBlock : Nat, loaded : Nat, height : Nat]
          /\ s.at = "load" /\ s.lastBlock = Len(hasTxs) /\ s.loaded = 0 /\ s.height = 0
      BY <2>3 DEF NoStatus
    <3>2. asked' \in AskedType /\ asked'[c] = s
      <4>1. asked' = [asked EXCEPT ![c] = s]
        BY <2>4 DEF ReadLastBlock
      <4> HIDE DEF s
      <4> QED
        BY <2>3, <3>1, <4>1 DEF AskedType
    <3> HIDE DEF s
    <3> QED
      BY <2>1, <2>2, <2>3, <3>1, <3>2, StatusRead
  <2>5. CASE LoadHeight(c)
    <3>1. asked' = [asked EXCEPT ![c].at = "read", ![c].loaded = lastEvmInternalTxHeight]
      BY <2>5 DEF LoadHeight
    <3>2. asked' \in AskedType
      BY <2>1, <2>3, <3>1, AskedUpdate
    <3>3. /\ asked'[c].at = "read" /\ asked'[c].loaded = lastEvmInternalTxHeight
          /\ asked'[c].lastBlock = asked[c].lastBlock /\ asked'[c].height = asked[c].height
      BY <2>3, <3>1 DEF AskedType
    <3>4. asked[c].lastBlock <= Len(hasTxs) /\ asked[c].height <= traced
      BY <2>5 DEF LoadHeight, StatusInv, AskedInv
    <3> QED
      BY <2>1, <2>2, <2>3, <3>2, <3>3, <3>4, StatusRead
  <2>6. CASE ReadInternal(c)
    <3>1. asked' = [asked EXCEPT ![c].at = "swap", ![c].height = itxHeight]
      BY <2>6 DEF ReadInternal
    <3>2. asked' \in AskedType
      BY <2>3, <3>1, AskedUpdate
    <3>3. /\ asked'[c].at = "swap" /\ asked'[c].height = itxHeight
          /\ asked'[c].lastBlock = asked[c].lastBlock /\ asked'[c].loaded = asked[c].loaded
      BY <2>3, <3>1 DEF AskedType
    <3>4. asked[c].lastBlock <= Len(hasTxs) /\ asked[c].loaded <= traced
      BY DEF StatusInv, AskedInv
    <3> QED
      BY <2>1, <2>2, <2>3, <3>2, <3>3, <3>4, StatusRead
  <2> QED
    BY <1>4, <2>4, <2>5, <2>6
<1> QED
  BY <1>1, <1>2, <1>3, <1>4, SwapHeightInv, AnswerInv DEF StatusNext

(* GET /status claims no height below which a block with transactions is   *)
(* still to be traced, and the height kept between requests never goes     *)
(* back, for any number of requests at once and blocks.                    *)
THEOREM StatusIsHonest == StatusSpec => []StatusHonest
<1>1. StatusInv => StatusHonest
  BY DEF StatusInv
<1> QED
  BY <1>1, StatusInvInit, StatusInvNext, PTL DEF StatusSpec
-----------------------------------------------------------------------------
(* The list of collections.                                                *)

Busy == {"update", "append"}

SearchTypes ==
  /\ colHeight \in [Stored -> 1 .. MaxColHeight]
  /\ Stored \subseteq Collections
  /\ collectionCacheByName \in Seq(Stored)
  /\ lastUpdatedHeight \in 0 .. MaxColHeight
  /\ updating \in BOOLEAN
  /\ search \in [Requests -> [at : {"idle", "checked"} \union Busy, cols : Seq(Collections)]]
  /\ late \subseteq Stored

(* lastUpdatedHeight is the height of a collection, and no collection in   *)
(* the list is above it.                                                   *)
CachedInv ==
  /\ \A i \in DOMAIN collectionCacheByName :
       colHeight[collectionCacheByName[i]] <= lastUpdatedHeight
  /\ lastUpdatedHeight # 0 => \E c \in Stored : colHeight[c] = lastUpdatedHeight

(* What the query found is above the list, in order, and has all that is   *)
(* not late up to its last.                                                *)
Found(cols) ==
  /\ cols # <<>>
  /\ cols \in Seq(Stored)
  /\ \A i, j \in DOMAIN cols :
       i < j => cols[i] # cols[j] /\ colHeight[cols[i]] <= colHeight[cols[j]]
  /\ \A i \in DOMAIN cols : colHeight[cols[i]] > lastUpdatedHeight
  /\ \A c \in Stored \ late :
       lastUpdatedHeight < colHeight[c] /\ colHeight[c] <= colHeight[cols[Len(cols)]]
         => \E i \in DOMAIN cols : cols[i] = c

FoundInv ==
  \A r \in Requests : search[r].at = "append" => Found(search[r].cols)

(* The flag admits one request.                                            *)
OneUpdates ==
  \A q, r \in Requests : search[q].at \in Busy /\ search[r].at \in Busy => q = r

SearchInv ==
  /\ SearchTypes
  /\ CachedInv
  /\ FoundInv
  /\ OneUpdates
  /\ CacheExact

(* A sequence of a finite set without repetition has all of it.            *)
LEMMA SeqOfSet ==
  ASSUME NEW S, IsFiniteSet(S), NEW s \in SetToSeqs(S)
  PROVE  /\ s \in Seq(S) /\ Len(s) = Cardinality(S)
         /\ \A c \in S : \E i \in DOMAIN s : s[i] = c
         /\ \A i, j \in DOMAIN s : i < j => s[i] # s[j]
<1>1. /\ s \in Seq(S) /\ Len(s) = Cardinality(S) /\ Cardinality(S) \in Nat
      /\ \A i, j \in DOMAIN s : i # j => s[i] # s[j]
  BY FS_CardinalityType DEF SetToSeqs
<1>2. s \in Injection(1 .. Cardinality(S), S)
  BY FS_CardinalityType DEF SetToSeqs, Injection, IsInjective
<1>3. s \in Surjection(1 .. Cardinality(S), S)
  BY <1>2, FS_Injection, FS_CardinalityType, FS_Interval
<1>4. \A i, j \in DOMAIN s : i < j => s[i] # s[j]
  <2> SUFFICES ASSUME NEW i \in DOMAIN s, NEW j \in DOMAIN s, i < j PROVE s[i] # s[j]
    OBVIOUS
  <2>1. i # j
    BY <1>1
  <2> QED
    BY <1>1, <2>1
<1> QED
  BY <1>1, <1>3, <1>4 DEF Surjection

LEMMA SearchInvInit == SearchInit => SearchInv
<1> SUFFICES ASSUME SearchInit PROVE SearchInv
  OBVIOUS
<1>1. Stored = {}
  BY DEF SearchInit, Stored
<1>2. SearchTypes
  <2>1. colHeight \in [Stored -> 1 .. MaxColHeight] /\ collectionCacheByName \in Seq(Stored)
    BY <1>1 DEF SearchInit
  <2>2. search \in [Requests -> [at : {"idle", "checked"} \union Busy, cols : Seq(Collections)]]
    BY DEF SearchInit, NoSearch
  <2>3. /\ Stored \subseteq Collections /\ lastUpdatedHeight \in 0 .. MaxColHeight
        /\ late \subseteq Stored
    BY <1>1, CollectionCacheAssumption DEF SearchInit
  <2>4. updating \in BOOLEAN
    BY DEF SearchInit
  <2> QED
    BY <2>1, <2>2, <2>3, <2>4 DEF SearchTypes
<1>3. CachedInv /\ FoundInv /\ OneUpdates
  BY DEF SearchInit, CachedInv, FoundInv, OneUpdates, NoSearch, Busy
<1>4. CacheExact
  BY <1>1 DEF SearchInit, CacheExact, NoSearch
<1> QED
  BY <1>2, <1>3, <1>4 DEF SearchInv

(* New collections: one with a height that is there already is late, the   *)
(* others are above everything the list or a query has.                    *)
LEMMA InsertCollectionsInv ==
  ASSUME SearchInv, InsertCollections
  PROVE  SearchInv'
<1>1. PICK S \in SUBSET (Collections \ Stored), h \in 1 .. MaxColHeight :
        /\ S # {}
        /\ colHeight' = [c \in Stored \union S |-> IF c \in S THEN h ELSE colHeight[c]]
        /\ late' = IF \E c \in Stored : colHeight[c] >= h THEN late \union S ELSE late
        /\ UNCHANGED <<collectionCacheByName, lastUpdatedHeight, recent, updating, search>>
  BY DEF InsertCollections
<1>2. /\ Stored' = Stored \union S
      /\ \A c \in Stored : colHeight'[c] = colHeight[c]
      /\ \A c \in S : colHeight'[c] = h
  BY <1>1 DEF Stored
<1>3. \A c \in Stored' \ late' : c \in Stored \ late \/ \A d \in Stored : colHeight[d] < colHeight'[c]
  BY <1>1, <1>2 DEF SearchInv, SearchTypes
<1>4. SearchTypes'
  <2>1. colHeight' \in [Stored' -> 1 .. MaxColHeight]
    BY <1>1, <1>2 DEF SearchInv, SearchTypes
  <2>2. collectionCacheByName' \in Seq(Stored')
    BY <1>1, <1>2 DEF SearchInv, SearchTypes
  <2> QED
    BY <1>1, <1>2, <2>1, <2>2 DEF SearchInv, SearchTypes
<1>5. \A i \in DOMAIN collectionCacheByName : collectionCacheByName[i] \in Stored
  BY DEF SearchInv, SearchTypes
<1>6. CachedInv'
  BY <1>1, <1>2, <1>5 DEF SearchInv, CachedInv
<1>7. ASSUME NEW cols, Found(cols)
      PROVE  Found(cols)'
  <2>1. cols # <<>> /\ cols \in Seq(Stored) /\ cols \in Seq(Stored') /\ Len(cols) \in DOMAIN cols
    BY <1>2, <1>7 DEF Found
  <2>2. \A i \in DOMAIN cols : cols[i] \in Stored
    BY <2>1
  <2>3. ASSUME NEW c \in Stored' \ late', lastUpdatedHeight < colHeight'[c],
               colHeight'[c] <= colHeight'[cols[Len(cols)]]
        PROVE  \E i \in DOMAIN cols : cols[i] = c
    <3>1. c \in Stored \ late
      BY <1>2, <1>3, <2>1, <2>2, <2>3 DEF SearchInv, SearchTypes
    <3> QED
      BY <1>2, <1>7, <2>1, <2>2, <2>3, <3>1 DEF Found
  <2> QED
    BY <1>1, <1>2, <1>7, <2>1, <2>2, <2>3 DEF Found
<1>8. FoundInv'
  BY <1>1, <1>7 DEF SearchInv, FoundInv
<1>9. OneUpdates'
  BY <1>1 DEF SearchInv, OneUpdates
<1>10. CacheExact'
  <2>1. ASSUME NEW c \in Stored' \ late', colHeight'[c] <= lastUpdatedHeight
        PROVE  c \in Stored \ late
    <3>1. colHeight'[c] \in 1 .. MaxColHeight
      BY <1>4 DEF SearchTypes
    <3>2. \E d \in Stored : colHeight[d] = lastUpdatedHeight
      BY <2>1, <3>1 DEF SearchInv, CachedInv, SearchTypes
    <3> QED
      BY <1>3, <2>1, <3>1, <3>2 DEF SearchInv, SearchTypes
  <2> QED
    BY <1>1, <1>2, <1>5, <2>1, ZenonT(40) DEF SearchInv, CacheExact
<1> QED
  BY <1>4, <1>6, <1>8, <1>9, <1>10 DEF SearchInv

(* The flag, and the places of the requests, apart from the collections.   *)
LEMMA SearchMoves ==
  ASSUME SearchInv, NEW r \in Requests,
         UNCHANGED <<colHeight, collectionCacheByName, lastUpdatedHeight, late>>,
         updating' \in BOOLEAN,
         search' \in [Requests -> [at : {"idle", "checked"} \union Busy, cols : Seq(Collections)]],
         \A q \in Requests \ {r} : search'[q] = search[q],
         search'[r].at = "append" => Found(search'[r].cols),
         \/ search'[r].at \notin Busy /\ search[r].at \notin Busy /\ updating' = updating
         \/ search'[r].at \in Busy /\ updating' /\ (updating => search[r].at \in Busy)
         \/ search'[r].at \notin Busy /\ search[r].at \in Busy /\ ~updating'
  PROVE  SearchInv'
<1>1. Stored' = Stored /\ \A cols : Found(cols)' <=> Found(cols)
  BY DEF Stored, Found
<1>2. SearchTypes'
  BY <1>1 DEF SearchInv, SearchTypes
<1>3. CachedInv'
  BY <1>1 DEF SearchInv, CachedInv
<1>4. FoundInv'
  BY <1>1 DEF SearchInv, FoundInv
<1>5. updating <=> \E q \in Requests : search[q].at \in Busy
  BY DEF SearchInv, CacheExact, Busy
<1>6. OneUpdates'
  BY <1>5 DEF SearchInv, OneUpdates
<1>7. updating' <=> \E q \in Requests : search'[q].at \in Busy
  BY <1>5, SMTT(30) DEF SearchInv, OneUpdates
<1>8. CacheExact'
  BY <1>1, <1>7 DEF SearchInv, CacheExact, Busy
<1> QED
  BY <1>2, <1>3, <1>4, <1>6, <1>8 DEF SearchInv

(* updateCollectionCache reads what is above lastUpdatedHeight, in order.  *)
LEMMA FindCollectionsInv ==
  ASSUME SearchInv, NEW r \in Requests, FindCollections(r)
  PROVE  SearchInv'
<1> DEFINE above == {c \in Stored : colHeight[c] > lastUpdatedHeight}
<1>1. /\ search[r].at = "update"
      /\ UNCHANGED <<colHeight, collectionCacheByName, lastUpdatedHeight, recent, late>>
  BY DEF FindCollections
<1>2. ASSUME NEW cols \in ByHeight(above), above # {},
             search' = [search EXCEPT ![r] = [at |-> "append", cols |-> cols]],
             UNCHANGED updating
      PROVE  SearchInv'
  <2>1. IsFiniteSet(above)
    BY FS_Subset, CollectionCacheAssumption DEF SearchInv, SearchTypes
  <2>2. /\ cols \in SetToSeqs(above)
        /\ \A i, j \in DOMAIN cols : i < j => colHeight[cols[i]] <= colHeight[cols[j]]
    BY <1>2 DEF ByHeight
  <2>3. /\ cols \in Seq(above) /\ Len(cols) = Cardinality(above)
        /\ \A c \in above : \E i \in DOMAIN cols : cols[i] = c
        /\ \A i, j \in DOMAIN cols : i < j => cols[i] # cols[j]
    BY <2>1, <2>2, SeqOfSet
  <2>4. /\ above \subseteq Stored /\ Stored \subseteq Collections
        /\ \A c \in Stored : c \in above <=> colHeight[c] > lastUpdatedHeight
        /\ \A c \in Stored : colHeight[c] \in Nat /\ lastUpdatedHeight \in Nat
    BY DEF SearchInv, SearchTypes
  <2> HIDE DEF above
  <2>5. cols \in Seq(Stored) /\ cols \in Seq(Collections) /\ \A i \in DOMAIN cols : cols[i] \in above
    BY <2>3, <2>4
  <2>6. cols # <<>>
    BY <1>2, <2>3
  <2>7. Found(cols)
    BY <2>2, <2>3, <2>4, <2>5, <2>6 DEF Found
  <2>8. /\ search' \in [Requests -> [at : {"idle", "checked"} \union Busy, cols : Seq(Collections)]]
        /\ search'[r].at = "append" /\ search'[r].cols = cols
        /\ \A q \in Requests \ {r} : search'[q] = search[q]
    BY <1>2, <2>5 DEF SearchInv, SearchTypes, Busy
  <2>9. updating /\ updating' \in BOOLEAN
    BY <1>1, <1>2 DEF SearchInv, SearchTypes, CacheExact
  <2> QED
    BY <1>1, <1>2, <2>7, <2>8, <2>9, SearchMoves DEF Busy
<1>3. ASSUME search' = [search EXCEPT ![r] = NoSearch], updating' = FALSE
      PROVE  SearchInv'
  <2>1. /\ search' \in [Requests -> [at : {"idle", "checked"} \union Busy, cols : Seq(Collections)]]
        /\ search'[r].at = "idle"
        /\ \A q \in Requests \ {r} : search'[q] = search[q]
    BY <1>3 DEF SearchInv, SearchTypes, NoSearch
  <2> QED
    BY <1>1, <1>3, <2>1, SearchMoves DEF Busy
<1> QED
  BY <1>2, <1>3 DEF FindCollections

(* A collection that was found is appended above the others.               *)
LEMMA AppendCollectionsInv ==
  ASSUME SearchInv, NEW r \in Requests, AppendCollections(r)
  PROVE  SearchInv'
<1> DEFINE cols == search[r].cols
           old == collectionCacheByName
<1>1. /\ search[r].at = "append"
      /\ collectionCacheByName' = old \o cols
      /\ lastUpdatedHeight' = colHeight[Last(cols)]
      /\ recent' = TRUE /\ updating' = FALSE
      /\ search' = [search EXCEPT ![r] = NoSearch]
      /\ UNCHANGED <<colHeight, late>>
  BY DEF AppendCollections
<1>2. Found(cols) /\ Stored' = Stored
  BY <1>1 DEF SearchInv, FoundInv, Stored
<1> HIDE DEF cols, old
<1>3. /\ cols \in Seq(Stored) /\ old \in Seq(Stored)
      /\ Len(cols) \in DOMAIN cols /\ Last(cols) = cols[Len(cols)]
      /\ \A i \in DOMAIN cols : cols[i] \in Stored
      /\ \A i \in DOMAIN old : old[i] \in Stored
  BY <1>2 DEF Found, SearchInv, SearchTypes, Last, old
<1>4. /\ old \o cols \in Seq(Stored)
      /\ DOMAIN (old \o cols) = 1 .. Len(old) + Len(cols)
      /\ \A i \in 1 .. Len(old) : (old \o cols)[i] = old[i]
      /\ \A i \in 1 .. Len(old) + Len(cols) : i > Len(old) => (old \o cols)[i] = cols[i - Len(old)]
  BY <1>3
<1>5. /\ search' \in [Requests -> [at : {"idle", "checked"} \union Busy, cols : Seq(Collections)]]
      /\ search'[r].at = "idle"
      /\ \A q \in Requests \ {r} : search'[q] = search[q]
  BY <1>1 DEF SearchInv, SearchTypes, NoSearch
<1>6. \A q \in Requests : search'[q].at \notin Busy
  BY <1>1, <1>5 DEF SearchInv, OneUpdates, Busy
<1>7. \A c \in Stored : colHeight[c] \in 1 .. MaxColHeight
  BY DEF SearchInv, SearchTypes
<1>8. lastUpdatedHeight' \in 1 .. MaxColHeight /\ lastUpdatedHeight < lastUpdatedHeight'
      /\ lastUpdatedHeight \in Nat
  BY <1>1, <1>2, <1>3, <1>7 DEF Found, SearchInv, SearchTypes
<1>9. SearchTypes'
  <2>1. collectionCacheByName' \in Seq(Stored') /\ lastUpdatedHeight' \in 0 .. MaxColHeight
    BY <1>1, <1>2, <1>4, <1>8
  <2>2. colHeight' \in [Stored' -> 1 .. MaxColHeight] /\ Stored' \subseteq Collections
        /\ late' \subseteq Stored'
    BY <1>1, <1>2 DEF SearchInv, SearchTypes
  <2>3. updating' \in BOOLEAN
    BY <1>1
  <2> QED
    BY <1>5, <2>1, <2>2, <2>3 DEF SearchTypes
<1>10. /\ \A i \in 1 .. Len(old) : colHeight[old[i]] <= lastUpdatedHeight
       /\ \A i \in DOMAIN cols : lastUpdatedHeight < colHeight[cols[i]]
                                 /\ colHeight[cols[i]] <= lastUpdatedHeight'
  <2>1. \A i \in 1 .. Len(old) : colHeight[old[i]] <= lastUpdatedHeight
    BY <1>3 DEF SearchInv, CachedInv, old
  <2>2. ASSUME NEW i \in DOMAIN cols PROVE colHeight[cols[i]] <= lastUpdatedHeight'
    <3>1. CASE i = Len(cols)
      BY <1>1, <1>3, <1>7, <3>1
    <3>2. CASE i < Len(cols)
      BY <1>1, <1>2, <1>3, <3>2 DEF Found
    <3> QED
      BY <1>3, <3>1, <3>2
  <2> QED
    BY <1>2, <2>1, <2>2 DEF Found
<1>11. CachedInv'
  <2>1. ASSUME NEW i \in 1 .. Len(old) + Len(cols)
        PROVE  colHeight[(old \o cols)[i]] <= lastUpdatedHeight'
    <3>1. CASE i <= Len(old)
      BY <1>3, <1>4, <1>7, <1>8, <1>10, <3>1
    <3>2. CASE i > Len(old)
      BY <1>3, <1>4, <1>10, <3>2
    <3> QED
      BY <1>3, <3>1, <3>2
  <2> QED
    BY <1>1, <1>2, <1>3, <1>4, <2>1 DEF CachedInv
<1>12. FoundInv' /\ OneUpdates'
  BY <1>6 DEF FoundInv, OneUpdates, Busy
<1>13. ASSUME NEW i \in 1 .. Len(old) + Len(cols), NEW j \in 1 .. Len(old) + Len(cols), i < j
       PROVE  /\ (old \o cols)[i] # (old \o cols)[j]
              /\ colHeight[(old \o cols)[i]] <= colHeight[(old \o cols)[j]]
  <2>1. CASE j <= Len(old)
    <3>1. i \in DOMAIN old /\ j \in DOMAIN old
      BY <1>3, <1>13, <2>1
    <3>2. old[i] # old[j] /\ colHeight[old[i]] <= colHeight[old[j]]
      BY <1>13, <3>1 DEF SearchInv, CacheExact, old
    <3> QED
      BY <1>3, <1>4, <3>1, <3>2
  <2>2. CASE i <= Len(old) /\ j > Len(old)
    <3>1. i \in DOMAIN old /\ j - Len(old) \in DOMAIN cols
      BY <1>3, <2>2
    <3>2. (old \o cols)[i] = old[i] /\ (old \o cols)[j] = cols[j - Len(old)]
      BY <1>3, <1>4, <2>2
    <3>3. colHeight[old[i]] <= lastUpdatedHeight /\ lastUpdatedHeight < colHeight[cols[j - Len(old)]]
      BY <1>3, <1>10, <3>1
    <3>4. colHeight[old[i]] \in Nat /\ colHeight[cols[j - Len(old)]] \in Nat
      BY <1>3, <1>7, <3>1
    <3> QED
      BY <1>8, <3>2, <3>3, <3>4, SMTT(30)
  <2>3. CASE i > Len(old)
    <3>1. i - Len(old) \in DOMAIN cols /\ j - Len(old) \in DOMAIN cols /\ i - Len(old) < j - Len(old)
      BY <1>3, <1>13, <2>3
    <3>2. (old \o cols)[i] = cols[i - Len(old)] /\ (old \o cols)[j] = cols[j - Len(old)]
      BY <1>3, <1>4, <1>13, <2>3
    <3> QED
      BY <1>2, <3>1, <3>2 DEF Found
  <2> QED
    BY <1>3, <2>1, <2>2, <2>3
<1>14. ASSUME NEW c \in Stored \ late, colHeight[c] <= lastUpdatedHeight'
       PROVE  c \in ToSet(old \o cols)
  <2>1. CASE colHeight[c] <= lastUpdatedHeight
    <3>1. c \in ToSet(old)
      BY <2>1 DEF SearchInv, CacheExact, old
    <3>2. PICK i \in DOMAIN old : old[i] = c
      BY <3>1 DEF ToSet
    <3>3. i \in DOMAIN (old \o cols) /\ (old \o cols)[i] = c
      BY <1>3, <1>4, <3>2
    <3> QED
      BY <3>3 DEF ToSet
  <2>2. CASE lastUpdatedHeight < colHeight[c]
    <3>1. PICK i \in DOMAIN cols : cols[i] = c
      BY <1>1, <1>2, <1>3, <1>14, <2>2 DEF Found
    <3>2. Len(old) + i \in DOMAIN (old \o cols) /\ (old \o cols)[Len(old) + i] = c
      BY <1>3, <1>4, <3>1
    <3> QED
      BY <3>2 DEF ToSet
  <2> QED
    BY <1>7, <1>8, <2>1, <2>2
<1>15. CacheExact'
  BY <1>1, <1>2, <1>4, <1>6, <1>13, <1>14 DEF CacheExact, Busy
<1> QED
  BY <1>9, <1>11, <1>12, <1>15 DEF SearchInv

LEMMA SearchInvNext == SearchInv /\ [SearchNext]_searchVars => SearchInv'
<1> SUFFICES ASSUME SearchInv, [SearchNext]_searchVars PROVE SearchInv'
  OBVIOUS
<1>1. CASE UNCHANGED searchVars \/ PollingIntervalPasses
  <2>1. UNCHANGED <<colHeight, collectionCacheByName, lastUpdatedHeight, updating, search, late>>
    BY <1>1 DEF searchVars, PollingIntervalPasses
  <2>2. Stored' = Stored /\ \A cols : Found(cols)' <=> Found(cols)
    BY <2>1 DEF Stored, Found
  <2> QED
    BY <2>1, <2>2 DEF SearchInv, SearchTypes, CachedInv, FoundInv, OneUpdates, CacheExact
<1>2. CASE InsertCollections
  BY <1>2, InsertCollectionsInv
<1>3. ASSUME NEW r \in Requests, CheckRecent(r) \/ tryUpdateCollectionCache(r)
      PROVE  SearchInv'
  <2>1. PICK place \in {"idle", "checked", "update"} :
          /\ search[r].at \notin Busy
          /\ UNCHANGED <<colHeight, collectionCacheByName, lastUpdatedHeight, recent, late>>
          /\ search' = [search EXCEPT ![r].at = place]
          /\ updating' \in BOOLEAN
          /\ IF place = "update" THEN ~updating /\ updating' ELSE updating' = updating
    BY <1>3 DEF CheckRecent, tryUpdateCollectionCache, SearchInv, SearchTypes, Busy
  <2>2. /\ search' \in [Requests -> [at : {"idle", "checked"} \union Busy, cols : Seq(Collections)]]
        /\ search'[r].at = place
        /\ \A q \in Requests \ {r} : search'[q] = search[q]
    BY <2>1 DEF SearchInv, SearchTypes, Busy
  <2> QED
    BY <2>1, <2>2, SearchMoves DEF Busy
<1> QED
  BY <1>1, <1>2, <1>3, FindCollectionsInv, AppendCollectionsInv DEF SearchNext

(* The list of the search has no collection twice, is ordered, misses only *)
(* collections that were late, and can always be updated again, for any    *)
(* number of requests at once, collections and heights.                    *)
THEOREM CacheIsExact == SearchSpec => []CacheExact
<1>1. SearchInv => CacheExact
  BY DEF SearchInv
<1> QED
  BY <1>1, SearchInvInit, SearchInvNext, PTL DEF SearchSpec
-----------------------------------------------------------------------------
(* The lists that are fetched from a node.                                 *)

(* The elements of a set of numbers have the ranks 0, 1, ... each once.    *)
LEMMA Ranks ==
  ASSUME NEW S \in SUBSET Nat, IsFiniteSet(S)
  PROVE  /\ Cardinality(S) \in Nat
         /\ \A x \in S : Cardinality(Below(S, x)) \in 0 .. Cardinality(S) - 1
         /\ \A x, y \in S : Cardinality(Below(S, x)) = Cardinality(Below(S, y)) => x = y
         /\ \A i \in 1 .. Cardinality(S) : \E x \in S : Cardinality(Below(S, x)) = i - 1
<1> DEFINE n == Cardinality(S)
           rank(x) == Cardinality(Below(S, x))
           f == [x \in S |-> rank(x)]
<1>1. n \in Nat
  BY FS_CardinalityType
<1>2. ASSUME NEW x \in S PROVE IsFiniteSet(Below(S, x)) /\ rank(x) \in Nat
  <2>1. Below(S, x) \in SUBSET S
    BY DEF Below
  <2> QED
    BY <2>1, FS_Subset, FS_CardinalityType
<1>3. ASSUME NEW x \in S PROVE rank(x) < n
  <2>1. Below(S, x) \in SUBSET S /\ Below(S, x) # S
    BY DEF Below
  <2>2. rank(x) <= n /\ (n = rank(x) => S = Below(S, x))
    BY <2>1, FS_Subset
  <2> QED
    BY <1>1, <1>2, <2>1, <2>2
<1>4. ASSUME NEW x \in S, NEW y \in S, x < y PROVE rank(x) < rank(y)
  <2>1. Below(S, x) \in SUBSET Below(S, y) /\ Below(S, x) # Below(S, y)
    <3>1. x \in Nat /\ y \in Nat
      OBVIOUS
    <3>2. ASSUME NEW z \in S, z < x PROVE z < y
      <4>1. z \in Nat
        OBVIOUS
      <4> QED
        BY <1>4, <3>1, <3>2, <4>1
    <3>3. x \in Below(S, y) /\ x \notin Below(S, x)
      BY <1>4, <3>1 DEF Below
    <3>4. Below(S, x) \in SUBSET Below(S, y)
      BY <3>2 DEF Below
    <3> QED
      BY <3>3, <3>4
  <2>2. IsFiniteSet(Below(S, y))
    BY <1>2
  <2>3. rank(x) <= rank(y) /\ (rank(y) = rank(x) => Below(S, y) = Below(S, x))
    BY <2>1, <2>2, FS_Subset
  <2>4. rank(x) \in Nat /\ rank(y) \in Nat
    BY <1>2
  <2> QED
    BY <2>1, <2>3, <2>4
<1>5. ASSUME NEW x \in S, NEW y \in S, rank(x) = rank(y) PROVE x = y
  <2>1. x \in Nat /\ y \in Nat /\ rank(x) \in Nat /\ rank(y) \in Nat
    BY <1>2
  <2>2. (x < y => rank(x) < rank(y)) /\ (y < x => rank(y) < rank(x))
    BY <1>4
  <2> HIDE DEF rank
  <2> QED
    BY <1>5, <2>1, <2>2
<1>6. f \in [S -> 0 .. n - 1]
  <2> HIDE DEF rank, n
  <2> QED
    BY <1>1, <1>2, <1>3
<1>7. f \in Injection(S, 0 .. n - 1)
  <2> HIDE DEF rank, n
  <2> QED
    BY <1>5, <1>6 DEF Injection, IsInjective
<1>8. IsFiniteSet(0 .. n - 1) /\ Cardinality(0 .. n - 1) = n
  <2>1. n - 1 \in Int /\ 0 \in Int
    BY <1>1
  <2> HIDE DEF n
  <2>2. IsFiniteSet(0 .. n - 1) /\ Cardinality(0 .. n - 1) = IF 0 > n - 1 THEN 0 ELSE n - 1 - 0 + 1
    BY <2>1, FS_Interval
  <2> QED
    BY <1>1, <2>2
<1>9. f \in Surjection(S, 0 .. n - 1)
  BY <1>7, <1>8, FS_Injection
<1>10. \A i \in 1 .. n : \E x \in S : rank(x) = i - 1
  <2> SUFFICES ASSUME NEW i \in 1 .. n PROVE \E x \in S : rank(x) = i - 1
    OBVIOUS
  <2> HIDE DEF rank, n
  <2>1. i - 1 \in 0 .. n - 1
    BY <1>1
  <2>2. PICK x \in S : f[x] = i - 1
    BY <1>9, <2>1 DEF Surjection
  <2> QED
    BY <2>2
<1> QED
  BY <1>1, <1>2, <1>3, <1>5, <1>10

LEMMA AscendingIs ==
  ASSUME NEW S \in SUBSET Nat, IsFiniteSet(S)
  PROVE  /\ Ascending(S) \in Seq(Nat)
         /\ Len(Ascending(S)) = Cardinality(S)
         /\ Cardinality(S) \in Nat
         /\ \A i \in 1 .. Cardinality(S) :
              Ascending(S)[i] \in S /\ Cardinality(Below(S, Ascending(S)[i])) = i - 1
<1>1. Cardinality(S) \in Nat
  BY Ranks
<1>2. ASSUME NEW i \in 1 .. Cardinality(S)
      PROVE Ascending(S)[i] \in S /\ Cardinality(Below(S, Ascending(S)[i])) = i - 1
  <2>1. \E x \in S : Cardinality(Below(S, x)) = i - 1
    BY Ranks
  <2>2. Ascending(S)[i] = CHOOSE x \in S : Cardinality(Below(S, x)) = i - 1
    BY DEF Ascending
  <2> QED
    BY <2>1, <2>2
<1>3. Ascending(S) \in [1 .. Cardinality(S) -> Nat]
  BY <1>2 DEF Ascending
<1> QED
  BY <1>1, <1>2, <1>3

(* What lies above a list continues it.                                    *)
LEMMA AscendingConcat ==
  ASSUME NEW A \in SUBSET Nat, IsFiniteSet(A), NEW B \in SUBSET Nat, IsFiniteSet(B),
         \A a \in A, b \in B : a < b
  PROVE  Ascending(A) \o Ascending(B) = Ascending(A \cup B)
<1> DEFINE C == A \cup B
           l == Cardinality(A)
           m == Cardinality(B)
           s == Ascending(A) \o Ascending(B)
<1>1. /\ l \in Nat /\ m \in Nat
      /\ Ascending(A) \in Seq(Nat) /\ Len(Ascending(A)) = l
      /\ Ascending(B) \in Seq(Nat) /\ Len(Ascending(B)) = m
  BY AscendingIs
<1>2. C \in SUBSET Nat /\ IsFiniteSet(C) /\ Cardinality(C) = l + m
  <2>1. A \cap B = {}
    <3>1. ASSUME NEW x \in A \cap B PROVE FALSE
      <4>1. x \in Nat /\ x < x
        OBVIOUS
      <4> QED
        BY <4>1
    <3> QED
      BY <3>1
  <2>2. IsFiniteSet(C) /\ Cardinality(C) = l + m - Cardinality(A \cap B)
    BY FS_Union
  <2>3. Cardinality(A \cap B) = 0
    BY <2>1, FS_EmptySet
  <2> HIDE DEF l, m
  <2> QED
    BY <1>1, <2>2, <2>3
<1>3. /\ Ascending(C) \in Seq(Nat) /\ Len(Ascending(C)) = l + m
      /\ \A i \in 1 .. l + m :
           Ascending(C)[i] \in C /\ Cardinality(Below(C, Ascending(C)[i])) = i - 1
  <2> HIDE DEF C, l, m
  <2> QED
    BY <1>2, AscendingIs
<1>4. s \in Seq(Nat) /\ Len(s) = l + m
  <2> HIDE DEF l, m
  <2> QED
    BY <1>1
<1>5. ASSUME NEW i \in 1 .. l + m PROVE s[i] \in C /\ Cardinality(Below(C, s[i])) = i - 1
  <2>1. CASE i <= l
    <3>1. s[i] = Ascending(A)[i] /\ i \in 1 .. l
      <4> HIDE DEF l, m
      <4> QED
        BY <1>1, <2>1
    <3>2. s[i] \in A /\ Cardinality(Below(A, s[i])) = i - 1
      BY <3>1, AscendingIs
    <3> HIDE DEF s
    <3>3. Below(C, s[i]) = Below(A, s[i])
      <4>1. ASSUME NEW b \in B PROVE ~(b < s[i])
        <5>1. s[i] < b /\ s[i] \in Nat /\ b \in Nat
          BY <3>2
        <5> QED
          BY <5>1
      <4> QED
        BY <4>1 DEF Below
    <3> QED
      BY <3>2, <3>3
  <2>2. CASE i > l
    <3>1. s[i] = Ascending(B)[i - l] /\ i - l \in 1 .. m
      <4> HIDE DEF l, m
      <4>1. i \in 1 .. l + m /\ i - l \in 1 .. m /\ ~(i <= l)
        BY <1>1, <2>2
      <4>2. s[i] = IF i <= Len(Ascending(A)) THEN Ascending(A)[i]
                   ELSE Ascending(B)[i - Len(Ascending(A))]
        BY <1>1, <4>1, ConcatProperties
      <4> QED
        BY <1>1, <4>1, <4>2
    <3>2. s[i] \in B /\ Cardinality(Below(B, s[i])) = i - l - 1
      BY <3>1, AscendingIs
    <3> HIDE DEF s
    <3>3. Below(C, s[i]) = A \cup Below(B, s[i])
      BY <3>2 DEF Below
    <3>4. Below(B, s[i]) \in SUBSET B /\ A \cap Below(B, s[i]) = {}
      <4>1. ASSUME NEW x \in A, x \in B PROVE FALSE
        <5>1. x \in Nat /\ x < x
          BY <4>1
        <5> QED
          BY <5>1
      <4> QED
        BY <4>1 DEF Below
    <3>5. IsFiniteSet(Below(B, s[i]))
      BY <3>4, FS_Subset
    <3>6. Cardinality(A \cup Below(B, s[i])) =
            l + Cardinality(Below(B, s[i])) - Cardinality(A \cap Below(B, s[i]))
      BY <3>5, FS_Union
    <3>7. Cardinality(A \cap Below(B, s[i])) = 0
      BY <3>4, FS_EmptySet
    <3>8. Cardinality(Below(C, s[i])) = l + (i - l - 1) - 0
      BY <3>2, <3>3, <3>6, <3>7
    <3>9. s[i] \in C
      BY <3>2
    <3> HIDE DEF l, m, C
    <3> QED
      BY <1>1, <3>8, <3>9
  <2>3. i <= l \/ i > l
    <3> HIDE DEF l, m
    <3> QED
      BY <1>1
  <2> QED
    BY <2>1, <2>2, <2>3
<1>6. ASSUME NEW i \in 1 .. l + m PROVE s[i] = Ascending(C)[i]
  <2>1. \A x, y \in C : Cardinality(Below(C, x)) = Cardinality(Below(C, y)) => x = y
    <3> HIDE DEF C
    <3> QED
      BY <1>2, Ranks
  <2> HIDE DEF s, C, l, m
  <2> QED
    BY <1>3, <1>5, <2>1
<1> HIDE DEF s, l, m, C
<1>7. s = Ascending(C)
  BY <1>1, <1>3, <1>4, <1>6, SeqEqual
<1> QED
  BY <1>7 DEF s, C

(* What has been fetched are the first items of the list, up to some p,    *)
(* unless the loop asks for offset 0 again; the next key stands for p, and *)
(* without an offset the loop ends only at the end of the list or because  *)
(* a key was left out.                                                     *)
FirstOnes(p) == Ascending((1 .. p) \ skipped)

Orderly == list = "txs" \/ (~cut /\ ~useOffset)

RestTypes ==
  /\ items \in Nat
  /\ nextKey \in Nat
  /\ list = "txs" => skipped = {}

FetchedInv ==
  Orderly =>
    \E p \in 0 .. items :
      /\ fetched = FirstOnes(p)
      /\ ~useOffset => nextKey = p \/ ~fetching
      /\ ~fetching /\ list # "txs" => p = items

RestInv == RestTypes /\ FetchedInv

LEMMA PrefixSet ==
  ASSUME NEW p \in Nat, NEW X
  PROVE  (1 .. p) \ X \in SUBSET Nat /\ IsFiniteSet((1 .. p) \ X)
<1>1. IsFiniteSet(1 .. p)
  BY FS_Interval
<1>2. (1 .. p) \ X \in SUBSET (1 .. p) /\ 1 .. p \in SUBSET Nat
  OBVIOUS
<1> QED
  BY <1>1, <1>2, FS_Subset

LEMMA FirstOnesSplit ==
  ASSUME NEW p \in Nat, NEW q \in Nat, p <= q
  PROVE  FirstOnes(p) \o Ascending((p + 1 .. q) \ skipped) = FirstOnes(q)
<1> DEFINE A == (1 .. p) \ skipped
           B == (p + 1 .. q) \ skipped
<1>1. A \in SUBSET Nat /\ IsFiniteSet(A)
  BY PrefixSet
<1>2. B \in SUBSET Nat /\ IsFiniteSet(B)
  <2>1. B \in SUBSET ((1 .. q) \ {})
    OBVIOUS
  <2>2. (1 .. q) \ {} \in SUBSET Nat /\ IsFiniteSet((1 .. q) \ {})
    BY PrefixSet
  <2> QED
    BY <2>1, <2>2, FS_Subset
<1>3. \A a \in A, b \in B : a < b
  OBVIOUS
<1>4. A \cup B = (1 .. q) \ skipped
  OBVIOUS
<1> HIDE DEF A, B
<1>5. Ascending(A) \o Ascending(B) = Ascending(A \cup B)
  BY <1>1, <1>2, <1>3, AscendingConcat
<1> QED
  BY <1>4, <1>5 DEF A, B, FirstOnes

PageEnd(p) == IF p + PageLimit < items THEN p + PageLimit ELSE items

(* A page that begins where the last one ended.                            *)
LEMMA PageFollows ==
  ASSUME RestTypes, NEW p \in 0 .. items
  PROVE  /\ p \in Nat /\ PageEnd(p) \in 0 .. items
         /\ FirstOnes(p) \o Ascending(Page(p) \ skipped) = FirstOnes(PageEnd(p))
<1>1. p \in Nat /\ PageEnd(p) \in Nat /\ p <= PageEnd(p) /\ PageEnd(p) <= items
  BY RestPagesAssumption DEF RestTypes, PageEnd
<1>2. Page(p) = p + 1 .. PageEnd(p)
  BY DEF Page, PageEnd
<1>3. FirstOnes(p) \o Ascending((p + 1 .. PageEnd(p)) \ skipped) = FirstOnes(PageEnd(p))
  BY <1>1, FirstOnesSplit
<1>4. PageEnd(p) \in 0 .. items
  BY <1>1 DEF RestTypes
<1> QED
  BY <1>1, <1>2, <1>3, <1>4, Zenon

(* The first transactions are as many as their number.                     *)
LEMMA FirstTxs ==
  ASSUME RestTypes, list = "txs", NEW p \in 0 .. items
  PROVE  Len(FirstOnes(p)) = p
<1>1. p \in Nat /\ (1 .. p) \ skipped = 1 .. p
  BY DEF RestTypes
<1>2. (1 .. p) \ skipped \in SUBSET Nat /\ IsFiniteSet((1 .. p) \ skipped)
  BY <1>1, PrefixSet
<1>3. Len(FirstOnes(p)) = Cardinality(1 .. p)
  BY <1>1, <1>2, AscendingIs DEF FirstOnes
<1>4. 1 \in Int /\ p \in Int
  BY <1>1
<1>5. Cardinality(1 .. p) = IF 1 > p THEN 0 ELSE p - 1 + 1
  BY <1>4, FS_Interval
<1> QED
  BY <1>1, <1>3, <1>5

LEMMA NothingFetched == FirstOnes(0) = <<>>
<1>1. (1 .. 0) \ skipped = {}
  OBVIOUS
<1>2. (1 .. 0) \ skipped \in SUBSET Nat /\ IsFiniteSet((1 .. 0) \ skipped)
  BY PrefixSet
<1>3. FirstOnes(0) \in Seq(Nat) /\ Len(FirstOnes(0)) = Cardinality({})
  BY <1>1, <1>2, AscendingIs DEF FirstOnes
<1>4. Cardinality({}) = 0
  BY FS_EmptySet
<1> QED
  BY <1>3, <1>4, EmptySeq

LEMMA RestInvInit == RestInit => RestInv
<1> SUFFICES ASSUME RestInit PROVE RestInv
  OBVIOUS
<1>1. items \in Nat /\ nextKey = 0 /\ fetched = <<>> /\ fetching = TRUE
  BY RestPagesAssumption DEF RestInit
<1>2. list = "txs" => skipped = {}
  BY DEF RestInit
<1>3. 0 \in 0 .. items
  BY <1>1
<1> QED
  BY <1>1, <1>2, <1>3, NothingFetched DEF RestInv, RestTypes, FetchedInv

(* Where the next page begins.                                             *)
LEMMA FromIs ==
  ASSUME RestInv, fetching, Orderly, NEW p \in 0 .. items, fetched = FirstOnes(p),
         ~useOffset => nextKey = p \/ ~fetching
  PROVE  (IF useOffset THEN Offset ELSE nextKey) = p
<1>1. CASE useOffset
  <2>1. list = "txs"
    BY <1>1 DEF Orderly
  <2>2. Len(FirstOnes(p)) = p
    BY <2>1, FirstTxs DEF RestInv
  <2> QED
    BY <1>1, <2>1, <2>2 DEF Offset
<1>2. CASE ~useOffset
  BY <1>2
<1> QED
  BY <1>1, <1>2

LEMMA FetchInv ==
  ASSUME RestInv, Fetch
  PROVE  RestInv'
<1> DEFINE from == IF useOffset THEN Offset ELSE nextKey
           more == from + PageLimit < items
           all == fetched \o Ascending(Page(from) \ skipped)
<1>1. fetching /\ FetchFrom(from)
  BY DEF Fetch
<1>2. PICK keyGiven \in BOOLEAN, totalGiven \in BOOLEAN :
        /\ keyGiven => more
        /\ fetched' = all
        /\ cut' = (cut \/ (more /\ ~keyGiven))
        /\ nextKey' = IF keyGiven THEN from + PageLimit ELSE nextKey
        /\ IF keyGiven
           THEN UNCHANGED <<useOffset, fetching>>
           ELSE IF totalGiven /\ Len(all) < items /\ Cardinality(Page(from)) = PageLimit
           THEN useOffset' = TRUE /\ UNCHANGED fetching
           ELSE fetching' = FALSE /\ UNCHANGED useOffset
        /\ UNCHANGED <<list, items, skipped>>
  BY <1>1 DEF FetchFrom
<1>3. from \in Nat
  <2>1. CASE useOffset /\ list = "txs"
    <3>1. PICK p \in 0 .. items : fetched = FirstOnes(p) /\ (~useOffset => nextKey = p \/ ~fetching)
      BY <2>1 DEF RestInv, FetchedInv, Orderly
    <3>2. from = p
      BY <1>1, <2>1, <3>1, FromIs DEF Orderly
    <3> QED
      BY <3>2
  <2>2. CASE useOffset /\ list # "txs"
    BY <2>2 DEF Offset
  <2>3. CASE ~useOffset
    BY <2>3 DEF RestInv, RestTypes
  <2> QED
    BY <2>1, <2>2, <2>3
<1> HIDE DEF from
<1>4. RestTypes'
  BY <1>2, <1>3, RestPagesAssumption DEF RestInv, RestTypes
<1>5. ASSUME Orderly' PROVE \E p \in 0 .. items' :
        /\ fetched' = FirstOnes(p)'
        /\ (~useOffset => nextKey = p \/ ~fetching)'
        /\ (~fetching /\ list # "txs")' => p = items'
  <2>1. Orderly
    BY <1>2, <1>5, Zenon DEF Orderly
  <2>2. PICK p \in 0 .. items : fetched = FirstOnes(p) /\ (~useOffset => nextKey = p \/ ~fetching)
    BY <2>1 DEF RestInv, FetchedInv
  <2>3. from = p
    BY <1>1, <2>1, <2>2, FromIs DEF from
  <2>4. /\ p \in Nat /\ PageEnd(p) \in 0 .. items
        /\ FirstOnes(p) \o Ascending(Page(p) \ skipped) = FirstOnes(PageEnd(p))
    BY PageFollows DEF RestInv
  <2> DEFINE q == PageEnd(p)
  <2>5. fetched' = FirstOnes(q)
    BY <1>2, <2>2, <2>3, <2>4
  <2>6. keyGiven => nextKey' = q
    BY <1>2, <2>3 DEF PageEnd
  <2>7. ~more => q = items
    BY <2>3 DEF PageEnd
  <2>8. q \in 0 .. items'
    BY <1>2, <2>4
  <2>9. ~fetching' => ~keyGiven
    BY <1>1, <1>2
  <2>10. ~useOffset' => keyGiven \/ ~fetching'
    BY <1>2
  <2> HIDE DEF q, more, all
  <2>11. list' # "txs" /\ ~fetching' => q = items'
    <3> SUFFICES ASSUME list' # "txs", ~fetching' PROVE q = items'
      OBVIOUS
    <3>1. ~cut'
      BY <1>5 DEF Orderly
    <3>2. ~more
      BY <1>2, <2>9, <3>1
    <3> QED
      BY <1>2, <2>7, <3>2
  <2> QED
    BY <1>2, <2>5, <2>6, <2>8, <2>10, <2>11 DEF FirstOnes
<1> QED
  BY <1>4, <1>5 DEF RestInv, FetchedInv

LEMMA FetchAgainInv ==
  ASSUME RestInv, FetchAgain
  PROVE  RestInv'
<1>1. /\ fetched' = <<>> /\ nextKey' = 0 /\ fetching' = TRUE
      /\ UNCHANGED <<list, items, skipped>>
  BY DEF FetchAgain
<1>2. RestTypes'
  BY <1>1 DEF RestInv, RestTypes
<1>3. 0 \in 0 .. items'
  BY <1>2 DEF RestTypes
<1>4. fetched' = FirstOnes(0)'
  BY <1>1, NothingFetched DEF FirstOnes
<1> QED
  BY <1>1, <1>2, <1>3, <1>4 DEF RestInv, FetchedInv

LEMMA RestInvNext == RestInv /\ [RestNext]_restVars => RestInv'
<1> SUFFICES ASSUME RestInv, [RestNext]_restVars PROVE RestInv'
  OBVIOUS
<1>1. CASE UNCHANGED restVars
  BY <1>1 DEF restVars, RestInv, RestTypes, FetchedInv, Orderly, FirstOnes
<1> QED
  BY <1>1, FetchInv, FetchAgainInv DEF RestNext

LEMMA PrefixOfConcat ==
  ASSUME NEW S, NEW s \in Seq(S), NEW t \in Seq(S)
  PROVE  IsPrefix(s, s \o t)
  BY DEF IsPrefix

LEMMA RestInvPages == RestInv => NodePagesExact
<1> SUFFICES ASSUME RestInv, Orderly
             PROVE  /\ IsPrefix(fetched, Wanted)
                    /\ ~fetching /\ (list = "txs" => Len(fetched) = items) => fetched = Wanted
  BY DEF NodePagesExact, Orderly
<1>1. PICK p \in 0 .. items : /\ fetched = FirstOnes(p)
                              /\ ~fetching /\ list # "txs" => p = items
  BY DEF RestInv, FetchedInv
<1>2. Wanted = FirstOnes(items)
  BY DEF Wanted, FirstOnes
<1>3. items \in Nat /\ p \in Nat /\ p <= items
  BY DEF RestInv, RestTypes
<1>4. FirstOnes(p) \o Ascending((p + 1 .. items) \ skipped) = FirstOnes(items)
  BY <1>3, FirstOnesSplit
<1>5. FirstOnes(p) \in Seq(Nat)
  BY <1>3, PrefixSet, AscendingIs DEF FirstOnes
<1>6. Ascending((p + 1 .. items) \ skipped) \in Seq(Nat)
  <2>1. (p + 1 .. items) \ skipped \in SUBSET ((1 .. items) \ skipped)
    BY <1>3
  <2>2. (p + 1 .. items) \ skipped \in SUBSET Nat /\ IsFiniteSet((p + 1 .. items) \ skipped)
    BY <1>3, <2>1, PrefixSet, FS_Subset
  <2> QED
    BY <2>2, AscendingIs
<1>7. IsPrefix(fetched, Wanted)
  BY <1>1, <1>2, <1>4, <1>5, <1>6, PrefixOfConcat
<1>8. ASSUME ~fetching, list = "txs" => Len(fetched) = items PROVE p = items
  <2>1. CASE list = "txs"
    BY <1>1, <1>8, <2>1, FirstTxs DEF RestInv
  <2> QED
    BY <1>1, <1>8, <2>1
<1> QED
  BY <1>1, <1>2, <1>7, <1>8

(* The transactions of a block that GetCosmosTxs returns are all of them,  *)
(* each once and in order, for any number, page size and whatever keys and *)
(* totals the node leaves out; balances and accounts are complete if it    *)
(* leaves out no key and the loop does not go over to offsets.             *)
THEOREM NodePagesAreExact == RestSpec => []NodePagesExact
<1>1. RestSpec => []RestInv
  BY RestInvInit, RestInvNext, PTL DEF RestSpec
<1> QED
  BY <1>1, RestInvPages, PTL
-----------------------------------------------------------------------------
(* The pages of the list endpoints.                                        *)

(* The tables: keys are positive, those of a cursor belong to one row, a   *)
(* row has its edge where there are edges, and the sequences and heights   *)
(* whose largest stands for a count have no gap.                           *)
TableInv ==
  /\ endpoint \in Endpoints /\ order \in {"ASC", "DESC"}
  /\ IsFiniteSet(rows) /\ \A r \in rows : "key" \in DOMAIN r /\ r.key \in Nat \ {0}
  /\ IsFiniteSet(edges) /\ edges \subseteq Nat \ {0}
  /\ UseCursor => \A r \in rows : r = [key |-> r.key, id |-> r.key]
  /\ IF endpoint \in EdgeLists THEN Keys(rows) \subseteq edges ELSE edges = {}
  /\ endpoint = "txs" => \E n \in Nat : edges = 1 .. n
  /\ endpoint \in {"evm_txs", "internal_txs"} => \E n \in Nat : Keys(rows) = 1 .. n
  /\ endpoint = "blocks" => \E n \in Nat : Keys(rows) = First .. First + n

Quiet      == ~disturbed
Ordered(s) == \A i, j \in DOMAIN s : i < j => After(s[j].key, s[i].key)

(* The rows among which a client moves: descending, those it began with.   *)
Base == IF UseCursor /\ order = "DESC" /\ session.at # "counted" THEN atStart ELSE rows

Skew     == IF endpoint = "blocks" THEN First - 1 ELSE 0
CountNow == IF endpoint \in EdgeLists THEN Cardinality(edges) ELSE Cardinality(rows)

StartInv ==
  session.at \in {"first", "counted"} =>
    /\ session.got = <<>> /\ session.CursorValue = NoKey /\ session.Offset = 0
    /\ session.at = "counted" /\ Quiet => session.total - Skew <= CountNow

(* With a cursor, reconciled or not: what a client has is in order, what   *)
(* it still expects comes after all it has, and the key points there.      *)
CursorInv ==
  UseCursor =>
    /\ session.at \in {"more", "end", "gone"} =>
         session.got \in Seq(RowsOf(Nat)) /\ Ordered(session.got)
    /\ session.at \in {"more", "end"} =>
         atStart \subseteq rows /\ \A r \in atStart \ Got, q \in Got : After(r.key, q.key)
    /\ session.at = "more" => session.got # <<>> /\ session.CursorValue = Last(session.got).key
    /\ session.at = "end" /\ (endpoint \in EdgeLists => ~OrphanPage) => atStart \subseteq Got

(* What a client has is in order and in the table, which has grown since   *)
(* it began, descending only above what it began with.                     *)
GotInv ==
  session.at \in {"more", "end"} /\ Quiet =>
    /\ session.got \in Seq(rows) /\ Ordered(session.got)
    /\ atStart \subseteq rows
    /\ (endpoint \in EdgeLists => edges \subseteq Keys(rows)) =>
         session.total - Skew <= Cardinality(atStart)
    /\ UseCursor /\ order = "DESC" =>
         Got \subseteq atStart /\ \A r \in rows \ atStart, q \in atStart : r.key > q.key

(* What it does not have comes after all it has; the offset points there.  *)
MoreInv ==
  session.at = "more" /\ Quiet =>
    /\ \A r \in Base \ Got, q \in Got : After(r.key, q.key)
    /\ ~UseCursor => session.Offset = Len(session.got) /\ ~Ties

EndInv ==
  session.at = "end" /\ Quiet /\ (endpoint \in EdgeLists => ~OrphanPage) => atStart \subseteq Got

SessionInv ==
  /\ DOMAIN session = {"at", "CursorValue", "Offset", "got", "total"}
  /\ session.at \in {"first", "counted", "more", "end", "gone"}
  /\ session.at = "gone" => endpoint = "nft_txs"
  /\ session.total \in Int
  /\ StartInv /\ CursorInv /\ GotInv /\ MoreInv /\ EndInv

PagingInv == TableInv /\ SessionInv

-----------------------------------------------------------------------------
(* Sets whose members have keys of their own, in the order of a list.      *)
Keyed(S) ==
  /\ IsFiniteSet(S)
  /\ \A r \in S : r.key \in Nat
  /\ \A q, r \in S : q.key = r.key => q = r

Ahead(S, r) == {q \in S : After(r.key, q.key)}
Rank(S, r)  == Cardinality(Ahead(S, r))
Direction   == order \in {"ASC", "DESC"}

LEMMA AfterIs ==
  ASSUME Direction, NEW k \in Nat, NEW l \in Nat, NEW m \in Nat
  PROVE  /\ ~After(k, k)
         /\ After(k, l) /\ After(l, m) => After(k, m)
         /\ k # l => After(k, l) \/ After(l, k)
         /\ After(k, l) => ~After(l, k)
         /\ After(k, l) => k # l
  BY DEF After, Direction

LEMMA OrderRanks ==
  ASSUME Direction, NEW S, Keyed(S)
  PROVE  /\ Cardinality(S) \in Nat
         /\ \A x \in S : Rank(S, x) \in 0 .. Cardinality(S) - 1
         /\ \A x, y \in S : After(y.key, x.key) <=> Rank(S, x) < Rank(S, y)
         /\ \A x, y \in S : Rank(S, x) = Rank(S, y) => x = y
         /\ \A i \in 1 .. Cardinality(S) : \E x \in S : Rank(S, x) = i - 1
<1> DEFINE n == Cardinality(S)
           f == [x \in S |-> Rank(S, x)]
<1>1. n \in Nat
  BY FS_CardinalityType DEF Keyed
<1>2. ASSUME NEW x \in S PROVE IsFiniteSet(Ahead(S, x)) /\ Rank(S, x) \in Nat
  <2>1. Ahead(S, x) \in SUBSET S
    BY DEF Ahead
  <2> QED
    BY <2>1, FS_Subset, FS_CardinalityType DEF Keyed, Rank
<1>3. ASSUME NEW x \in S PROVE Rank(S, x) < n
  <2>1. x \notin Ahead(S, x)
    BY AfterIs DEF Ahead, Keyed
  <2>2. Ahead(S, x) \in SUBSET S /\ Ahead(S, x) # S
    BY <2>1 DEF Ahead
  <2>3. Rank(S, x) <= n /\ (n = Rank(S, x) => S = Ahead(S, x))
    BY <2>2, FS_Subset DEF Keyed, Rank
  <2> QED
    BY <1>1, <1>2, <2>2, <2>3
<1>4. ASSUME NEW x \in S, NEW y \in S, After(y.key, x.key) PROVE Rank(S, x) < Rank(S, y)
  <2>1. x.key \in Nat /\ y.key \in Nat
    BY DEF Keyed
  <2>2. ASSUME NEW z \in S, After(x.key, z.key) PROVE After(y.key, z.key)
    <3>1. z.key \in Nat
      BY DEF Keyed
    <3> QED
      BY <1>4, <2>1, <2>2, <3>1, AfterIs
  <2>3. x \in Ahead(S, y) /\ x \notin Ahead(S, x)
    BY <1>4, <2>1, AfterIs DEF Ahead
  <2>4. Ahead(S, x) \in SUBSET Ahead(S, y)
    BY <2>2 DEF Ahead
  <2>5. IsFiniteSet(Ahead(S, y))
    BY <1>2
  <2>6. Rank(S, x) <= Rank(S, y) /\ (Rank(S, y) = Rank(S, x) => Ahead(S, y) = Ahead(S, x))
    BY <2>4, <2>5, FS_Subset DEF Rank
  <2>7. Rank(S, x) \in Nat /\ Rank(S, y) \in Nat
    BY <1>2
  <2> QED
    BY <2>3, <2>6, <2>7
<1>5. ASSUME NEW x \in S, NEW y \in S
      PROVE  x = y \/ Rank(S, x) < Rank(S, y) \/ Rank(S, y) < Rank(S, x)
  <2>1. x.key \in Nat /\ y.key \in Nat /\ (x.key = y.key => x = y)
    BY DEF Keyed
  <2>2. x.key = y.key \/ After(x.key, y.key) \/ After(y.key, x.key)
    BY <2>1, AfterIs
  <2> QED
    BY <1>4, <2>1, <2>2
<1>6. ASSUME NEW x \in S, NEW y \in S, Rank(S, x) = Rank(S, y) PROVE x = y
  <2>1. Rank(S, x) \in Nat /\ Rank(S, y) \in Nat
    BY <1>2
  <2> QED
    BY <1>5, <1>6, <2>1
<1>7. ASSUME NEW x \in S, NEW y \in S, Rank(S, x) < Rank(S, y) PROVE After(y.key, x.key)
  <2>1. Rank(S, x) \in Nat /\ Rank(S, y) \in Nat /\ x # y
    BY <1>2, <1>7
  <2>2. x.key \in Nat /\ y.key \in Nat /\ x.key # y.key
    BY <2>1 DEF Keyed
  <2>3. After(x.key, y.key) \/ After(y.key, x.key)
    BY <2>2, AfterIs
  <2>4. After(x.key, y.key) => Rank(S, y) < Rank(S, x)
    BY <1>4
  <2> QED
    BY <1>7, <2>1, <2>3, <2>4
<1>8. f \in Injection(S, 0 .. n - 1)
  <2>1. f \in [S -> 0 .. n - 1]
    <3> HIDE DEF n
    <3> QED
      BY <1>1, <1>2, <1>3
  <2> HIDE DEF n
  <2> QED
    BY <1>6, <2>1 DEF Injection, IsInjective
<1>9. IsFiniteSet(0 .. n - 1) /\ Cardinality(0 .. n - 1) = n
  <2>1. n - 1 \in Int /\ 0 \in Int
    BY <1>1
  <2> HIDE DEF n
  <2>2. IsFiniteSet(0 .. n - 1) /\ Cardinality(0 .. n - 1) = IF 0 > n - 1 THEN 0 ELSE n - 1 - 0 + 1
    BY <2>1, FS_Interval
  <2> QED
    BY <1>1, <2>2
<1>10. f \in Surjection(S, 0 .. n - 1)
  BY <1>8, <1>9, FS_Injection
<1>11. \A i \in 1 .. n : \E x \in S : Rank(S, x) = i - 1
  <2> SUFFICES ASSUME NEW i \in 1 .. n PROVE \E x \in S : Rank(S, x) = i - 1
    OBVIOUS
  <2> HIDE DEF n
  <2>1. i - 1 \in 0 .. n - 1
    BY <1>1
  <2>2. PICK x \in S : f[x] = i - 1
    BY <1>10, <2>1 DEF Surjection
  <2> QED
    BY <2>2
<1>12. \A x \in S : Rank(S, x) \in 0 .. n - 1
  <2> HIDE DEF n
  <2> QED
    BY <1>1, <1>2, <1>3
<1> QED
  BY <1>1, <1>4, <1>6, <1>7, <1>11, <1>12

LEMMA InOrderIs ==
  ASSUME Direction, NEW S, Keyed(S)
  PROVE  /\ InOrder(S) \in Seq(S)
         /\ Len(InOrder(S)) = Cardinality(S) /\ Cardinality(S) \in Nat
         /\ \A i \in 1 .. Cardinality(S) : InOrder(S)[i] \in S /\ Rank(S, InOrder(S)[i]) = i - 1
<1>1. Cardinality(S) \in Nat
  BY OrderRanks
<1>2. ASSUME NEW i \in 1 .. Cardinality(S)
      PROVE InOrder(S)[i] \in S /\ Rank(S, InOrder(S)[i]) = i - 1
  <2>1. \E x \in S : Rank(S, x) = i - 1
    BY OrderRanks
  <2>2. InOrder(S)[i] = CHOOSE x \in S : Rank(S, x) = i - 1
    BY DEF InOrder, Rank, Ahead
  <2> QED
    BY <2>1, <2>2
<1>3. InOrder(S) \in [1 .. Cardinality(S) -> S]
  BY <1>2 DEF InOrder
<1> QED
  BY <1>1, <1>2, <1>3

(* The members of a page that begins behind the first ones.                *)
LEMMA TakeIs ==
  ASSUME Direction, NEW S, Keyed(S), NEW from \in 0 .. Cardinality(S)
  PROVE  LET page == Take(InOrder(S), from, Limit)
         IN  /\ page \in Seq(S)
             /\ Len(page) = IF from + Limit < Cardinality(S) THEN Limit ELSE Cardinality(S) - from
             /\ \A i \in 1 .. Len(page) : page[i] \in S /\ Rank(S, page[i]) = from + i - 1
<1> DEFINE n == Cardinality(S)
           s == InOrder(S)
           to == IF from + Limit < n THEN from + Limit ELSE n
           page == SubSeq(s, from + 1, to)
<1>1. /\ n \in Nat /\ Len(s) = n
      /\ \A i \in 1 .. n : s[i] \in S /\ Rank(S, s[i]) = i - 1
  BY InOrderIs
<1>2. Take(InOrder(S), from, Limit) = page
  BY <1>1 DEF Take
<1> HIDE DEF s, n
<1>3. from + 1 \in Int /\ to \in Int /\ from \in Nat /\ from <= to /\ to <= n /\ Limit \in Nat
  BY <1>1, PaginationAssumption DEF n
<1> HIDE DEF to
<1>4. \A i \in from + 1 .. to : s[i] \in S
  BY <1>1, <1>3
<1>5. /\ page \in Seq(S)
      /\ Len(page) = IF from + 1 <= to THEN to - (from + 1) + 1 ELSE 0
      /\ \A i \in 1 .. to - (from + 1) + 1 : page[i] = s[from + 1 + i - 1]
  BY <1>3, <1>4, SubSeqProperties
<1> HIDE DEF page
<1>6. Len(page) = to - from
  BY <1>3, <1>5
<1>7. ASSUME NEW i \in 1 .. Len(page) PROVE page[i] \in S /\ Rank(S, page[i]) = from + i - 1
  <2>1. /\ from + i \in 1 .. n /\ i \in 1 .. to - (from + 1) + 1
        /\ from + 1 + i - 1 = from + i /\ from + i - 1 = (from + i) - 1
    BY <1>1, <1>3, <1>6
  <2>2. s[from + i] \in S /\ Rank(S, s[from + i]) = from + i - 1
    BY <1>1, <2>1
  <2>3. page[i] = s[from + i]
    BY <1>5, <2>1
  <2> QED
    BY <2>1, <2>2, <2>3
<1>8. Len(page) = IF from + Limit < n THEN Limit ELSE n - from
  BY <1>3, <1>6 DEF to
<1> QED
  BY <1>2, <1>5, <1>7, <1>8 DEF n

(* A page is in order; what is neither on it nor before it comes after it, *)
(* and only a full page leaves something.                                  *)
LEMMA PageIs ==
  ASSUME Direction, NEW S, Keyed(S), NEW from \in 0 .. Cardinality(S)
  PROVE  LET page == Take(InOrder(S), from, Limit)
         IN  /\ page \in Seq(S) /\ Ordered(page)
             /\ Len(page) <= Limit
             /\ \A q \in ToSet(page) : q \in S /\ Rank(S, q) >= from
             /\ \A r \in S : Rank(S, r) >= from /\ r \notin ToSet(page) =>
                  Len(page) = Limit /\ \A q \in ToSet(page) : After(r.key, q.key)
<1> DEFINE n == Cardinality(S)
           page == Take(InOrder(S), from, Limit)
<1>1. /\ page \in Seq(S) /\ Len(page) \in Nat
      /\ Len(page) = IF from + Limit < n THEN Limit ELSE n - from
      /\ \A i \in 1 .. Len(page) : page[i] \in S /\ Rank(S, page[i]) = from + i - 1
  BY TakeIs
<1>2. /\ n \in Nat /\ from \in Nat /\ from <= n /\ Limit \in Nat
      /\ \A x \in S : Rank(S, x) \in 0 .. n - 1
      /\ \A x, y \in S : After(y.key, x.key) <=> Rank(S, x) < Rank(S, y)
      /\ \A x, y \in S : Rank(S, x) = Rank(S, y) => x = y
  BY OrderRanks, PaginationAssumption
<1> HIDE DEF n, page
<1>3. DOMAIN page = 1 .. Len(page)
  BY <1>1
<1>4. Ordered(page)
  BY <1>1, <1>2, <1>3 DEF Ordered
<1>5. ASSUME NEW q \in ToSet(page)
      PROVE  q \in S /\ Rank(S, q) >= from /\ Rank(S, q) < from + Len(page)
  <2>1. PICK i \in 1 .. Len(page) : q = page[i]
    BY <1>3 DEF ToSet
  <2>2. q \in S /\ Rank(S, q) = from + i - 1
    BY <1>1, <2>1
  <2> QED
    BY <1>1, <1>2, <2>2
<1>6. ASSUME NEW r \in S, Rank(S, r) >= from, r \notin ToSet(page)
      PROVE  Rank(S, r) >= from + Len(page)
  <2> SUFFICES ASSUME Rank(S, r) < from + Len(page) PROVE FALSE
    BY <1>1, <1>2
  <2>1. /\ Rank(S, r) - from + 1 \in 1 .. Len(page)
        /\ Rank(S, r) = from + (Rank(S, r) - from + 1) - 1
    BY <1>1, <1>2, <1>6
  <2>2. PICK i \in 1 .. Len(page) : Rank(S, r) = from + i - 1
    BY <2>1
  <2>3. page[i] = r
    BY <1>1, <1>2, <2>2
  <2> QED
    BY <1>3, <1>6, <2>3 DEF ToSet
<1>7. ASSUME NEW r \in S, Rank(S, r) >= from, r \notin ToSet(page)
      PROVE  Len(page) = Limit /\ \A q \in ToSet(page) : After(r.key, q.key)
  <2>1. Rank(S, r) >= from + Len(page) /\ Rank(S, r) \in 0 .. n - 1
    BY <1>2, <1>6, <1>7
  <2>2. Len(page) = Limit
    BY <1>1, <1>2, <2>1
  <2>3. ASSUME NEW q \in ToSet(page) PROVE After(r.key, q.key)
    <3>1. q \in S /\ Rank(S, q) < from + Len(page) /\ Rank(S, q) \in 0 .. n - 1
      BY <1>2, <1>5
    <3>2. Rank(S, q) < Rank(S, r)
      BY <1>1, <1>2, <2>1, <3>1
    <3> QED
      BY <1>2, <3>1, <3>2
  <2> QED
    BY <2>2, <2>3
<1>8. Len(page) <= Limit
  BY <1>1, <1>2
<1> QED
  BY <1>1, <1>4, <1>5, <1>7, <1>8 DEF page

LEMMA KeysCount ==
  ASSUME NEW S, Keyed(S)
  PROVE  /\ IsFiniteSet(Keys(S)) /\ Cardinality(Keys(S)) = Cardinality(S)
         /\ OrderBy(S) = {InOrder(S)}
<1> DEFINE f == [r \in S |-> r.key]
<1>1. f \in [S -> Keys(S)]
  BY DEF Keys
<1>2. f \in Injection(S, Keys(S))
  BY <1>1 DEF Keyed, Injection, IsInjective
<1>3. f \in Surjection(S, Keys(S))
  BY <1>1 DEF Keys, Surjection
<1>4. ExistsBijection(S, Keys(S))
  BY <1>2, <1>3 DEF ExistsBijection, Bijection
<1>5. IsFiniteSet(Keys(S)) /\ Cardinality(Keys(S)) = Cardinality(S)
  BY <1>4, FS_Bijection DEF Keyed
<1> QED
  BY <1>5 DEF OrderBy

LEMMA LargestIs ==
  ASSUME NEW S \in SUBSET Nat, IsFiniteSet(S), S # {}
  PROVE  Max(S) \in S /\ \A y \in S : Max(S) >= y
<1> DEFINE n == Cardinality(S)
<1>1. n \in Nat \ {0}
  BY FS_CardinalityType, FS_EmptySet
<1>2. n \in 1 .. n
  BY <1>1
<1>3. PICK x \in S : Cardinality(Below(S, x)) = n - 1
  BY <1>2, Ranks
<1>4. ASSUME NEW y \in S, y > x PROVE FALSE
  <2>1. Cardinality(Below(S, y)) \in 0 .. n - 1
    BY Ranks
  <2>2. Below(S, x) \in SUBSET Below(S, y) /\ x \in Below(S, y) /\ x \notin Below(S, x)
    <3>1. x \in Nat /\ y \in Nat /\ x < y
      BY <1>4
    <3>2. ASSUME NEW z \in S, z < x PROVE z < y
      <4>1. z \in Nat
        OBVIOUS
      <4> QED
        BY <3>1, <3>2, <4>1
    <3>3. x \in Below(S, y) /\ x \notin Below(S, x)
      BY <3>1 DEF Below
    <3> QED
      BY <3>2, <3>3 DEF Below
  <2>3. Below(S, y) \in SUBSET S
    BY DEF Below
  <2>4. IsFiniteSet(Below(S, y))
    BY <2>3, FS_Subset
  <2>5. /\ Cardinality(Below(S, x)) <= Cardinality(Below(S, y))
        /\ Cardinality(Below(S, y)) = Cardinality(Below(S, x)) => Below(S, y) = Below(S, x)
    BY <2>2, <2>4, FS_Subset
  <2> HIDE DEF n
  <2> QED
    BY <1>1, <1>3, <2>1, <2>2, <2>5
<1>5. \A y \in S : x >= y
  BY <1>4
<1>6. \E z \in S : \A y \in S : z >= y
  BY <1>5
<1> QED
  BY <1>6 DEF Max

LEMMA SeqAppend ==
  ASSUME NEW S, NEW s \in Seq(S), NEW t \in Seq(S)
  PROVE  /\ s \o t \in Seq(S) /\ Len(s \o t) = Len(s) + Len(t)
         /\ DOMAIN (s \o t) = 1 .. Len(s) + Len(t)
         /\ ToSet(s \o t) = ToSet(s) \union ToSet(t)
         /\ t # <<>> => s \o t # <<>> /\ Last(s \o t) = Last(t)
         /\ s \o <<>> = s
<1>1. /\ s \o t \in Seq(S) /\ Len(s \o t) = Len(s) + Len(t)
      /\ \A i \in 1 .. Len(s) + Len(t) : (s \o t)[i] = IF i <= Len(s) THEN s[i] ELSE t[i - Len(s)]
  BY ConcatProperties
<1>2. DOMAIN (s \o t) = 1 .. Len(s) + Len(t) /\ DOMAIN s = 1 .. Len(s) /\ DOMAIN t = 1 .. Len(t)
      /\ Len(s) \in Nat /\ Len(t) \in Nat
  BY <1>1
<1>3. ASSUME NEW i \in 1 .. Len(s) PROVE i \in 1 .. Len(s) + Len(t) /\ (s \o t)[i] = s[i]
  <2>1. i \in 1 .. Len(s) + Len(t) /\ i <= Len(s)
    BY <1>2
  <2> QED
    BY <1>1, <2>1
<1>4. ASSUME NEW i \in 1 .. Len(t)
      PROVE Len(s) + i \in 1 .. Len(s) + Len(t) /\ (s \o t)[Len(s) + i] = t[i]
  <2>1. Len(s) + i \in 1 .. Len(s) + Len(t) /\ ~(Len(s) + i <= Len(s)) /\ (Len(s) + i) - Len(s) = i
    BY <1>2
  <2> QED
    BY <1>1, <2>1
<1>5. ASSUME NEW i \in 1 .. Len(s) + Len(t)
      PROVE i \in 1 .. Len(s) \/ (i - Len(s) \in 1 .. Len(t) /\ Len(s) + (i - Len(s)) = i)
  BY <1>2
<1>6. ToSet(s \o t) = ToSet(s) \union ToSet(t)
  <2>1. ASSUME NEW x \in ToSet(s \o t) PROVE x \in ToSet(s) \union ToSet(t)
    <3>1. PICK i \in 1 .. Len(s) + Len(t) : x = (s \o t)[i]
      BY <1>2 DEF ToSet
    <3>2. CASE i \in 1 .. Len(s)
      BY <1>2, <1>3, <3>1, <3>2 DEF ToSet
    <3>3. CASE i - Len(s) \in 1 .. Len(t) /\ Len(s) + (i - Len(s)) = i
      <4>1. x = t[i - Len(s)]
        BY <1>4, <3>1, <3>3
      <4> QED
        BY <1>2, <3>3, <4>1 DEF ToSet
    <3> QED
      BY <1>5, <3>2, <3>3
  <2>2. ASSUME NEW x \in ToSet(s) PROVE x \in ToSet(s \o t)
    <3>1. PICK i \in 1 .. Len(s) : x = s[i]
      BY <1>2 DEF ToSet
    <3> QED
      BY <1>2, <1>3, <3>1 DEF ToSet
  <2>3. ASSUME NEW x \in ToSet(t) PROVE x \in ToSet(s \o t)
    <3>1. PICK i \in 1 .. Len(t) : x = t[i]
      BY <1>2 DEF ToSet
    <3> QED
      BY <1>2, <1>4, <3>1 DEF ToSet
  <2> QED
    BY <2>1, <2>2, <2>3
<1>7. ASSUME t # <<>> PROVE s \o t # <<>> /\ Last(s \o t) = Last(t)
  <2>1. Len(t) \in Nat \ {0}
    BY <1>7, EmptySeq
  <2>2. Len(t) \in 1 .. Len(t) /\ Len(s \o t) # 0
    BY <1>1, <1>2, <2>1
  <2>3. (s \o t)[Len(s) + Len(t)] = t[Len(t)]
    BY <1>4, <2>2
  <2>4. s \o t # <<>>
    BY <2>2
  <2> QED
    BY <1>1, <2>3, <2>4 DEF Last
<1>8. s \o <<>> = s
  BY ConcatEmptySeq
<1> QED
  BY <1>1, <1>2, <1>6, <1>7, <1>8

(* Two lists in order, the second after the first.                         *)
LEMMA OrderedAppend ==
  ASSUME NEW S, NEW s \in Seq(S), NEW t \in Seq(S), Ordered(s), Ordered(t),
         \A r \in ToSet(t), q \in ToSet(s) : After(r.key, q.key)
  PROVE  Ordered(s \o t)
<1>1. /\ DOMAIN (s \o t) = 1 .. Len(s) + Len(t) /\ DOMAIN s = 1 .. Len(s) /\ DOMAIN t = 1 .. Len(t)
      /\ \A i \in 1 .. Len(s) + Len(t) : (s \o t)[i] = IF i <= Len(s) THEN s[i] ELSE t[i - Len(s)]
      /\ Len(s) \in Nat /\ Len(t) \in Nat
  BY SeqAppend, ConcatProperties
<1> SUFFICES ASSUME NEW i \in 1 .. Len(s) + Len(t), NEW j \in 1 .. Len(s) + Len(t), i < j
             PROVE  After((s \o t)[j].key, (s \o t)[i].key)
  BY <1>1 DEF Ordered
<1>2. CASE j <= Len(s)
  <2>1. i \in DOMAIN s /\ j \in DOMAIN s /\ i <= Len(s)
    BY <1>1, <1>2
  <2>2. (s \o t)[i] = s[i] /\ (s \o t)[j] = s[j]
    BY <1>1, <1>2, <2>1
  <2> QED
    BY <2>1, <2>2 DEF Ordered
<1>3. CASE i <= Len(s) /\ ~(j <= Len(s))
  <2>1. i \in DOMAIN s /\ j - Len(s) \in DOMAIN t
    BY <1>1, <1>3
  <2>2. (s \o t)[i] = s[i] /\ (s \o t)[j] = t[j - Len(s)]
    BY <1>1, <1>3
  <2>3. s[i] \in ToSet(s) /\ t[j - Len(s)] \in ToSet(t)
    BY <2>1 DEF ToSet
  <2> QED
    BY <2>2, <2>3
<1>4. CASE ~(i <= Len(s)) /\ ~(j <= Len(s))
  <2>1. i - Len(s) \in DOMAIN t /\ j - Len(s) \in DOMAIN t /\ i - Len(s) < j - Len(s)
    BY <1>1, <1>4
  <2>2. (s \o t)[i] = t[i - Len(s)] /\ (s \o t)[j] = t[j - Len(s)]
    BY <1>1, <1>4
  <2> QED
    BY <2>1, <2>2 DEF Ordered
<1> QED
  BY <1>1, <1>2, <1>3, <1>4
-----------------------------------------------------------------------------
(* What a page must be: some of the rows that the request leaves, in       *)
(* order, the others after them, and all of them if the handler gives no   *)
(* key.                                                                    *)
Remaining == Base \ Got
Left      == IF UseCursor THEN {r \in rows : WhereCursor(r.key)} ELSE Remaining

GoodPage(page) ==
  /\ page \in Seq(Left) /\ Ordered(page)
  /\ \A r \in Left \ ToSet(page), q \in ToSet(page) : After(r.key, q.key)
  /\ UseCursor /\ page = <<>> /\ (endpoint \in EdgeLists => ~OrphanPage) => Left = {}
  /\ ~UseCursor => Len(page) <= Limit /\ (Len(page) < Limit => Left \subseteq ToSet(page))

LEMMA GotRows ==
  ASSUME PagingInv, Quiet, session.at \in {"counted", "more"}
  PROVE  /\ session.got \in Seq(rows) /\ Ordered(session.got) /\ Got \subseteq rows
         /\ Base \subseteq rows /\ Got \subseteq Base
         /\ \A r \in Remaining, q \in Got : After(r.key, q.key)
<1>1. CASE session.at = "counted"
  <2>1. session.got = <<>>
    BY <1>1 DEF PagingInv, SessionInv, StartInv
  <2>2. Got = {} /\ session.got \in Seq(rows)
    BY <2>1 DEF Got, ToSet
  <2>3. Base = rows
    BY <1>1 DEF Base
  <2> QED
    BY <2>1, <2>2, <2>3 DEF Ordered
<1>2. CASE session.at = "more"
  <2>1. /\ session.got \in Seq(rows) /\ Ordered(session.got) /\ atStart \subseteq rows
        /\ UseCursor /\ order = "DESC" => Got \subseteq atStart
        /\ \A r \in Base \ Got, q \in Got : After(r.key, q.key)
    BY <1>2 DEF PagingInv, SessionInv, GotInv, MoreInv
  <2>2. Got \subseteq rows
    BY <2>1 DEF Got, ToSet
  <2> QED
    BY <2>1, <2>2 DEF Base, Remaining
<1> QED
  BY <1>1, <1>2

LEMMA RowsKeyed ==
  ASSUME TableInv, UseCursor \/ ~Ties, NEW S \in SUBSET rows
  PROVE  Keyed(S) /\ Direction
<1>1. IsFiniteSet(S)
  BY FS_Subset DEF TableInv
<1>2. \A r \in S : r.key \in Nat
  BY DEF TableInv
<1>3. ASSUME NEW q \in S, NEW r \in S, q.key = r.key PROVE q = r
  <2>1. CASE UseCursor
    <3>1. q = [key |-> q.key, id |-> q.key] /\ r = [key |-> r.key, id |-> r.key]
      BY <2>1 DEF TableInv
    <3> QED
      BY <1>3, <3>1
  <2>2. CASE ~Ties
    BY <1>3, <2>2 DEF Ties
  <2> QED
    BY <2>1, <2>2
<1> QED
  BY <1>1, <1>2, <1>3 DEF Keyed, Direction, TableInv

(* What a request leaves is what the client does not have.                 *)
LEMMA RequestLeaves ==
  ASSUME PagingInv, Quiet, session.at \in {"counted", "more"}
  PROVE  Left = Remaining
<1> SUFFICES ASSUME UseCursor PROVE {r \in rows : WhereCursor(r.key)} = Remaining
  BY DEF Left
<1>1. CASE session.at = "counted"
  <2>1. session.CursorValue = NoKey /\ session.got = <<>>
    BY <1>1 DEF PagingInv, SessionInv, StartInv
  <2>2. Got = {} /\ Base = rows
    BY <1>1, <2>1 DEF Got, ToSet, Base
  <2> QED
    BY <2>1, <2>2 DEF WhereCursor, Remaining
<1>2. CASE session.at = "more"
  <2> DEFINE got == session.got
             last == Last(got)
  <2>1. /\ got \in Seq(rows) /\ Ordered(got) /\ atStart \subseteq rows
        /\ order = "DESC" => Got \subseteq atStart /\ \A r \in rows \ atStart, q \in atStart : r.key > q.key
        /\ got # <<>> /\ session.CursorValue = last.key
        /\ \A r \in Remaining, q \in Got : After(r.key, q.key)
    BY <1>2 DEF PagingInv, SessionInv, CursorInv, GotInv, MoreInv, Remaining
  <2>2. Len(got) \in Nat \ {0} /\ DOMAIN got = 1 .. Len(got)
    BY <2>1, EmptySeq
  <2>3. Len(got) \in DOMAIN got
    BY <2>2
  <2>4. last \in Got /\ last \in rows
    BY <2>1, <2>3 DEF Last, Got, ToSet
  <2>5. /\ \A r \in rows : r.key \in Nat
        /\ Direction
        /\ session.CursorValue # NoKey
    BY <2>1, <2>4 DEF PagingInv, TableInv, Direction, NoKey
  <2>6. ASSUME NEW r \in Remaining PROVE r \in rows /\ WhereCursor(r.key)
    <3>1. r \in rows
      BY GotRows DEF Remaining
    <3> QED
      BY <2>1, <2>4, <3>1 DEF WhereCursor
  <2>7. ASSUME NEW r \in rows, WhereCursor(r.key) PROVE r \in Remaining
    <3>1. After(r.key, last.key)
      BY <2>1, <2>5, <2>7 DEF WhereCursor
    <3>2. r \notin Got
      <4> SUFFICES ASSUME r \in Got PROVE FALSE
        OBVIOUS
      <4>1. PICK i \in DOMAIN got : r = got[i]
        BY DEF Got, ToSet
      <4>2. CASE i = Len(got)
        BY <2>5, <3>1, <4>1, <4>2, AfterIs DEF Last
      <4>3. CASE i < Len(got)
        <5>1. After(last.key, r.key)
          BY <2>1, <2>3, <4>1, <4>3 DEF Ordered, Last
        <5>2. last.key \in Nat /\ r.key \in Nat
          BY <2>4, <2>5
        <5> QED
          BY <2>5, <3>1, <5>1, <5>2, AfterIs
      <4> QED
        BY <2>2, <4>2, <4>3
    <3>3. r \in Base
      <4>1. CASE order = "DESC"
        <5>1. last \in atStart /\ r.key \in Nat /\ last.key \in Nat
          BY <2>1, <2>4, <2>5, <4>1
        <5>2. r.key < last.key
          BY <3>1, <4>1 DEF After
        <5>3. r \in atStart
          BY <2>1, <4>1, <5>1, <5>2
        <5> QED
          BY <1>2, <4>1, <5>3 DEF Base
      <4>2. CASE order # "DESC"
        BY <4>2 DEF Base
      <4> QED
        BY <4>1, <4>2
    <3> QED
      BY <3>2, <3>3 DEF Remaining
  <2> QED
    BY <2>6, <2>7
<1> QED
  BY <1>1, <1>2

LEMMA CursorPages ==
  ASSUME PagingInv, UseCursor, endpoint \notin EdgeLists, session.at \in {"counted", "more"},
         NEW page \in Pages
  PROVE  GoodPage(page)
<1>1. {r \in rows : WhereCursor(r.key)} = Left
  BY DEF Left
<1>2. Left \in SUBSET rows
  BY <1>1
<1>3. Keyed(Left) /\ Direction
  BY <1>2, RowsKeyed DEF PagingInv
<1>4. page = Take(InOrder(Left), 0, Limit)
  BY <1>1, <1>3, KeysCount DEF Pages
<1>5. 0 \in 0 .. Cardinality(Left) /\ Limit # 0
  BY <1>3, OrderRanks, PaginationAssumption
<1>6. \A r \in Left : Rank(Left, r) >= 0
  BY <1>3, OrderRanks
<1>7. /\ page \in Seq(Left) /\ Ordered(page)
      /\ \A r \in Left : r \notin ToSet(page) =>
           Len(page) = Limit /\ \A q \in ToSet(page) : After(r.key, q.key)
  BY <1>3, <1>4, <1>5, <1>6, PageIs
<1>8. ASSUME page = <<>> PROVE Left = {}
  <2>1. Len(page) = 0 /\ ToSet(page) = {}
    BY <1>8 DEF ToSet
  <2> QED
    BY <1>5, <1>7, <2>1
<1> QED
  BY <1>7, <1>8 DEF GoodPage

LEMMA WholeOrder ==
  ASSUME Direction, NEW S, Keyed(S)
  PROVE  InOrder(S) \in Seq(S) /\ Ordered(InOrder(S)) /\ ToSet(InOrder(S)) = S
<1> DEFINE n == Cardinality(S)
           s == InOrder(S)
<1>1. /\ s \in Seq(S) /\ Len(s) = n /\ n \in Nat
      /\ \A i \in 1 .. n : s[i] \in S /\ Rank(S, s[i]) = i - 1
  BY InOrderIs
<1>2. /\ \A x \in S : Rank(S, x) \in 0 .. n - 1
      /\ \A x, y \in S : After(y.key, x.key) <=> Rank(S, x) < Rank(S, y)
      /\ \A x, y \in S : Rank(S, x) = Rank(S, y) => x = y
  BY OrderRanks
<1> HIDE DEF s, n
<1>3. DOMAIN s = 1 .. n
  BY <1>1
<1>4. Ordered(s)
  BY <1>1, <1>2, <1>3 DEF Ordered
<1>5. ASSUME NEW r \in S PROVE r \in ToSet(s)
  <2>1. Rank(S, r) + 1 \in 1 .. n /\ (Rank(S, r) + 1) - 1 = Rank(S, r)
    BY <1>1, <1>2
  <2>2. s[Rank(S, r) + 1] = r
    BY <1>1, <1>2, <2>1
  <2> QED
    BY <1>3, <2>1, <2>2 DEF ToSet
<1>6. ToSet(s) \subseteq S
  BY <1>1, <1>3 DEF ToSet
<1> QED
  BY <1>1, <1>4, <1>5, <1>6 DEF s

(* Keys in order are as many as the list is long.                          *)
LEMMA OrderedCount ==
  ASSUME Direction, NEW S, NEW s \in Seq(S), \A r \in S : r.key \in Nat, Ordered(s)
  PROVE  /\ IsFiniteSet(ToSet(s)) /\ Cardinality(ToSet(s)) = Len(s)
         /\ Cardinality(Keys(ToSet(s))) = Len(s)
<1> DEFINE T == ToSet(s)
           n == Len(s)
<1>1. n \in Nat /\ DOMAIN s = 1 .. n /\ s \in [1 .. n -> T] /\ T \subseteq S
  BY DEF ToSet
<1>2. ASSUME NEW i \in 1 .. n, NEW j \in 1 .. n, s[i].key = s[j].key PROVE i = j
  <2>1. s[i].key \in Nat /\ s[j].key \in Nat
    BY <1>1
  <2>2. i < j => After(s[j].key, s[i].key)
    BY <1>1 DEF Ordered
  <2>3. j < i => After(s[i].key, s[j].key)
    BY <1>1 DEF Ordered
  <2>4. ~After(s[j].key, s[i].key) /\ ~After(s[i].key, s[j].key)
    BY <1>2, <2>1, AfterIs
  <2>5. i \in Nat /\ j \in Nat
    BY <1>1
  <2> QED
    BY <2>2, <2>3, <2>4, <2>5
<1>3. s \in Injection(1 .. n, T)
  BY <1>1, <1>2 DEF Injection, IsInjective
<1>4. s \in Surjection(1 .. n, T)
  BY <1>1 DEF Surjection, ToSet
<1>5. ExistsBijection(1 .. n, T)
  BY <1>3, <1>4 DEF ExistsBijection, Bijection
<1>6. IsFiniteSet(1 .. n) /\ Cardinality(1 .. n) = n
  <2> HIDE DEF n
  <2>1. IsFiniteSet(1 .. n) /\ Cardinality(1 .. n) = IF 1 > n THEN 0 ELSE n - 1 + 1
    BY <1>1, FS_Interval
  <2> QED
    BY <1>1, <2>1
<1>7. IsFiniteSet(T) /\ Cardinality(T) = n
  BY <1>5, <1>6, FS_Bijection
<1>8. ASSUME NEW q \in T, NEW r \in T, q.key = r.key PROVE q = r
  <2>1. PICK i \in 1 .. n : q = s[i]
    BY <1>1 DEF ToSet
  <2>2. PICK j \in 1 .. n : r = s[j]
    BY <1>1 DEF ToSet
  <2> QED
    BY <1>2, <1>8, <2>1, <2>2
<1>9. Keyed(T)
  BY <1>1, <1>7, <1>8 DEF Keyed
<1> QED
  BY <1>7, <1>9, KeysCount

(* The edges that the cursor leaves, and the page of them that is read.    *)
EdgeRows == {[key |-> k] : k \in {e \in edges : WhereCursor(e)}}
EdgePage == Take(InOrder(EdgeRows), 0, Limit)

LEMMA EdgePageIs ==
  ASSUME PagingInv
  PROVE  /\ Direction /\ Keyed(EdgeRows) /\ Limit \in Nat \ {0}
         /\ EdgePage \in Seq(EdgeRows) /\ Ordered(EdgePage) /\ Len(EdgePage) \in Nat
         /\ Keys(ToSet(EdgePage)) \subseteq {e \in edges : WhereCursor(e)}
         /\ \A e \in edges : WhereCursor(e) /\ e \notin Keys(ToSet(EdgePage)) =>
              Len(EdgePage) = Limit /\ \A k \in Keys(ToSet(EdgePage)) : After(e, k)
<1> DEFINE L == {e \in edges : WhereCursor(e)}
<1>1. Direction /\ IsFiniteSet(edges) /\ edges \subseteq Nat
  BY DEF PagingInv, TableInv, Direction
<1>2. IsFiniteSet(L) /\ L \subseteq Nat
  BY <1>1, FS_Subset
<1>3. EdgeRows = {[key |-> k] : k \in L}
  BY DEF EdgeRows
<1> HIDE DEF L
<1>4. IsFiniteSet(EdgeRows)
  <2> DEFINE f == [k \in L |-> [key |-> k]]
  <2>1. f \in Surjection(L, EdgeRows)
    BY <1>3 DEF Surjection
  <2> QED
    BY <1>2, <2>1, FS_Surjection
<1>5. \A r \in EdgeRows : r.key \in L /\ r = [key |-> r.key]
  BY <1>3
<1>6. Keyed(EdgeRows)
  BY <1>2, <1>4, <1>5 DEF Keyed
<1>7. 0 \in 0 .. Cardinality(EdgeRows) /\ Limit \in Nat \ {0}
  BY <1>1, <1>6, OrderRanks, PaginationAssumption
<1>8. \A r \in EdgeRows : Rank(EdgeRows, r) >= 0
  BY <1>1, <1>6, OrderRanks
<1>9. /\ EdgePage \in Seq(EdgeRows) /\ Ordered(EdgePage)
      /\ \A q \in ToSet(EdgePage) : q \in EdgeRows
      /\ \A r \in EdgeRows : r \notin ToSet(EdgePage) =>
           Len(EdgePage) = Limit /\ \A q \in ToSet(EdgePage) : After(r.key, q.key)
  BY <1>1, <1>6, <1>7, <1>8, PageIs DEF EdgePage
<1>10. Keys(ToSet(EdgePage)) \subseteq L
  BY <1>5, <1>9 DEF Keys
<1>11. ASSUME NEW e \in L, e \notin Keys(ToSet(EdgePage))
       PROVE  Len(EdgePage) = Limit /\ \A k \in Keys(ToSet(EdgePage)) : After(e, k)
  <2>1. [key |-> e] \in EdgeRows /\ [key |-> e].key = e
    BY <1>3
  <2>2. [key |-> e] \notin ToSet(EdgePage)
    BY <1>11, <2>1 DEF Keys
  <2> QED
    BY <1>9, <2>1, <2>2 DEF Keys
<1>12. Len(EdgePage) \in Nat
  BY <1>9
<1> QED
  BY <1>1, <1>6, <1>7, <1>9, <1>10, <1>11, <1>12 DEF L

(* A full page of edges is the edges between its first and its last.       *)
LEMMA FullEdgePage ==
  ASSUME PagingInv, UseCursor, endpoint \in EdgeLists, session.at \in {"counted", "more"},
         Len(EdgePage) = Limit
  PROVE  \E k, l \in edges : k <= l /\ {e \in edges : k <= e /\ e <= l} = Keys(ToSet(EdgePage))
<1> DEFINE P == EdgePage
           K == Keys(ToSet(P))
           a == P[1].key
           b == P[Limit].key
<1>1. /\ Direction /\ Limit \in Nat \ {0} /\ P \in Seq(EdgeRows) /\ Ordered(P)
      /\ K \subseteq {e \in edges : WhereCursor(e)}
      /\ \A e \in edges : WhereCursor(e) /\ e \notin K => \A k \in K : After(e, k)
  BY EdgePageIs
<1>2. edges \subseteq Nat
  BY DEF PagingInv, TableInv
<1>3. DOMAIN P = 1 .. Limit /\ 1 \in DOMAIN P /\ Limit \in DOMAIN P
  BY <1>1
<1>4. \A k \in K : \E i \in DOMAIN P : k = P[i].key
  BY DEF Keys, ToSet
<1>5. \A i \in DOMAIN P : P[i].key \in K
  BY DEF Keys, ToSet
<1>6. a \in K /\ b \in K /\ a \in Nat /\ b \in Nat
  BY <1>1, <1>2, <1>3, <1>5
<1>7. ASSUME NEW k \in K PROVE k \in edges /\ k \in Nat /\ ~After(a, k) /\ ~After(k, b)
  <2>1. PICK i \in DOMAIN P : k = P[i].key
    BY <1>4
  <2>2. k \in edges /\ k \in Nat
    BY <1>1, <1>2
  <2>3. 1 < i => After(k, a)
    BY <1>1, <1>3, <2>1 DEF Ordered
  <2>4. i < Limit => After(b, k)
    BY <1>1, <1>3, <2>1 DEF Ordered
  <2>5. (1 < i \/ i = 1) /\ (i < Limit \/ i = Limit)
    BY <1>3, <1>1
  <2>6. ~After(a, k)
    BY <1>1, <1>6, <2>1, <2>2, <2>3, <2>5, AfterIs
  <2>7. ~After(k, b)
    BY <1>1, <1>6, <2>1, <2>2, <2>4, <2>5, AfterIs
  <2> QED
    BY <2>2, <2>6, <2>7
<1>8. ASSUME NEW e \in edges, ~After(a, e), ~After(e, b) PROVE e \in K
  <2>1. e = a \/ After(e, a)
    BY <1>1, <1>2, <1>6, <1>8, AfterIs
  <2>2. WhereCursor(a)
    BY <1>1, <1>6
  <2>3. session.CursorValue = NoKey \/ session.CursorValue \in Nat
    <3>1. CASE session.at = "counted"
      BY <3>1 DEF PagingInv, SessionInv, StartInv
    <3>2. CASE session.at = "more"
      <4>1. /\ session.got # <<>> /\ session.CursorValue = Last(session.got).key
            /\ session.got \in Seq(RowsOf(Nat))
        BY <3>2 DEF PagingInv, SessionInv, CursorInv
      <4>2. Len(session.got) \in 1 .. Len(session.got) /\ DOMAIN session.got = 1 .. Len(session.got)
        BY <4>1, EmptySeq
      <4>3. Last(session.got) \in RowsOf(Nat)
        BY <4>1, <4>2 DEF Last
      <4>4. \A r \in RowsOf(Nat) : r.key \in Nat
        BY DEF RowsOf
      <4> QED
        BY <4>1, <4>3, <4>4
    <3> QED
      BY <3>1, <3>2
  <2>4. WhereCursor(e)
    BY <1>1, <1>2, <1>6, <2>1, <2>2, <2>3, AfterIs DEF WhereCursor
  <2> QED
    BY <1>1, <1>6, <1>8, <2>4
<1>9. a \in edges /\ b \in edges
  BY <1>6, <1>7
<1> HIDE DEF K, a, b
<1>10. CASE order = "ASC"
  <2>1. {e \in edges : a <= e /\ e <= b} = K
    <3>1. \A k \in K : k \in edges /\ a <= k /\ k <= b
      BY <1>6, <1>7, <1>10 DEF After
    <3>2. ASSUME NEW e \in edges, a <= e, e <= b PROVE e \in K
      BY <1>2, <1>6, <1>8, <3>2, <1>10 DEF After
    <3> QED
      BY <3>1, <3>2
  <2>2. a <= b
    BY <1>6, <1>7, <1>10 DEF After
  <2> QED
    BY <1>9, <2>1, <2>2 DEF K
<1>11. CASE order = "DESC"
  <2>1. {e \in edges : b <= e /\ e <= a} = K
    <3>1. \A k \in K : k \in edges /\ b <= k /\ k <= a
      BY <1>6, <1>7, <1>11 DEF After
    <3>2. ASSUME NEW e \in edges, b <= e, e <= a PROVE e \in K
      BY <1>2, <1>6, <1>8, <3>2, <1>11 DEF After
    <3> QED
      BY <3>1, <3>2
  <2>2. b <= a
    BY <1>6, <1>7, <1>11 DEF After
  <2> QED
    BY <1>9, <2>1, <2>2 DEF K
<1> QED
  BY <1>1, <1>10, <1>11 DEF Direction

LEMMA EdgePagesGood ==
  ASSUME PagingInv, UseCursor, endpoint \in EdgeLists, session.at \in {"counted", "more"},
         NEW page \in EdgePages
  PROVE  GoodPage(page)
<1> DEFINE K == Keys(ToSet(EdgePage))
           R == {r \in rows : r.key \in K}
<1>1. /\ Direction /\ Limit \in Nat \ {0}
      /\ EdgePage \in Seq(EdgeRows) /\ Ordered(EdgePage) /\ Keyed(EdgeRows)
      /\ K \subseteq {e \in edges : WhereCursor(e)}
      /\ \A e \in edges : WhereCursor(e) /\ e \notin K =>
           Len(EdgePage) = Limit /\ \A k \in K : After(e, k)
  BY EdgePageIs
<1>2. page = InOrder(R)
  BY DEF EdgePages, EdgePage, EdgeRows
<1>3. {r \in rows : WhereCursor(r.key)} = Left
  BY DEF Left
<1>4. R \subseteq Left /\ R \in SUBSET rows
  BY <1>1, <1>3
<1>5. Keyed(R)
  BY <1>4, RowsKeyed DEF PagingInv
<1> HIDE DEF R
<1>6. page \in Seq(R) /\ Ordered(page) /\ ToSet(page) = R
  BY <1>1, <1>2, <1>5, WholeOrder
<1>7. page \in Seq(Left)
  BY <1>4, <1>6
<1>8. \A r \in rows : r.key \in edges
  BY DEF PagingInv, TableInv, Keys
<1>9. ASSUME NEW r \in Left \ R PROVE Len(EdgePage) = Limit /\ \A q \in R : After(r.key, q.key)
  <2>1. r.key \in edges /\ WhereCursor(r.key) /\ r.key \notin K
    BY <1>3, <1>8 DEF R
  <2> QED
    BY <1>1, <2>1 DEF R
<1>10. ASSUME page = <<>>, ~OrphanPage PROVE Left = {}
  <2> SUFFICES ASSUME NEW r \in Left PROVE FALSE
    OBVIOUS
  <2>1. R = {}
    BY <1>6, <1>10 DEF ToSet
  <2>2. Len(EdgePage) = Limit
    BY <1>9, <2>1
  <2>3. PICK k \in edges, l \in edges : k <= l /\ {e \in edges : k <= e /\ e <= l} = K
    BY <2>2, FullEdgePage
  <2>4. Cardinality(K) = Limit
    BY <1>1, <2>2, OrderedCount DEF Keyed
  <2>5. \A q \in rows : ~(k <= q.key /\ q.key <= l)
    BY <1>8, <2>1, <2>3 DEF R
  <2> HIDE DEF K
  <2> QED
    BY <1>10, <2>3, <2>4, <2>5 DEF OrphanPage
<1> QED
  BY <1>6, <1>7, <1>9, <1>10 DEF GoodPage

(* The rows that the client has are the first ones: the offset is their    *)
(* number.                                                                 *)
LEMMA OffsetPagesGood ==
  ASSUME PagingInv, ~UseCursor, ~disturbed, ~Ties, session.at \in {"counted", "more"},
         NEW page \in Pages
  PROVE  GoodPage(page)
<1> DEFINE from == session.Offset
<1>1. Quiet /\ Base = rows /\ Remaining = rows \ Got
  BY DEF Quiet, Base, Remaining
<1>2. Keyed(rows) /\ Direction
  BY RowsKeyed DEF PagingInv
<1>3. /\ session.got \in Seq(rows) /\ Ordered(session.got) /\ Got \subseteq rows
      /\ \A r \in rows \ Got, q \in Got : After(r.key, q.key)
  BY <1>1, GotRows
<1>4. from = Len(session.got)
  <2>1. CASE session.at = "counted"
    <3>1. session.got = <<>> /\ session.Offset = 0
      BY <2>1 DEF PagingInv, SessionInv, StartInv
    <3> QED
      BY <3>1
  <2>2. CASE session.at = "more"
    BY <1>1, <2>2 DEF PagingInv, SessionInv, MoreInv
  <2> QED
    BY <2>1, <2>2
<1>5. IsFiniteSet(Got) /\ Cardinality(Got) = from
  BY <1>2, <1>3, <1>4, OrderedCount DEF Got, Keyed
<1>6. from \in Nat /\ Cardinality(rows) \in Nat /\ from <= Cardinality(rows)
  BY <1>2, <1>3, <1>5, FS_Subset, FS_CardinalityType DEF Keyed
<1>7. from \in 0 .. Cardinality(rows)
  BY <1>6
<1>8. \A r \in rows : r.key \in Nat /\ Rank(rows, r) \in Nat /\ IsFiniteSet(Ahead(rows, r))
  <2> SUFFICES ASSUME NEW r \in rows PROVE r.key \in Nat /\ Rank(rows, r) \in Nat /\ IsFiniteSet(Ahead(rows, r))
    OBVIOUS
  <2>1. Ahead(rows, r) \in SUBSET rows
    BY DEF Ahead
  <2>2. IsFiniteSet(Ahead(rows, r))
    BY <1>2, <2>1, FS_Subset DEF Keyed
  <2> QED
    BY <1>2, <2>2, FS_CardinalityType DEF Keyed, Rank
<1>9. ASSUME NEW r \in Got PROVE Rank(rows, r) < from
  <2>1. Ahead(rows, r) \in SUBSET Got
    <3>1. ASSUME NEW q \in rows, After(r.key, q.key), q \notin Got PROVE FALSE
      <4>1. After(q.key, r.key) /\ q.key \in Nat /\ r.key \in Nat
        BY <1>3, <1>8, <3>1
      <4> QED
        BY <1>2, <3>1, <4>1, AfterIs
    <3> QED
      BY <3>1 DEF Ahead
  <2>2. r \notin Ahead(rows, r)
    BY <1>2, <1>3, <1>8, AfterIs DEF Ahead
  <2>3. Rank(rows, r) <= from /\ (from = Rank(rows, r) => Got = Ahead(rows, r))
    BY <1>5, <2>1, FS_Subset DEF Rank
  <2>4. Rank(rows, r) \in Nat
    BY <1>3, <1>8
  <2> QED
    BY <1>6, <2>2, <2>3, <2>4
<1>10. ASSUME NEW r \in rows \ Got PROVE Rank(rows, r) >= from
  <2>1. Got \in SUBSET Ahead(rows, r)
    BY <1>3 DEF Ahead
  <2> QED
    BY <1>5, <1>6, <1>8, <2>1, FS_Subset DEF Rank
<1>11. page = Take(InOrder(rows), from, Limit)
  BY <1>2, KeysCount DEF Pages
<1> HIDE DEF from
<1>12. /\ page \in Seq(rows) /\ Ordered(page) /\ Len(page) <= Limit
       /\ \A q \in ToSet(page) : q \in rows /\ Rank(rows, q) >= from
       /\ \A r \in rows : Rank(rows, r) >= from /\ r \notin ToSet(page) =>
            Len(page) = Limit /\ \A q \in ToSet(page) : After(r.key, q.key)
  BY <1>2, <1>7, <1>11, PageIs
<1>13. ToSet(page) \subseteq Remaining
  BY <1>1, <1>6, <1>8, <1>9, <1>12
<1>14. page \in Seq(Remaining)
  <2>1. Len(page) \in Nat /\ DOMAIN page = 1 .. Len(page)
    BY <1>12
  <2>2. \A i \in 1 .. Len(page) : page[i] \in Remaining
    BY <1>13, <2>1 DEF ToSet
  <2>3. page \in [1 .. Len(page) -> Remaining]
    BY <1>12, <2>1, <2>2
  <2> QED
    BY <2>1, <2>3
<1>15. \A r \in Remaining \ ToSet(page) : Len(page) = Limit /\ \A q \in ToSet(page) : After(r.key, q.key)
  BY <1>1, <1>10, <1>12
<1>16. Len(page) < Limit => Remaining \subseteq ToSet(page)
  BY <1>12, <1>15, PaginationAssumption
<1>17. Left = Remaining
  BY DEF Left
<1> QED
  BY <1>12, <1>14, <1>15, <1>16, <1>17 DEF GoodPage

LEMMA ResponseIs ==
  ASSUME SessionInv, NEW page, session' = Response(page)
  PROVE  /\ DOMAIN session' = {"at", "CursorValue", "Offset", "got", "total"}
         /\ session'.total = session.total /\ session'.got = session.got \o page
         /\ session'.at \in {"more", "end"}
         /\ UseCursor /\ page # <<>> => session'.at = "more" /\ session'.CursorValue = Last(page).key
         /\ UseCursor /\ page = <<>> => session'.at = "end"
         /\ ~UseCursor /\ Len(page) = Limit =>
              session'.at = "more" /\ session'.Offset = session.Offset + Limit
         /\ ~UseCursor /\ Len(page) # Limit => session'.at = "end"
<1>1. CASE UseCursor /\ page # <<>>
  <2>1. session' = [session EXCEPT !.at = "more", !.got = session.got \o page,
                                   !.CursorValue = Last(page).key]
    BY <1>1 DEF Response, GetCursorData
  <2> QED
    BY <1>1, <2>1 DEF SessionInv
<1>2. CASE ~UseCursor /\ Len(page) = Limit
  <2>1. session' = [session EXCEPT !.at = "more", !.got = session.got \o page, !.Offset = @ + Limit]
    BY <1>2 DEF Response
  <2> QED
    BY <1>2, <2>1 DEF SessionInv
<1>3. CASE ~(UseCursor /\ page # <<>>) /\ ~(~UseCursor /\ Len(page) = Limit)
  <2>1. session' = [session EXCEPT !.at = "end", !.got = session.got \o page]
    BY <1>3 DEF Response
  <2> QED
    BY <1>3, <2>1 DEF SessionInv
<1> QED
  BY <1>1, <1>2, <1>3

(* Edges that all have their row are no more than the rows.                *)
LEMMA CountIs ==
  ASSUME TableInv, endpoint \in EdgeLists => edges \subseteq Keys(rows)
  PROVE  Cardinality(rows) \in Nat /\ CountNow \in Nat /\ CountNow <= Cardinality(rows)
<1>1. Cardinality(rows) \in Nat /\ Cardinality(edges) \in Nat
  BY FS_CardinalityType DEF TableInv
<1>2. CASE endpoint \in EdgeLists
  <2>1. UseCursor
    BY <1>2 DEF UseCursor, defaultCursorType
  <2>2. Keyed(rows)
    BY <2>1, RowsKeyed
  <2>3. IsFiniteSet(Keys(rows)) /\ Cardinality(Keys(rows)) = Cardinality(rows)
    BY <2>2, KeysCount
  <2>4. Cardinality(edges) <= Cardinality(rows)
    BY <1>2, <2>3, FS_Subset
  <2> QED
    BY <1>1, <1>2, <2>4 DEF CountNow
<1>3. CASE endpoint \notin EdgeLists
  BY <1>1, <1>3 DEF CountNow
<1> QED
  BY <1>2, <1>3

(* A page of a cursor, whether the tables were reconciled or not.          *)
LEMMA PageStepCursor ==
  ASSUME PagingInv, session.at \in {"counted", "more"}, NEW page,
         UNCHANGED <<endpoint, order, rows, edges>>, session' = Response(page),
         atStart' = (IF session.at = "counted" THEN rows ELSE atStart),
         UseCursor => GoodPage(page)
  PROVE  CursorInv'
<1>1. endpoint' = endpoint /\ order' = order /\ rows' = rows /\ edges' = edges
  OBVIOUS
<1>2. (UseCursor' <=> UseCursor) /\ (OrphanPage' <=> OrphanPage)
  BY <1>1 DEF UseCursor, defaultCursorType, OrphanPage
<1>3. CASE ~UseCursor
  BY <1>2, <1>3 DEF CursorInv
<1>4. CASE UseCursor
  <2>1. /\ session'.got = session.got \o page /\ session'.at \in {"more", "end"}
        /\ page # <<>> => session'.at = "more" /\ session'.CursorValue = Last(page).key
        /\ page = <<>> => session'.at = "end"
    BY <1>4, ResponseIs DEF PagingInv
  <2>2. /\ page \in Seq(Left) /\ Ordered(page)
        /\ \A r \in Left \ ToSet(page), q \in ToSet(page) : After(r.key, q.key)
        /\ page = <<>> /\ (endpoint \in EdgeLists => ~OrphanPage) => Left = {}
        /\ Left = {r \in rows : WhereCursor(r.key)}
    BY <1>4 DEF GoodPage, Left
  <2>3. /\ rows \subseteq RowsOf(Nat) /\ Direction
        /\ \A r \in rows : r.key \in Nat
    <3>1. \A r \in rows : r.key \in Nat /\ r = [key |-> r.key, id |-> r.key]
      BY <1>4 DEF PagingInv, TableInv
    <3> QED
      BY <3>1 DEF PagingInv, TableInv, RowsOf, Direction
  <2>4. /\ session.got \in Seq(RowsOf(Nat)) /\ Ordered(session.got)
        /\ \A r \in Left, q \in Got : After(r.key, q.key)
        /\ atStart' \subseteq rows /\ atStart' \subseteq Got \union Left
    <3>1. CASE session.at = "counted"
      <4>1. session.got = <<>> /\ session.CursorValue = NoKey
        BY <3>1 DEF PagingInv, SessionInv, StartInv
      <4>2. Got = {} /\ session.got \in Seq(RowsOf(Nat)) /\ Ordered(session.got)
        BY <4>1 DEF Got, ToSet, Ordered
      <4>3. Left = rows /\ atStart' = rows
        BY <2>2, <3>1, <4>1 DEF WhereCursor
      <4> QED
        BY <4>2, <4>3
    <3>2. CASE session.at = "more"
      <4> DEFINE got == session.got
                 last == Last(got)
      <4>1. /\ got \in Seq(RowsOf(Nat)) /\ Ordered(got) /\ got # <<>>
            /\ session.CursorValue = last.key /\ atStart \subseteq rows
            /\ \A r \in atStart \ Got, q \in Got : After(r.key, q.key)
        BY <1>4, <3>2 DEF PagingInv, SessionInv, CursorInv
      <4>2. Len(got) \in Nat \ {0} /\ DOMAIN got = 1 .. Len(got) /\ Len(got) \in DOMAIN got
        BY <4>1, EmptySeq
      <4>3. \A i \in DOMAIN got : got[i].key \in Nat
        <5>1. \A i \in DOMAIN got : got[i] \in RowsOf(Nat)
          BY <4>1, <4>2
        <5> QED
          BY <5>1 DEF RowsOf
      <4>4. last \in Got /\ last.key \in Nat /\ session.CursorValue # NoKey
        BY <4>1, <4>2, <4>3 DEF Last, Got, ToSet, NoKey
      <4>5. ASSUME NEW r \in Left, NEW q \in Got PROVE After(r.key, q.key)
        <5>1. After(r.key, last.key) /\ r.key \in Nat
          BY <2>2, <2>3, <4>1, <4>4 DEF WhereCursor
        <5>2. PICK i \in DOMAIN got : q = got[i]
          BY DEF Got, ToSet
        <5>3. q.key \in Nat /\ (i = Len(got) \/ i < Len(got))
          BY <4>2, <4>3, <5>2
        <5>4. i < Len(got) => After(last.key, q.key)
          BY <4>1, <4>2, <5>2 DEF Ordered, Last
        <5>5. i = Len(got) => q = last
          BY <5>2 DEF Last
        <5> QED
          BY <2>3, <4>4, <5>1, <5>3, <5>4, <5>5, AfterIs
      <4>6. ASSUME NEW r \in atStart PROVE r \in Got \union Left
        BY <2>2, <4>1, <4>4 DEF WhereCursor
      <4> QED
        BY <3>2, <4>1, <4>5, <4>6
    <3> QED
      BY <3>1, <3>2
  <2>5. ToSet(page) \subseteq Left /\ page \in Seq(RowsOf(Nat))
    <3>1. Left \subseteq RowsOf(Nat)
      BY <2>2, <2>3
    <3> QED
      BY <2>2, <3>1 DEF ToSet
  <2>6. /\ session'.got \in Seq(RowsOf(Nat)) /\ Got' = Got \union ToSet(page)
        /\ page # <<>> => session'.got # <<>> /\ Last(session'.got) = Last(page)
    BY <2>1, <2>4, <2>5, SeqAppend DEF Got
  <2>7. Ordered(session'.got)
    BY <2>1, <2>2, <2>4, <2>5, OrderedAppend DEF Got
  <2>8. Ordered(session.got)'
    BY <1>1, <2>7 DEF Ordered, After
  <2>9. ASSUME NEW r \in atStart' \ Got', NEW q \in Got' PROVE After(r.key, q.key)
    BY <2>2, <2>4, <2>6
  <2>10. (\A r \in atStart \ Got, q \in Got : After(r.key, q.key))'
    BY <1>1, <2>9 DEF After
  <2>11. session'.at = "more" =>
           session'.got # <<>> /\ session'.CursorValue = Last(session'.got).key
    BY <2>1, <2>6
  <2>12. session'.at = "end" /\ (endpoint \in EdgeLists => ~OrphanPage) => atStart' \subseteq Got'
    BY <2>1, <2>2, <2>4, <2>6
  <2>13. (session.got \in Seq(RowsOf(Nat)))' /\ (atStart \subseteq rows)'
    BY <1>1, <2>4, <2>6 DEF RowsOf
  <2>14. (session.at = "end" /\ (endpoint \in EdgeLists => ~OrphanPage) => atStart \subseteq Got)'
    BY <1>1, <1>2, <2>12
  <2> QED
    BY <2>8, <2>10, <2>11, <2>13, <2>14 DEF CursorInv
<1> QED
  BY <1>3, <1>4

LEMMA PageStep ==
  ASSUME PagingInv, session.at \in {"counted", "more"}, NEW page,
         UNCHANGED <<endpoint, order, rows, edges>>, session' = Response(page),
         atStart' = (IF session.at = "counted" THEN rows ELSE atStart),
         disturbed' = (disturbed \/ Ties),
         UseCursor \/ (Quiet /\ ~Ties) => GoodPage(page)
  PROVE  SessionInv'
<1>1. /\ DOMAIN session' = {"at", "CursorValue", "Offset", "got", "total"}
      /\ session'.total = session.total /\ session'.got = session.got \o page
      /\ session'.at \in {"more", "end"}
      /\ UseCursor /\ page # <<>> => session'.at = "more" /\ session'.CursorValue = Last(page).key
      /\ UseCursor /\ page = <<>> => session'.at = "end"
      /\ ~UseCursor /\ Len(page) = Limit =>
           session'.at = "more" /\ session'.Offset = session.Offset + Limit
      /\ ~UseCursor /\ Len(page) # Limit => session'.at = "end"
  BY ResponseIs DEF PagingInv
<1>2. endpoint' = endpoint /\ order' = order /\ rows' = rows /\ edges' = edges
  OBVIOUS
<1>3. (UseCursor' <=> UseCursor) /\ (Ties' <=> Ties) /\ (OrphanPage' <=> OrphanPage) /\ Skew' = Skew
  BY <1>2 DEF UseCursor, defaultCursorType, Ties, OrphanPage, Skew
<1>4. session.total \in Int
  BY DEF PagingInv, SessionInv
<1>5. StartInv'
  BY <1>1 DEF StartInv
<1>6. ASSUME ~Quiet' PROVE GotInv' /\ MoreInv' /\ EndInv'
  BY <1>6 DEF GotInv, MoreInv, EndInv
<1>7. ASSUME Quiet' PROVE GotInv' /\ MoreInv' /\ EndInv'
  <2>1. Quiet /\ (UseCursor \/ ~Ties)
    BY <1>3, <1>7 DEF Quiet
  <2>2. GoodPage(page) /\ Left = Remaining
    BY <2>1, RequestLeaves
  <2>3. /\ session.got \in Seq(rows) /\ Ordered(session.got) /\ Got \subseteq rows
        /\ Base \subseteq rows /\ Got \subseteq Base
        /\ \A r \in Remaining, q \in Got : After(r.key, q.key)
    BY <2>1, GotRows
  <2>4. /\ page \in Seq(Remaining) /\ Ordered(page)
        /\ \A r \in Remaining \ ToSet(page), q \in ToSet(page) : After(r.key, q.key)
    BY <2>2 DEF GoodPage
  <2>5. Remaining \subseteq rows /\ ToSet(page) \subseteq Remaining /\ page \in Seq(rows)
    BY <2>3, <2>4 DEF Remaining, ToSet
  <2>6. /\ session'.got \in Seq(rows) /\ Got' = Got \union ToSet(page)
        /\ page # <<>> => session'.got # <<>> /\ Last(session'.got) = Last(page)
        /\ Len(session'.got) = Len(session.got) + Len(page)
    BY <1>1, <2>3, <2>5, SeqAppend DEF Got
  <2>7. Ordered(session'.got)
    BY <1>1, <2>3, <2>4, <2>5, OrderedAppend DEF Got
  <2>8. Ordered(session.got)'
    BY <1>2, <2>7 DEF Ordered, After
  <2>9. /\ Base' = Base /\ atStart' \subseteq rows /\ atStart' \subseteq Base
        /\ UseCursor /\ order = "DESC" => atStart' = Base
        /\ UseCursor /\ order = "DESC" => \A r \in rows \ atStart', q \in atStart' : r.key > q.key
    <3>1. CASE session.at = "counted"
      <4>1. atStart' = rows /\ Base = rows
        BY <3>1 DEF Base
      <4>2. Base' = rows
        BY <1>1, <1>2, <4>1 DEF Base
      <4> QED
        BY <4>1, <4>2
    <3>2. CASE session.at = "more"
      <4>1. /\ atStart' = atStart /\ atStart \subseteq rows
            /\ UseCursor /\ order = "DESC" => \A r \in rows \ atStart, q \in atStart : r.key > q.key
        BY <2>1, <3>2 DEF PagingInv, SessionInv, GotInv
      <4>2. Base' = Base
        BY <1>1, <1>2, <1>3, <3>2, <4>1 DEF Base
      <4> QED
        BY <3>2, <4>1, <4>2 DEF Base
    <3> QED
      BY <3>1, <3>2
  <2>10. (endpoint \in EdgeLists => edges \subseteq Keys(rows)) =>
           session.total - Skew <= Cardinality(atStart')
    <3> SUFFICES ASSUME endpoint \in EdgeLists => edges \subseteq Keys(rows)
                 PROVE  session.total - Skew <= Cardinality(atStart')
      OBVIOUS
    <3>1. CASE session.at = "counted"
      <4>1. session.total - Skew <= CountNow
        BY <2>1, <3>1 DEF PagingInv, SessionInv, StartInv
      <4>2. Cardinality(rows) \in Nat /\ CountNow \in Nat /\ CountNow <= Cardinality(rows)
        BY CountIs DEF PagingInv
      <4>3. Skew \in Int
        BY PaginationAssumption DEF Skew
      <4>4. session.total - Skew <= Cardinality(rows)
        BY <1>4, <4>1, <4>2, <4>3
      <4> QED
        BY <3>1, <4>4
    <3>2. CASE session.at = "more"
      BY <2>1, <3>2 DEF PagingInv, SessionInv, GotInv
    <3> QED
      BY <3>1, <3>2
  <2>11. Got' \subseteq Base
    BY <2>3, <2>5, <2>6 DEF Remaining
  <2>12. GotInv'
    <3>1. (endpoint \in EdgeLists => edges \subseteq Keys(rows))' =>
             (endpoint \in EdgeLists => edges \subseteq Keys(rows))
      BY <1>2 DEF Keys
    <3>2. (session.total - Skew)' = session.total - Skew
      BY <1>1, <1>3
    <3>3. (UseCursor /\ order = "DESC")' => UseCursor /\ order = "DESC"
      BY <1>2, <1>3
    <3>4. ((endpoint \in EdgeLists => edges \subseteq Keys(rows)) =>
             session.total - Skew <= Cardinality(atStart))'
      BY <2>10, <3>1, <3>2
    <3>5. (UseCursor /\ order = "DESC" =>
             Got \subseteq atStart /\ \A r \in rows \ atStart, q \in atStart : r.key > q.key)'
      BY <1>2, <2>9, <2>11, <3>3
    <3>6. (session.got \in Seq(rows))' /\ (atStart \subseteq rows)'
      BY <1>2, <2>6, <2>9
    <3> QED
      BY <2>8, <3>4, <3>5, <3>6 DEF GotInv
  <2>13. MoreInv'
    <3> SUFFICES ASSUME session'.at = "more"
                 PROVE  (/\ \A r \in Base \ Got, q \in Got : After(r.key, q.key)
                         /\ ~UseCursor => session.Offset = Len(session.got) /\ ~Ties)'
      BY DEF MoreInv
    <3>1. ASSUME NEW r \in Base' \ Got', NEW q \in Got' PROVE After(r.key, q.key)
      <4>1. r \in Remaining \ ToSet(page)
        BY <2>6, <2>9 DEF Remaining
      <4> QED
        BY <2>3, <2>4, <2>6, <4>1
    <3>2. (\A r \in Base \ Got, q \in Got : After(r.key, q.key))'
      BY <1>2, <3>1 DEF After
    <3>4. ASSUME ~UseCursor PROVE session'.Offset = Len(session'.got) /\ ~Ties
      <4>1. Len(page) = Limit /\ session'.Offset = session.Offset + Limit
        BY <1>1, <3>4
      <4>2. session.Offset = Len(session.got)
        <5>1. CASE session.at = "counted"
          <6>1. session.got = <<>> /\ session.Offset = 0
            BY <5>1 DEF PagingInv, SessionInv, StartInv
          <6> QED
            BY <6>1
        <5>2. CASE session.at = "more"
          BY <2>1, <3>4, <5>2 DEF PagingInv, SessionInv, MoreInv
        <5> QED
          BY <5>1, <5>2
      <4> QED
        BY <2>1, <2>6, <3>4, <4>1, <4>2
    <3> QED
      BY <1>3, <3>2, <3>4
  <2>14. EndInv'
    <3> SUFFICES ASSUME session'.at = "end", endpoint \in EdgeLists => ~OrphanPage
                 PROVE  (atStart \subseteq Got)'
      BY <1>2, <1>3 DEF EndInv
    <3>1. Remaining \subseteq ToSet(page)
      <4>1. CASE UseCursor
        <5>1. page = <<>>
          BY <1>1, <4>1
        <5> QED
          BY <2>2, <4>1, <5>1 DEF GoodPage
      <4>2. CASE ~UseCursor
        <5>1. Len(page) # Limit /\ Len(page) <= Limit /\ Len(page) \in Nat /\ Limit \in Nat
          BY <1>1, <2>2, <2>4, <4>2, PaginationAssumption DEF GoodPage
        <5>2. Len(page) < Limit
          BY <5>1
        <5> QED
          BY <2>2, <4>2, <5>2 DEF GoodPage
      <4> QED
        BY <4>1, <4>2
    <3> QED
      BY <2>6, <2>9, <3>1 DEF Remaining
  <2> QED
    BY <2>12, <2>13, <2>14
<1> QED
  BY <1>1, <1>4, <1>5, <1>6, <1>7, PageStepCursor DEF SessionInv
-----------------------------------------------------------------------------
(* The total that a handler may begin with: no more than there is.         *)
GoodTotal(total) == total \in Int /\ total - Skew <= CountNow

LEMMA CountStep ==
  ASSUME PagingInv, session.at = "first", NEW total, GoodTotal(total),
         session' = [session EXCEPT !.at = "counted", !.total = total],
         UNCHANGED <<endpoint, order, rows, edges, atStart, disturbed>>
  PROVE  SessionInv'
<1>1. /\ DOMAIN session' = {"at", "CursorValue", "Offset", "got", "total"}
      /\ session'.at = "counted" /\ session'.total = total
      /\ session'.got = session.got /\ session'.CursorValue = session.CursorValue
      /\ session'.Offset = session.Offset
  BY DEF PagingInv, SessionInv
<1>2. session.got = <<>> /\ session.CursorValue = NoKey /\ session.Offset = 0
  BY DEF PagingInv, SessionInv, StartInv
<1>3. Skew' = Skew /\ CountNow' = CountNow
  BY DEF Skew, CountNow
<1>4. StartInv'
  BY <1>1, <1>2, <1>3 DEF StartInv, GoodTotal, NoKey
<1>5. CursorInv' /\ GotInv' /\ MoreInv' /\ EndInv'
  BY <1>1 DEF CursorInv, GotInv, MoreInv, EndInv
<1> QED
  BY <1>1, <1>4, <1>5 DEF SessionInv, GoodTotal

(* The largest of a set without gaps tells how many it has.                *)
LEMMA IntervalCount ==
  ASSUME NEW a \in Nat \ {0}, NEW b \in Nat
  PROVE  /\ IsFiniteSet(a .. b)
         /\ a <= b => Max(a .. b) = b /\ Cardinality(a .. b) = b - a + 1
         /\ Cardinality(1 .. b) = b
<1>1. /\ IsFiniteSet(a .. b) /\ Cardinality(a .. b) = (IF a > b THEN 0 ELSE b - a + 1)
      /\ Cardinality(1 .. b) = IF 1 > b THEN 0 ELSE b - 1 + 1
  BY FS_Interval
<1>2. ASSUME a <= b PROVE Max(a .. b) = b
  <2>1. a .. b \in SUBSET Nat /\ b \in a .. b
    BY <1>2
  <2>2. Max(a .. b) \in a .. b /\ Max(a .. b) >= b
    BY <1>1, <2>1, LargestIs
  <2> QED
    BY <2>2
<1>3. Cardinality(1 .. b) = b
  BY <1>1
<1>4. a <= b => Cardinality(a .. b) = b - a + 1
  BY <1>1
<1> QED
  BY <1>1, <1>2, <1>3, <1>4

LEMMA Totals ==
  ASSUME TableInv
  PROVE  /\ endpoint = "txs" => \A total \in getCountByMax(edges) : GoodTotal(total)
         /\ endpoint \in EdgeLists => \A total \in GetCountWithTimeout(edges) : GoodTotal(total)
         /\ endpoint \notin EdgeLists => \A total \in GetOptimizedCount(TRUE) : GoodTotal(total)
         /\ endpoint \in {"evm_txs", "internal_txs"} =>
              \A total \in GetOptimizedCount(FALSE) : GoodTotal(total)
         /\ endpoint = "blocks" => \A total \in getCountByMax(Keys(rows)) : GoodTotal(total)
         /\ endpoint \in OffsetLists => GoodTotal(0) /\ GoodTotal(Cardinality(rows))
<1>1. /\ Cardinality(rows) \in Nat /\ Cardinality(edges) \in Nat
      /\ Skew \in Nat /\ First \in Nat \ {0}
  BY FS_CardinalityType, PaginationAssumption DEF TableInv, Skew
<1>2. endpoint # "blocks" => Skew = 0
  BY DEF Skew
<1>3. endpoint \in EdgeLists => CountNow = Cardinality(edges)
  BY DEF CountNow
<1>4. endpoint \notin EdgeLists => CountNow = Cardinality(rows)
  BY DEF CountNow
<1>5. ASSUME endpoint = "txs" PROVE \A total \in getCountByMax(edges) : GoodTotal(total)
  <2>1. PICK n \in Nat : edges = 1 .. n
    BY <1>5 DEF TableInv
  <2>2. endpoint \in EdgeLists /\ Skew = 0
    BY <1>2, <1>5 DEF EdgeLists
  <2>3. Cardinality(edges) = n /\ (n # 0 => Max(edges) = n)
    BY <2>1, IntervalCount
  <2>4. edges # {} => n # 0
    BY <2>1
  <2>5. \A total \in getCountByMax(edges) : total = 0 \/ total = n
    BY <2>3, <2>4 DEF getCountByMax
  <2> QED
    BY <1>3, <2>2, <2>3, <2>5 DEF GoodTotal
<1>6. ASSUME endpoint \in EdgeLists PROVE \A total \in GetCountWithTimeout(edges) : GoodTotal(total)
  <2>1. Skew = 0
    BY <1>2, <1>6 DEF EdgeLists
  <2> QED
    BY <1>1, <1>3, <1>6, <2>1 DEF GetCountWithTimeout, GoodTotal
<1>7. ASSUME endpoint \notin EdgeLists PROVE \A total \in GetOptimizedCount(TRUE) : GoodTotal(total)
  BY <1>1, <1>4, <1>7 DEF GetOptimizedCount, GetCountWithTimeout, GoodTotal
<1>8. ASSUME endpoint \in {"evm_txs", "internal_txs"}
      PROVE  \A total \in GetOptimizedCount(FALSE) : GoodTotal(total)
  <2>1. PICK n \in Nat : Keys(rows) = 1 .. n
    BY <1>8 DEF TableInv
  <2>2. endpoint \notin EdgeLists /\ Skew = 0 /\ UseCursor
    BY <1>2, <1>8 DEF EdgeLists, SequenceLists, UseCursor, defaultCursorType
  <2>3. Cardinality(rows) = n /\ (n # 0 => Max(Keys(rows)) = n)
    BY <2>1, <2>2, IntervalCount, RowsKeyed, KeysCount
  <2>4. Keys(rows) # {} => n # 0
    BY <2>1
  <2>5. \A total \in GetOptimizedCount(FALSE) : total = 0 \/ total = n
    BY <2>3, <2>4 DEF getCountByMax, GetOptimizedCount
  <2>6. CountNow = n /\ Skew = 0
    BY <1>4, <2>2, <2>3
  <2>7. GoodTotal(0) /\ GoodTotal(n)
    BY <2>6 DEF GoodTotal
  <2> QED
    BY <2>5, <2>7
<1>9. ASSUME endpoint = "blocks" PROVE \A total \in getCountByMax(Keys(rows)) : GoodTotal(total)
  <2>1. PICK n \in Nat : Keys(rows) = First .. First + n
    BY <1>9 DEF TableInv
  <2>2. endpoint \notin EdgeLists /\ Skew = First - 1 /\ UseCursor
    BY <1>9 DEF EdgeLists, Skew, UseCursor, defaultCursorType, SequenceLists
  <2>3. First + n \in Nat /\ First <= First + n /\ First + n - First + 1 = n + 1
    BY <1>1
  <2>4. Cardinality(rows) = n + 1 /\ Max(Keys(rows)) = First + n
    BY <1>1, <2>1, <2>2, <2>3, IntervalCount, RowsKeyed, KeysCount
  <2>5. Keys(rows) # {}
    BY <1>1, <2>1
  <2>6. \A total \in getCountByMax(Keys(rows)) : total = First + n
    BY <2>4, <2>5 DEF getCountByMax
  <2> QED
    BY <1>1, <1>4, <2>2, <2>4, <2>6 DEF GoodTotal
<1>10. ASSUME endpoint \in OffsetLists PROVE GoodTotal(0) /\ GoodTotal(Cardinality(rows))
  <2>1. endpoint \notin EdgeLists
    BY <1>10 DEF EdgeLists, OffsetLists
  <2> QED
    BY <1>1, <1>4, <2>1 DEF GoodTotal
<1> QED
  BY <1>5, <1>6, <1>7, <1>8, <1>9, <1>10

(* What every handler does.                                                *)
Served ==
  \/ /\ session.at = "first"
     /\ \E total : GoodTotal(total) /\ session' = [session EXCEPT !.at = "counted", !.total = total]
     /\ UNCHANGED <<atStart, disturbed>>
  \/ /\ session.at \in {"counted", "more"}
     /\ \E page : (UseCursor \/ (Quiet /\ ~Ties) => GoodPage(page)) /\ session' = Response(page)
     /\ atStart' = IF session.at = "counted" THEN rows ELSE atStart
     /\ disturbed' = (disturbed \/ Ties)

LEMMA AllServed ==
  ASSUME PagingInv, Handler, ~NoNft
  PROVE  Served /\ UNCHANGED <<endpoint, order, rows, edges>>
<1>1. ASSUME session.at \in {"counted", "more"}, UseCursor \/ (Quiet /\ ~Ties)
      PROVE  /\ endpoint \in EdgeLists => \A page \in EdgePages : GoodPage(page)
             /\ endpoint \notin EdgeLists => \A page \in Pages : GoodPage(page)
  <2>1. endpoint \in EdgeLists => UseCursor
    BY DEF UseCursor, defaultCursorType
  <2>2. endpoint \in EdgeLists => \A page \in EdgePages : GoodPage(page)
    BY <1>1, <2>1, EdgePagesGood
  <2>3. ~UseCursor => ~disturbed
    BY <1>1 DEF Quiet
  <2>4. endpoint \notin EdgeLists => \A page \in Pages : GoodPage(page)
    BY <1>1, <2>3, CursorPages, OffsetPagesGood
  <2> QED
    BY <2>2, <2>4
<1>2. TableInv
  BY DEF PagingInv
<1>3. \A l \in EdgeLists : l \notin OffsetLists
  BY DEF EdgeLists, OffsetLists
<1>4. CASE GetTxs
  <2>1. endpoint = "txs" /\ endpoint \in EdgeLists
    BY <1>4 DEF GetTxs, Serve, EdgeLists
  <2>2. \A total \in getCountByMax(edges) : GoodTotal(total)
    BY <1>2, <2>1, Totals
  <2> QED
    BY <1>1, <1>4, <2>1, <2>2 DEF GetTxs, Serve, Served
<1>5. CASE GetTxsByAccount \/ GetEvmTxsByAccount \/ GetEvmInternalTxsByAccount
  <2>1. endpoint \in EdgeLists
    BY <1>5 DEF GetTxsByAccount, GetEvmTxsByAccount, GetEvmInternalTxsByAccount, Serve, EdgeLists
  <2>2. \A total \in GetCountWithTimeout(edges) : GoodTotal(total)
    BY <1>2, <2>1, Totals
  <2> QED
    BY <1>1, <1>5, <2>1, <2>2
       DEF GetTxsByAccount, GetEvmTxsByAccount, GetEvmInternalTxsByAccount, Serve, Served
<1>6. CASE \/ GetTxsByHeight \/ GetEvmTxsByHeight \/ GetEvmInternalTxsByHeight
           \/ GetEvmInternalTxsByHash \/ GetNftTxs
           \/ GetTokensByCollectionAddr \/ GetTokensByAccount
  <2>1. endpoint \notin EdgeLists
    BY <1>6 DEF GetTxsByHeight, GetEvmTxsByHeight, GetEvmInternalTxsByHeight, GetEvmInternalTxsByHash,
                GetNftTxs, GetTokensByCollectionAddr, GetTokensByAccount, Serve, EdgeLists
  <2>2. \A total \in GetOptimizedCount(TRUE) : GoodTotal(total)
    BY <1>2, <2>1, Totals
  <2> QED
    BY <1>1, <1>6, <2>1, <2>2
       DEF GetTxsByHeight, GetEvmTxsByHeight, GetEvmInternalTxsByHeight, GetEvmInternalTxsByHash,
           GetNftTxs, GetTokensByCollectionAddr, GetTokensByAccount, Serve, Served
<1>7. CASE GetEvmTxs \/ GetEvmInternalTxs
  <2>1. endpoint \in {"evm_txs", "internal_txs"} /\ endpoint \notin EdgeLists
    BY <1>7 DEF GetEvmTxs, GetEvmInternalTxs, Serve, EdgeLists
  <2>2. \A total \in GetOptimizedCount(FALSE) : GoodTotal(total)
    BY <1>2, <2>1, Totals
  <2> QED
    BY <1>1, <1>7, <2>1, <2>2 DEF GetEvmTxs, GetEvmInternalTxs, Serve, Served
<1>8. CASE GetBlocks
  <2>1. endpoint = "blocks" /\ endpoint \notin EdgeLists
    BY <1>8 DEF GetBlocks, Serve, EdgeLists
  <2>2. \A total \in getCountByMax(Keys(rows)) : GoodTotal(total)
    BY <1>2, <2>1, Totals
  <2> QED
    BY <1>1, <1>8, <2>1, <2>2 DEF GetBlocks, Serve, Served
<1>9. CASE GetCollections \/ GetCollectionsByAccount \/ GetTokenHolders
  <2>1. endpoint \in OffsetLists /\ endpoint \notin EdgeLists
    BY <1>3, <1>9 DEF GetCollections, GetCollectionsByAccount, GetTokenHolders, Serve, OffsetLists
  <2>2. GoodTotal(0) /\ GoodTotal(Cardinality(rows))
    BY <1>2, <2>1, Totals
  <2> QED
    BY <1>1, <1>9, <2>1, <2>2
       DEF GetCollections, GetCollectionsByAccount, GetTokenHolders, Serve, Served
<1> QED
  BY <1>4, <1>5, <1>6, <1>7, <1>8, <1>9 DEF Handler

LEMMA HandlerInv ==
  ASSUME PagingInv, Handler, ~NoNft
  PROVE  PagingInv'
<1>1. Served /\ UNCHANGED <<endpoint, order, rows, edges>>
  BY AllServed
<1>2. TableInv'
  BY <1>1 DEF PagingInv, TableInv, UseCursor, defaultCursorType, Keys
<1>3. CASE session.at = "first"
  <2>1. PICK total : GoodTotal(total) /\ session' = [session EXCEPT !.at = "counted", !.total = total]
    BY <1>1, <1>3 DEF Served
  <2>2. UNCHANGED <<endpoint, order, rows, edges, atStart, disturbed>>
    BY <1>1, <1>3 DEF Served
  <2> QED
    BY <1>2, <1>3, <2>1, <2>2, CountStep DEF PagingInv
<1>4. CASE session.at \in {"counted", "more"}
  <2>1. PICK page : (UseCursor \/ (Quiet /\ ~Ties) => GoodPage(page)) /\ session' = Response(page)
    BY <1>1, <1>4 DEF Served
  <2>2. /\ atStart' = IF session.at = "counted" THEN rows ELSE atStart
        /\ disturbed' = (disturbed \/ Ties)
    BY <1>1, <1>4 DEF Served
  <2> QED
    BY <1>1, <1>2, <1>4, <2>1, <2>2, PageStep DEF PagingInv
<1> QED
  BY <1>1, <1>3, <1>4 DEF Served
-----------------------------------------------------------------------------
LEMMA RowsOfIs ==
  ASSUME NEW K \in SUBSET Nat, IsFiniteSet(K)
  PROVE  /\ IsFiniteSet(RowsOf(K)) /\ Keys(RowsOf(K)) = K
         /\ \A r \in RowsOf(K) : r.key \in K /\ r = [key |-> r.key, id |-> r.key]
<1> DEFINE f == [k \in K |-> [key |-> k, id |-> k]]
<1>1. f \in Surjection(K, RowsOf(K))
  BY DEF RowsOf, Surjection
<1>2. IsFiniteSet(RowsOf(K))
  BY <1>1, FS_Surjection
<1>3. \A r \in RowsOf(K) : r.key \in K /\ r = [key |-> r.key, id |-> r.key]
  BY DEF RowsOf
<1>4. ASSUME NEW k \in K PROVE k \in Keys(RowsOf(K))
  <2>1. [key |-> k, id |-> k] \in RowsOf(K) /\ [key |-> k, id |-> k].key = k
    BY DEF RowsOf
  <2> QED
    BY <2>1 DEF Keys
<1>5. Keys(RowsOf(K)) \subseteq K
  BY <1>3 DEF Keys
<1> QED
  BY <1>2, <1>3, <1>4, <1>5

(* The tables of a cursor grow at the end.                                 *)
LEMMA GrowTable ==
  ASSUME TableInv, UseCursor, NEW K \in SUBSET (Nat \ {0}), IsFiniteSet(K),
         \A k \in K, r \in rows : k > r.key,
         UNCHANGED <<endpoint, order>>, rows' = rows \union RowsOf(K),
         IF endpoint \in EdgeLists THEN edges' = edges \union K /\ K \intersect edges = {}
                                   ELSE edges' = edges,
         endpoint = "txs" => \E n \in Nat : edges' = 1 .. n,
         endpoint \in {"evm_txs", "internal_txs"} => \E n \in Nat : Keys(rows) \union K = 1 .. n,
         endpoint = "blocks" => \E n \in Nat : Keys(rows) \union K = First .. First + n
  PROVE  /\ TableInv' /\ rows \subseteq rows' /\ edges \subseteq edges'
         /\ \A r \in rows' \ rows, q \in rows : r.key > q.key
         /\ endpoint \in EdgeLists /\ edges' \subseteq Keys(rows') => edges \subseteq Keys(rows)
<1>1. /\ endpoint \in Endpoints /\ order \in {"ASC", "DESC"}
      /\ IsFiniteSet(rows) /\ IsFiniteSet(edges) /\ edges \subseteq Nat \ {0}
      /\ \A r \in rows : r.key \in Nat \ {0} /\ r = [key |-> r.key, id |-> r.key]
      /\ IF endpoint \in EdgeLists THEN Keys(rows) \subseteq edges ELSE edges = {}
  BY DEF TableInv
<1>2. /\ IsFiniteSet(RowsOf(K)) /\ Keys(RowsOf(K)) = K
      /\ \A r \in RowsOf(K) : r.key \in K /\ r = [key |-> r.key, id |-> r.key]
  BY RowsOfIs
<1>3. Keys(rows') = Keys(rows) \union K
  BY <1>2 DEF Keys
<1>4. IsFiniteSet(rows') /\ IsFiniteSet(edges')
  <2>1. IsFiniteSet(rows \union RowsOf(K)) /\ IsFiniteSet(edges \union K)
    BY <1>1, <1>2, FS_Union
  <2>2. edges' = edges \union K \/ edges' = edges
    OBVIOUS
  <2> QED
    BY <1>1, <2>1, <2>2
<1>5. /\ edges' \subseteq Nat \ {0}
      /\ \A r \in rows' : r.key \in Nat \ {0} /\ r = [key |-> r.key, id |-> r.key]
      /\ IF endpoint \in EdgeLists THEN Keys(rows') \subseteq edges' ELSE edges' = {}
  BY <1>1, <1>2, <1>3
<1>6. /\ endpoint = "txs" => \E n \in Nat : edges' = 1 .. n
      /\ endpoint \in {"evm_txs", "internal_txs"} => \E n \in Nat : Keys(rows') = 1 .. n
      /\ endpoint = "blocks" => \E n \in Nat : Keys(rows') = First .. First + n
  BY <1>3
<1>7. TableInv'
  <2>1. /\ Keys(rows)' = Keys(rows')
        /\ \A r \in rows' : "key" \in DOMAIN r
    BY <1>5 DEF Keys
  <2>2. (endpoint = "txs" => \E n \in Nat : edges = 1 .. n)'
    BY <1>6
  <2>3. (endpoint \in {"evm_txs", "internal_txs"} => \E n \in Nat : Keys(rows) = 1 .. n)'
    BY <1>6, <2>1
  <2>4. (endpoint = "blocks" => \E n \in Nat : Keys(rows) = First .. First + n)'
    BY <1>6, <2>1
  <2> QED
    BY <1>1, <1>4, <1>5, <2>1, <2>2, <2>3, <2>4 DEF TableInv
<1>8. \A r \in rows' \ rows, q \in rows : r.key > q.key
  BY <1>2
<1>9. endpoint \in EdgeLists /\ edges' \subseteq Keys(rows') => edges \subseteq Keys(rows)
  BY <1>3
<1>10. rows \subseteq rows' /\ edges \subseteq edges'
  OBVIOUS
<1> QED
  BY <1>7, <1>8, <1>9, <1>10

LEMMA GrowSession ==
  ASSUME PagingInv, UseCursor, TableInv', rows \subseteq rows', edges \subseteq edges',
         \A r \in rows' \ rows, q \in rows : r.key > q.key,
         endpoint \in EdgeLists /\ edges' \subseteq Keys(rows') => edges \subseteq Keys(rows),
         session.at = "end" => endpoint \notin EdgeLists,
         UNCHANGED <<endpoint, order, session, atStart, disturbed>>
  PROVE  SessionInv'
<1>1. (UseCursor' <=> UseCursor) /\ (Quiet' <=> Quiet) /\ Skew' = Skew /\ Got' = Got
  BY DEF UseCursor, defaultCursorType, Quiet, Skew, Got
<1>2. session.total \in Int /\ Skew \in Int
  BY PaginationAssumption DEF PagingInv, SessionInv, Skew
<1>3. CountNow \in Nat /\ CountNow' \in Nat /\ CountNow <= CountNow'
  <2>1. IsFiniteSet(rows') /\ IsFiniteSet(edges') /\ IsFiniteSet(rows) /\ IsFiniteSet(edges)
    BY DEF PagingInv, TableInv
  <2>2. Cardinality(rows) <= Cardinality(rows') /\ Cardinality(edges) <= Cardinality(edges')
    BY <2>1, FS_Subset
  <2>3. /\ Cardinality(rows) \in Nat /\ Cardinality(rows') \in Nat
        /\ Cardinality(edges) \in Nat /\ Cardinality(edges') \in Nat
    BY <2>1, FS_CardinalityType
  <2> QED
    BY <2>2, <2>3 DEF CountNow
<1>4. StartInv'
  <2> SUFFICES ASSUME session.at \in {"first", "counted"}
               PROVE  /\ session.got = <<>> /\ session.CursorValue = NoKey /\ session.Offset = 0
                      /\ session.at = "counted" /\ Quiet => session.total - Skew <= CountNow'
    BY <1>1 DEF StartInv, NoKey
  <2>1. /\ session.got = <<>> /\ session.CursorValue = NoKey /\ session.Offset = 0
        /\ session.at = "counted" /\ Quiet => session.total - Skew <= CountNow
    BY <1>1 DEF PagingInv, SessionInv, StartInv
  <2> QED
    BY <1>2, <1>3, <2>1
<1>5. ASSUME session.at \in {"more", "end"}, Quiet PROVE GotInv'
  <2>1. /\ session.got \in Seq(rows) /\ Ordered(session.got)
        /\ atStart \subseteq rows
        /\ (endpoint \in EdgeLists => edges \subseteq Keys(rows)) =>
             session.total - Skew <= Cardinality(atStart)
        /\ UseCursor /\ order = "DESC" =>
             Got \subseteq atStart /\ \A r \in rows \ atStart, q \in atStart : r.key > q.key
    BY <1>1, <1>5 DEF PagingInv, SessionInv, GotInv
  <2>2. session.got \in Seq(rows') /\ Ordered(session.got)' /\ atStart \subseteq rows'
    BY <2>1 DEF Ordered, After
  <2>3. Keys(rows)' = Keys(rows')
    BY DEF Keys
  <2>4. ((endpoint \in EdgeLists => edges \subseteq Keys(rows)) =>
           session.total - Skew <= Cardinality(atStart))'
    BY <1>1, <2>1, <2>3
  <2>5. UseCursor /\ order = "DESC" =>
          Got \subseteq atStart /\ \A r \in rows' \ atStart, q \in atStart : r.key > q.key
    BY <2>1
  <2>6. (UseCursor /\ order = "DESC" =>
           Got \subseteq atStart /\ \A r \in rows \ atStart, q \in atStart : r.key > q.key)'
    BY <1>1, <2>5
  <2> QED
    BY <2>2, <2>4, <2>6 DEF GotInv
<1>6. ASSUME session.at = "more", Quiet PROVE MoreInv'
  <2>1. /\ session.got \in Seq(rows) /\ atStart \subseteq rows
        /\ order = "DESC" => Got \subseteq atStart
        /\ \A r \in Base \ Got, q \in Got : After(r.key, q.key)
    BY <1>1, <1>6 DEF PagingInv, SessionInv, GotInv, MoreInv
  <2>2. Got \subseteq rows
    BY <2>1 DEF Got, ToSet
  <2>3. ASSUME NEW r \in Base' \ Got, NEW q \in Got PROVE After(r.key, q.key)
    <3>1. CASE order = "DESC"
      <4>1. Base' = Base
        BY <1>1, <1>6, <3>1 DEF Base
      <4> QED
        BY <2>1, <4>1
    <3>2. CASE order = "ASC"
      <4>1. Base' = rows' /\ Base = rows
        BY <1>1, <1>6, <3>2 DEF Base
      <4>2. CASE r \in rows
        BY <2>1, <4>1, <4>2
      <4>3. CASE r \notin rows
        BY <2>2, <3>2, <4>1, <4>3 DEF After
      <4> QED
        BY <4>2, <4>3
    <3> QED
      BY <3>1, <3>2 DEF PagingInv, TableInv
  <2>4. (\A r \in Base \ Got, q \in Got : After(r.key, q.key))'
    BY <1>1, <2>3 DEF After
  <2> QED
    BY <1>1, <2>1, <2>4 DEF MoreInv
<1>7. EndInv'
  BY <1>1 DEF PagingInv, SessionInv, EndInv
<1>8. session.at \notin {"more", "end"} \/ ~Quiet => GotInv'
  BY <1>1 DEF GotInv
<1>9. session.at # "more" \/ ~Quiet => MoreInv'
  BY <1>1 DEF MoreInv
<1>10. CursorInv'
  <2>1. CursorInv
    BY DEF PagingInv, SessionInv
  <2>2. Ordered(session.got)' <=> Ordered(session.got)
    BY DEF Ordered, After
  <2>3. (\A r \in atStart \ Got, q \in Got : After(r.key, q.key))' <=>
          \A r \in atStart \ Got, q \in Got : After(r.key, q.key)
    BY <1>1 DEF After
  <2>4. (session.got \in Seq(RowsOf(Nat)))' <=> session.got \in Seq(RowsOf(Nat))
    BY DEF RowsOf
  <2> QED
    BY <1>1, <2>1, <2>2, <2>3, <2>4 DEF CursorInv
<1> QED
  BY <1>4, <1>5, <1>6, <1>7, <1>8, <1>9, <1>10 DEF PagingInv, SessionInv

LEMMA LastKey ==
  ASSUME NEW S \in SUBSET Nat, IsFiniteSet(S)
  PROVE  /\ Max(S \union {0}) \in Nat /\ \A y \in S : y <= Max(S \union {0})
         /\ \A n \in Nat : S = 1 .. n => Max(S \union {0}) = n
<1> DEFINE m == Max(S \union {0})
<1>1. IsFiniteSet(S \union {0})
  BY FS_AddElement
<1>2. m \in S \union {0} /\ \A y \in S \union {0} : m >= y
  <2>1. S \union {0} \in SUBSET Nat /\ S \union {0} # {}
    OBVIOUS
  <2> QED
    BY <1>1, <2>1, LargestIs
<1>3. m \in Nat /\ \A y \in S : y <= m
  <2> HIDE DEF m
  <2>1. m \in Nat
    BY <1>2
  <2>2. ASSUME NEW y \in S PROVE y <= m
    <3>1. m >= y /\ y \in Nat
      BY <1>2
    <3> QED
      BY <2>1, <3>1
  <2> QED
    BY <2>1, <2>2
<1>4. ASSUME NEW n \in Nat, S = 1 .. n PROVE m = n
  <2> HIDE DEF m
  <2>1. n \in S \union {0}
    BY <1>4
  <2>2. m >= n /\ m \in 0 .. n
    BY <1>2, <1>4, <2>1
  <2> QED
    BY <2>2
<1> QED
  BY <1>3, <1>4

LEMMA AddTxInv ==
  ASSUME PagingInv, AddTx, session.at # "end"
  PROVE  PagingInv'
<1> DEFINE S == edges \union Keys(rows)
           m == Max(S \union {0})
           K == {m + 1}
<1>1. endpoint \in EdgeLists \union {"evm_txs", "nft_txs"}
  BY DEF AddTx
<1>2. UseCursor
  BY <1>1 DEF UseCursor, defaultCursorType, SequenceLists
<1>3. TableInv
  BY DEF PagingInv
<1>4. IsFiniteSet(Keys(rows)) /\ Keys(rows) \subseteq Nat
  BY <1>2, <1>3, RowsKeyed, KeysCount DEF Keyed, Keys
<1>5. S \in SUBSET Nat /\ IsFiniteSet(S)
  BY <1>3, <1>4, FS_Union DEF TableInv
<1>6. /\ m \in Nat /\ \A y \in S : y <= m
      /\ \A n \in Nat : S = 1 .. n => m = n
  BY <1>5, LastKey
<1>7. /\ rows' = rows \union RowsOf(K)
      /\ edges' = IF endpoint \in EdgeLists THEN edges \union K ELSE edges
      /\ UNCHANGED <<endpoint, order, session, atStart, disturbed>>
  BY DEF AddTx
<1>8. /\ \A y \in S : y \in Nat /\ m + 1 > y /\ y # m + 1
      /\ m + 1 \in Nat \ {0}
  <2> HIDE DEF m, S
  <2> QED
    BY <1>5, <1>6
<1>9. K \in SUBSET (Nat \ {0}) /\ IsFiniteSet(K)
  BY <1>8, FS_Singleton
<1>10. ASSUME NEW n \in Nat, S = 1 .. n PROVE S \union K = 1 .. n + 1
  <2>1. m = n
    BY <1>6, <1>10
  <2> QED
    BY <1>10, <2>1
<1>11. \A k \in K, r \in rows : k > r.key
  <2>1. \A r \in rows : r.key \in S
    BY DEF Keys
  <2> QED
    BY <1>8, <2>1
<1>12. K \intersect edges = {}
  BY <1>8
<1> HIDE DEF K, m
<1>13. endpoint = "txs" => \E n \in Nat : edges' = 1 .. n
  <2> SUFFICES ASSUME endpoint = "txs" PROVE \E n \in Nat : edges' = 1 .. n
    OBVIOUS
  <2>1. endpoint \in EdgeLists
    BY DEF EdgeLists
  <2>2. PICK n \in Nat : edges = 1 .. n
    BY <1>3 DEF TableInv
  <2>3. S = edges
    BY <1>3, <2>1 DEF TableInv
  <2>4. edges' = 1 .. n + 1
    BY <1>7, <1>10, <2>1, <2>2, <2>3
  <2>5. n + 1 \in Nat
    OBVIOUS
  <2> QED
    BY <2>4, <2>5
<1>14. endpoint \in {"evm_txs", "internal_txs"} => \E n \in Nat : Keys(rows) \union K = 1 .. n
  <2> SUFFICES ASSUME endpoint \in {"evm_txs", "internal_txs"}
               PROVE  \E n \in Nat : Keys(rows) \union K = 1 .. n
    OBVIOUS
  <2>1. endpoint \notin EdgeLists
    BY DEF EdgeLists
  <2>2. PICK n \in Nat : Keys(rows) = 1 .. n
    BY <1>3 DEF TableInv
  <2>3. S = Keys(rows)
    BY <1>3, <2>1 DEF TableInv
  <2>4. Keys(rows) \union K = 1 .. n + 1
    BY <1>10, <2>2, <2>3
  <2>5. n + 1 \in Nat
    OBVIOUS
  <2> QED
    BY <2>4, <2>5
<1>15. endpoint # "blocks"
  BY <1>1 DEF EdgeLists
<1> HIDE DEF S
<1>16. /\ TableInv' /\ rows \subseteq rows' /\ edges \subseteq edges'
       /\ \A r \in rows' \ rows, q \in rows : r.key > q.key
       /\ endpoint \in EdgeLists /\ edges' \subseteq Keys(rows') => edges \subseteq Keys(rows)
  BY <1>2, <1>3, <1>7, <1>9, <1>11, <1>12, <1>13, <1>14, <1>15, GrowTable
<1> QED
  BY <1>2, <1>7, <1>16, GrowSession DEF PagingInv

(* Rows of tables without edges.                                           *)
LEMMA GrowInv ==
  ASSUME PagingInv, UseCursor, endpoint \notin EdgeLists,
         NEW K \in SUBSET (Nat \ {0}), IsFiniteSet(K), \A k \in K, r \in rows : k > r.key,
         rows' = rows \union RowsOf(K),
         UNCHANGED <<endpoint, order, edges, session, atStart, disturbed>>,
         endpoint \in {"evm_txs", "internal_txs"} => \E n \in Nat : Keys(rows) \union K = 1 .. n,
         endpoint = "blocks" => \E n \in Nat : Keys(rows) \union K = First .. First + n
  PROVE  PagingInv'
<1>1. TableInv /\ endpoint # "txs"
  BY DEF PagingInv, EdgeLists
<1>2. /\ TableInv' /\ rows \subseteq rows' /\ edges \subseteq edges'
      /\ \A r \in rows' \ rows, q \in rows : r.key > q.key
      /\ endpoint \in EdgeLists /\ edges' \subseteq Keys(rows') => edges \subseteq Keys(rows)
  BY <1>1, GrowTable
<1> QED
  BY <1>2, GrowSession DEF PagingInv

LEMMA AddAllInv ==
  ASSUME PagingInv, AddAll
  PROVE  PagingInv'
<1>1. PICK n \in 1 .. MaxKey : rows' = RowsOf(1 .. n)
  BY DEF AddAll
<1>2. /\ UseCursor /\ endpoint \notin EdgeLists
      /\ endpoint \notin {"evm_txs", "internal_txs", "blocks"}
  BY DEF AddAll, UseCursor, defaultCursorType, SequenceLists, EdgeLists
<1>3. rows = {} /\ rows' = rows \union RowsOf(1 .. n)
  BY <1>1 DEF AddAll
<1>4. 1 .. n \in SUBSET (Nat \ {0}) /\ IsFiniteSet(1 .. n)
  BY FS_Interval
<1>5. UNCHANGED <<endpoint, order, edges, session, atStart, disturbed>>
  BY DEF AddAll
<1> QED
  BY <1>2, <1>3, <1>4, <1>5, GrowInv

LEMMA AddSomeCallsInv ==
  ASSUME PagingInv, AddSomeCalls
  PROVE  PagingInv'
<1> DEFINE last == Max(Keys(rows) \union {0})
<1>1. PICK n \in Nat : AddCalls(last + 1 .. last + n)
  BY DEF AddSomeCalls
<1>2. /\ endpoint = "internal_txs" /\ rows' = rows \union RowsOf(last + 1 .. last + n)
      /\ UNCHANGED <<endpoint, order, edges, session, atStart, disturbed>>
  BY <1>1 DEF AddCalls
<1>3. UseCursor /\ endpoint \notin EdgeLists
  BY <1>2 DEF UseCursor, defaultCursorType, SequenceLists, EdgeLists
<1>4. PICK m \in Nat : Keys(rows) = 1 .. m
  BY <1>2 DEF PagingInv, TableInv
<1>5. last = m
  <2>1. 1 .. m \in SUBSET Nat /\ IsFiniteSet(1 .. m)
    BY FS_Interval
  <2>2. Max((1 .. m) \union {0}) = m
    BY <2>1, LastKey
  <2> QED
    BY <1>4, <2>2
<1> DEFINE K == m + 1 .. m + n
<1>6. K \in SUBSET (Nat \ {0}) /\ IsFiniteSet(K)
  BY FS_Interval
<1>7. Keys(rows) \union K = 1 .. m + n /\ m + n \in Nat
  BY <1>4
<1>8. \A k \in K, r \in rows : k > r.key
  <2>1. \A r \in rows : r.key \in 1 .. m
    BY <1>4 DEF Keys
  <2> QED
    BY <2>1
<1>9. rows' = rows \union RowsOf(K)
  BY <1>2, <1>5
<1> HIDE DEF K
<1> QED
  BY <1>2, <1>3, <1>6, <1>7, <1>8, <1>9, GrowInv

LEMMA AddBlockInv ==
  ASSUME PagingInv, AddBlock
  PROVE  PagingInv'
<1> DEFINE last == Max(Keys(rows))
           K == {last + 1}
<1>1. /\ endpoint = "blocks" /\ rows' = rows \union RowsOf(K)
      /\ UNCHANGED <<endpoint, order, edges, session, atStart, disturbed>>
  BY DEF AddBlock
<1>2. UseCursor /\ endpoint \notin EdgeLists
  BY <1>1 DEF UseCursor, defaultCursorType, SequenceLists, EdgeLists
<1>3. PICK n \in Nat : Keys(rows) = First .. First + n
  BY <1>1 DEF PagingInv, TableInv
<1>4. First \in Nat \ {0} /\ First + n \in Nat /\ First <= First + n
  BY PaginationAssumption
<1>5. last = First + n
  BY <1>3, <1>4, IntervalCount
<1>6. K = {First + (n + 1)} /\ First + (n + 1) \in Nat \ {0} /\ n + 1 \in Nat
  BY <1>4, <1>5
<1> HIDE DEF K, last
<1>7. K \in SUBSET (Nat \ {0}) /\ IsFiniteSet(K)
  BY <1>6, FS_Singleton
<1>8. Keys(rows) \union K = First .. First + (n + 1)
  BY <1>3, <1>4, <1>6
<1>9. \A k \in K, r \in rows : k > r.key
  <2>1. \A r \in rows : r.key \in First .. First + n
    BY <1>3 DEF Keys
  <2> QED
    BY <1>4, <1>6, <2>1
<1> QED
  BY <1>1, <1>2, <1>6, <1>7, <1>8, <1>9, GrowInv

(* What lists by offset must keep: a change that does not disturb adds a   *)
(* row at the end.                                                         *)
LEMMA ShiftInv ==
  ASSUME PagingInv, ~UseCursor, session.at # "end",
         IsFiniteSet(rows'), \A r \in rows' : "key" \in DOMAIN r /\ r.key \in Nat \ {0},
         \A r, s \in rows' \ rows : r = s,
         Disturb(rows'), UNCHANGED <<endpoint, order, edges, session, atStart>>
  PROVE  PagingInv'
<1>1. (UseCursor' <=> UseCursor) /\ Skew' = Skew /\ Got' = Got
  BY DEF UseCursor, defaultCursorType, Skew, Got
<1>2. /\ endpoint \in Endpoints /\ order \in {"ASC", "DESC"}
      /\ IsFiniteSet(rows) /\ IsFiniteSet(edges)
      /\ edges \subseteq Nat \ {0} /\ (endpoint \notin EdgeLists => edges = {})
      /\ \A r \in rows : r.key \in Nat
  BY DEF PagingInv, TableInv
<1>3. endpoint \notin EdgeLists /\ endpoint \notin {"txs", "evm_txs", "internal_txs", "blocks"}
  BY <1>2 DEF UseCursor, defaultCursorType, EdgeLists, SequenceLists
<1>4. TableInv'
  BY <1>1, <1>2, <1>3 DEF TableInv
<1>5. ASSUME Quiet'
      PROVE  /\ Quiet
             /\ session.at \in {"counted", "more"} => rows \subseteq rows'
             /\ session.at = "more" => \A r \in rows, s \in rows' \ rows : After(s.key, r.key)
  <2>1. ~disturbed'
    BY <1>1, <1>5 DEF Quiet
  <2> QED
    BY <2>1 DEF Disturb, Quiet
<1>6. session.total \in Int /\ Skew \in Int
  BY PaginationAssumption DEF PagingInv, SessionInv, Skew
<1>7. StartInv'
  <2> SUFFICES ASSUME session.at \in {"first", "counted"}
               PROVE  /\ session.got = <<>> /\ session.CursorValue = NoKey /\ session.Offset = 0
                      /\ session.at = "counted" /\ Quiet' => session.total - Skew <= CountNow'
    BY <1>1 DEF StartInv, NoKey
  <2>1. /\ session.got = <<>> /\ session.CursorValue = NoKey /\ session.Offset = 0
        /\ session.at = "counted" /\ Quiet => session.total - Skew <= CountNow
    BY DEF PagingInv, SessionInv, StartInv
  <2>2. ASSUME session.at = "counted", Quiet' PROVE session.total - Skew <= CountNow'
    <3>1. session.total - Skew <= CountNow /\ rows \subseteq rows'
      BY <1>5, <2>1, <2>2
    <3>2. CountNow = Cardinality(rows) /\ CountNow' = Cardinality(rows')
      BY <1>3 DEF CountNow
    <3>3. CountNow \in Nat /\ CountNow' \in Nat /\ CountNow <= CountNow'
      BY <1>2, <3>1, <3>2, FS_Subset, FS_CardinalityType
    <3> QED
      BY <1>6, <3>1, <3>3
  <2> QED
    BY <2>1, <2>2
<1>8. ASSUME session.at = "more", Quiet' PROVE GotInv' /\ MoreInv'
  <2>1. /\ Quiet /\ rows \subseteq rows'
        /\ \A r \in rows, s \in rows' \ rows : After(s.key, r.key)
    BY <1>5, <1>8
  <2>2. /\ session.got \in Seq(rows) /\ Ordered(session.got)
        /\ atStart \subseteq rows
        /\ session.total - Skew <= Cardinality(atStart)
        /\ \A r \in Base \ Got, q \in Got : After(r.key, q.key)
        /\ session.Offset = Len(session.got) /\ ~Ties
    BY <1>3, <1>8, <2>1 DEF PagingInv, SessionInv, GotInv, MoreInv
  <2>3. session.got \in Seq(rows') /\ Ordered(session.got)' /\ atStart \subseteq rows'
    BY <2>1, <2>2 DEF Ordered, After
  <2>4. GotInv'
    BY <1>1, <2>2, <2>3 DEF GotInv
  <2>5. Got \subseteq rows /\ Base = rows /\ Base' = rows'
    BY <1>1, <2>2 DEF Got, ToSet, Base
  <2>6. \A r \in rows' \ Got, q \in Got : After(r.key, q.key)
    BY <2>1, <2>2, <2>5
  <2>7. (\A r \in Base \ Got, q \in Got : After(r.key, q.key))'
    BY <1>1, <2>5, <2>6 DEF After
  <2>8. ~Ties'
    <3> SUFFICES ASSUME NEW r \in rows', NEW s \in rows', r # s, r.key = s.key PROVE FALSE
      BY DEF Ties
    <3>1. r.key \in Nat /\ s.key \in Nat /\ Direction
      BY <1>2 DEF Direction
    <3>2. CASE r \in rows /\ s \in rows
      BY <2>2, <3>2 DEF Ties
    <3>3. CASE r \in rows /\ s \notin rows
      BY <2>1, <3>1, <3>3, AfterIs
    <3>4. CASE r \notin rows /\ s \in rows
      BY <2>1, <3>1, <3>4, AfterIs
    <3> QED
      BY <3>2, <3>3, <3>4
  <2>9. MoreInv'
    BY <1>1, <2>2, <2>7, <2>8 DEF MoreInv
  <2> QED
    BY <2>4, <2>9
<1>9. session.at # "more" \/ ~Quiet' => GotInv' /\ MoreInv'
  BY DEF GotInv, MoreInv, PagingInv, SessionInv
<1>10. EndInv' /\ CursorInv'
  BY <1>1 DEF EndInv, CursorInv
<1> QED
  BY <1>4, <1>7, <1>8, <1>9, <1>10 DEF PagingInv, SessionInv

LEMMA AddRowInv ==
  ASSUME PagingInv, AddRow, session.at # "end"
  PROVE  PagingInv'
<1>1. PICK k \in 1 .. MaxKey : rows' = rows \union {[key |-> k, id |-> FreeId]} /\ Disturb(rows')
  BY DEF AddRow
<1>2. ~UseCursor /\ UNCHANGED <<endpoint, order, edges, session, atStart>>
  BY DEF AddRow
<1>3. IsFiniteSet(rows) /\ \A r \in rows : "key" \in DOMAIN r /\ r.key \in Nat \ {0}
  BY DEF PagingInv, TableInv
<1>4. k \in Nat \ {0}
  BY PaginationAssumption
<1> DEFINE new == [key |-> k, id |-> FreeId]
<1>5. "key" \in DOMAIN new /\ new.key \in Nat \ {0}
  BY <1>4
<1> HIDE DEF new
<1>6. rows' = rows \union {new}
  BY <1>1 DEF new
<1>7. IsFiniteSet(rows')
  BY <1>3, <1>6, FS_AddElement
<1>8. /\ \A r \in rows' : "key" \in DOMAIN r /\ r.key \in Nat \ {0}
      /\ \A r, s \in rows' \ rows : r = s
  BY <1>3, <1>5, <1>6
<1> QED
  BY <1>1, <1>2, <1>7, <1>8, ShiftInv

LEMMA ChangeRowInv ==
  ASSUME PagingInv, ChangeRow, session.at # "end"
  PROVE  PagingInv'
<1>1. /\ ~UseCursor /\ UNCHANGED <<endpoint, order, edges, session, atStart>> /\ Disturb(rows')
  BY DEF ChangeRow, UseCursor, defaultCursorType, EdgeLists, SequenceLists
<1>2. IsFiniteSet(rows) /\ \A r \in rows : "key" \in DOMAIN r /\ r.key \in Nat \ {0}
  BY DEF PagingInv, TableInv
<1>3. PICK r \in rows :
        \/ rows' = rows \ {r}
        \/ \E k \in (1 .. MaxKey) \ {r.key} : rows' = (rows \ {r}) \union {[r EXCEPT !.key = k]}
  BY DEF ChangeRow
<1>4. IsFiniteSet(rows \ {r})
  BY <1>2, FS_RemoveElement
<1>5. CASE rows' = rows \ {r}
  <2>1. /\ IsFiniteSet(rows') /\ rows' \subseteq rows
        /\ \A q \in rows' : "key" \in DOMAIN q /\ q.key \in Nat \ {0}
        /\ \A q, s \in rows' \ rows : q = s
    BY <1>2, <1>4, <1>5
  <2> QED
    BY <1>1, <2>1, ShiftInv
<1>6. CASE \E k \in (1 .. MaxKey) \ {r.key} : rows' = (rows \ {r}) \union {[r EXCEPT !.key = k]}
  <2>1. PICK k \in 1 .. MaxKey : rows' = (rows \ {r}) \union {[r EXCEPT !.key = k]}
    BY <1>6
  <2> DEFINE new == [r EXCEPT !.key = k]
  <2>2. k \in Nat \ {0}
    BY PaginationAssumption
  <2>3. "key" \in DOMAIN new /\ new.key \in Nat \ {0}
    BY <1>2, <2>2
  <2> HIDE DEF new
  <2>4. rows' = (rows \ {r}) \union {new}
    BY <2>1 DEF new
  <2>5. IsFiniteSet(rows')
    BY <1>4, <2>4, FS_AddElement
  <2>6. /\ \A q \in rows' : "key" \in DOMAIN q /\ q.key \in Nat \ {0}
        /\ \A q, s \in rows' \ rows : q = s
    BY <1>2, <2>3, <2>4
  <2> QED
    BY <1>1, <2>5, <2>6, ShiftInv
<1> QED
  BY <1>3, <1>5, <1>6
-----------------------------------------------------------------------------
(* The row of the token is not in the invariant.                           *)
LEMMA SameInv ==
  ASSUME PagingInv, UNCHANGED <<endpoint, order, rows, edges, session, atStart, disturbed>>
  PROVE  PagingInv'
<1>1. TableInv'
  BY DEF PagingInv, TableInv, UseCursor, defaultCursorType, Keys
<1>2. /\ (UseCursor' <=> UseCursor) /\ (Quiet' <=> Quiet) /\ Skew' = Skew /\ Got' = Got
      /\ Base' = Base /\ (Ties' <=> Ties) /\ CountNow' = CountNow /\ Keys(rows)' = Keys(rows)
      /\ (OrphanPage' <=> OrphanPage) /\ (Ordered(session.got)' <=> Ordered(session.got))
      /\ (session.got \in Seq(RowsOf(Nat)))' <=> session.got \in Seq(RowsOf(Nat))
  BY DEF UseCursor, defaultCursorType, Quiet, Skew, Got, Base, Ties, CountNow, Keys,
         OrphanPage, Ordered, After, RowsOf
<1>3. StartInv' /\ GotInv'
  BY <1>2 DEF PagingInv, SessionInv, StartInv, GotInv, NoKey
<1>4. MoreInv' /\ EndInv'
  BY <1>2 DEF PagingInv, SessionInv, MoreInv, EndInv, After
<1>5. CursorInv'
  BY <1>2 DEF PagingInv, SessionInv, CursorInv, After
<1> QED
  BY <1>1, <1>3, <1>4, <1>5 DEF PagingInv, SessionInv

LEMMA ChangeTokenInv ==
  ASSUME PagingInv, ChangeToken
  PROVE  PagingInv'
<1>1. UNCHANGED <<endpoint, order, rows, edges, session, atStart, disturbed>>
  BY DEF ChangeToken
<1> QED
  BY <1>1, SameInv

LEMMA NoNftInv ==
  ASSUME PagingInv, NoNft
  PROVE  PagingInv'
<1>1. /\ endpoint = "nft_txs" /\ session.at \in {"first", "more"}
      /\ session' = [session EXCEPT !.at = "gone"]
      /\ UNCHANGED <<endpoint, order, rows, edges, atStart, disturbed>>
  BY DEF NoNft
<1>2. /\ DOMAIN session' = {"at", "CursorValue", "Offset", "got", "total"}
      /\ session'.at = "gone" /\ session'.total = session.total /\ session'.got = session.got
  BY <1>1 DEF PagingInv, SessionInv
<1>3. TableInv'
  BY <1>1 DEF PagingInv, TableInv, UseCursor, defaultCursorType, Keys
<1>4. UseCursor
  BY <1>1 DEF UseCursor, defaultCursorType, SequenceLists
<1>5. session.got \in Seq(RowsOf(Nat)) /\ Ordered(session.got)
  <2>1. CASE session.at = "first"
    <3>1. session.got = <<>>
      BY <2>1 DEF PagingInv, SessionInv, StartInv
    <3> QED
      BY <3>1 DEF Ordered
  <2>2. CASE session.at = "more"
    BY <1>4, <2>2 DEF PagingInv, SessionInv, CursorInv
  <2> QED
    BY <1>1, <2>1, <2>2
<1>6. (session.got \in Seq(RowsOf(Nat)))' /\ Ordered(session.got)'
  BY <1>1, <1>2, <1>5 DEF RowsOf, Ordered, After
<1>7. CursorInv'
  BY <1>2, <1>6 DEF CursorInv
<1>8. StartInv' /\ GotInv' /\ MoreInv' /\ EndInv'
  BY <1>2 DEF StartInv, GotInv, MoreInv, EndInv
<1> QED
  BY <1>1, <1>2, <1>3, <1>7, <1>8 DEF PagingInv, SessionInv

(* Of what a client expects, only the row that is deleted is lost.         *)
LEMMA ReconcileInv ==
  ASSUME PagingInv, Reconcile, session.at \notin {"end", "gone"}
  PROVE  PagingInv'
<1>1. /\ endpoint \in {"txs_by_account", "nft_txs"}
      /\ disturbed' = (disturbed \/ session.at \in {"counted", "more"})
      /\ UNCHANGED <<endpoint, order, session>>
  BY DEF Reconcile
<1>2. UseCursor /\ (UseCursor' <=> UseCursor)
  BY <1>1 DEF UseCursor, defaultCursorType, EdgeLists, SequenceLists
<1>3. /\ endpoint \in Endpoints /\ order \in {"ASC", "DESC"}
      /\ IsFiniteSet(rows) /\ IsFiniteSet(edges) /\ edges \subseteq Nat \ {0}
      /\ \A r \in rows : r.key \in Nat \ {0} /\ r = [key |-> r.key, id |-> r.key]
      /\ IF endpoint \in EdgeLists THEN Keys(rows) \subseteq edges ELSE edges = {}
  BY <1>2 DEF PagingInv, TableInv
<1>4. PICK k \in 1 .. MaxKey :
        \/ /\ rows' = rows \ RowsOf({k}) /\ edges' = edges \ {k}
           /\ atStart' = atStart \ RowsOf({k})
        \/ /\ rows' = rows \union RowsOf({k}) /\ atStart' = atStart
           /\ edges' = IF endpoint \in EdgeLists THEN edges \union {k} ELSE edges
  BY DEF Reconcile
<1>5. k \in Nat \ {0} /\ RowsOf({k}) = {[key |-> k, id |-> k]}
  BY PaginationAssumption DEF RowsOf
<1>6. IsFiniteSet(rows') /\ IsFiniteSet(edges')
  <2>1. /\ IsFiniteSet(rows \ RowsOf({k})) /\ IsFiniteSet(edges \ {k})
        /\ IsFiniteSet(rows \union RowsOf({k})) /\ IsFiniteSet(edges \union {k})
    BY <1>3, <1>5, FS_AddElement, FS_RemoveElement
  <2> QED
    BY <1>3, <1>4, <2>1
<1>7. /\ edges' \subseteq Nat \ {0}
      /\ \A r \in rows' : r.key \in Nat \ {0} /\ r = [key |-> r.key, id |-> r.key]
  BY <1>3, <1>4, <1>5
<1>8. ASSUME endpoint \in EdgeLists, NEW r \in rows' PROVE r.key \in edges'
  <2>1. r \in rows => r.key \in edges
    BY <1>3, <1>8 DEF Keys
  <2>2. r.key = k <=> r \in RowsOf({k})
    BY <1>5, <1>7
  <2> QED
    BY <1>4, <1>8, <2>1, <2>2
<1>9. endpoint \notin EdgeLists => edges' = {}
  BY <1>3, <1>4
<1>10. TableInv'
  <2>1. endpoint \notin {"txs", "evm_txs", "internal_txs", "blocks"}
    BY <1>1
  <2>2. \A r \in rows' : "key" \in DOMAIN r
    BY <1>7
  <2>3. (IF endpoint \in EdgeLists THEN Keys(rows) \subseteq edges ELSE edges = {})'
    BY <1>1, <1>8, <1>9 DEF Keys
  <2> QED
    BY <1>1, <1>3, <1>6, <1>7, <2>1, <2>2, <2>3 DEF TableInv
<1>11. session.at = "first" \/ ~Quiet'
  BY <1>1 DEF PagingInv, SessionInv, Quiet
<1>12. StartInv' /\ GotInv' /\ MoreInv' /\ EndInv'
  BY <1>1, <1>11 DEF PagingInv, SessionInv, StartInv, GotInv, MoreInv, EndInv, NoKey
<1>13. CursorInv'
  <2>1. CASE session.at = "more"
    <3>1. /\ session.got \in Seq(RowsOf(Nat)) /\ Ordered(session.got) /\ atStart \subseteq rows
          /\ \A r \in atStart \ Got, q \in Got : After(r.key, q.key)
          /\ session.got # <<>> /\ session.CursorValue = Last(session.got).key
      BY <1>2, <2>1 DEF PagingInv, SessionInv, CursorInv
    <3>2. atStart' \subseteq rows' /\ atStart' \subseteq atStart /\ Got' = Got
      BY <1>1, <1>4, <3>1 DEF Got
    <3>3. Ordered(session.got)' /\ (session.got \in Seq(RowsOf(Nat)))'
      BY <1>1, <3>1 DEF Ordered, After, RowsOf
    <3>4. (\A r \in atStart \ Got, q \in Got : After(r.key, q.key))'
      BY <1>1, <3>1, <3>2 DEF After
    <3> QED
      BY <1>1, <2>1, <3>1, <3>2, <3>3, <3>4 DEF CursorInv
  <2>2. CASE session.at # "more"
    BY <1>1, <2>2 DEF CursorInv
  <2> QED
    BY <2>1, <2>2
<1> QED
  BY <1>1, <1>10, <1>12, <1>13 DEF PagingInv, SessionInv
-----------------------------------------------------------------------------
LEMMA PagingInitInv == PagingInit => PagingInv
<1> SUFFICES ASSUME PagingInit PROVE PagingInv
  OBVIOUS
<1>1. /\ endpoint \in Endpoints /\ order \in {"ASC", "DESC"} /\ Tables
      /\ session = Idle /\ atStart = {} /\ disturbed = FALSE
  BY DEF PagingInit
<1>2. MaxEdges \in Nat /\ MaxKey \in Nat /\ First \in Nat \ {0}
  BY PaginationAssumption
<1>3. IsFiniteSet(1 .. MaxEdges)
  BY <1>2, FS_Interval
<1>4. edges \subseteq 1 .. MaxEdges /\ (endpoint \notin EdgeLists => edges = {})
      /\ (endpoint = "txs" => \E n \in Nat : edges = 1 .. n)
  <2>1. CASE endpoint = "txs"
    <3>1. edges \in {1 .. n : n \in 1 .. MaxEdges}
      BY <1>1, <2>1 DEF Tables, EdgeLists
    <3>2. PICK n \in 1 .. MaxEdges : edges = 1 .. n
      BY <3>1
    <3>3. n \in Nat /\ 1 .. n \subseteq 1 .. MaxEdges
      BY <1>2
    <3> QED
      BY <2>1, <3>2, <3>3 DEF EdgeLists
  <2>2. CASE endpoint \in EdgeLists /\ endpoint # "txs"
    <3>1. edges \in SUBSET (1 .. MaxEdges) \ {{}}
      BY <1>1, <2>2 DEF Tables
    <3> QED
      BY <2>2, <3>1
  <2>3. CASE endpoint \notin EdgeLists
    <3>1. endpoint # "txs"
      BY <2>3 DEF EdgeLists
    <3>2. edges \in {{}}
      BY <1>1, <2>3, <3>1 DEF Tables
    <3> QED
      BY <2>3, <3>1, <3>2
  <2> QED
    BY <2>1, <2>2, <2>3
<1>5. IsFiniteSet(edges) /\ edges \subseteq Nat \ {0}
  <2>1. edges \in SUBSET (1 .. MaxEdges)
    BY <1>4
  <2>2. IsFiniteSet(edges)
    BY <1>3, <2>1, FS_Subset
  <2> QED
    BY <1>2, <2>1, <2>2
<1>6. PICK K : /\ rows = RowsOf(K) /\ K \in SUBSET (Nat \ {0}) /\ IsFiniteSet(K)
               /\ endpoint \in EdgeLists => K \subseteq edges
               /\ endpoint \in {"evm_txs", "internal_txs"} => \E n \in Nat : K = 1 .. n
               /\ endpoint = "blocks" => K = {First}
               /\ ~UseCursor => K = {}
  <2>1. CASE endpoint \in EdgeLists
    <3>1. PICK K \in SUBSET edges : rows = RowsOf(K)
      <4>1. rows \in {RowsOf(S) : S \in SUBSET edges}
        BY <1>1, <2>1 DEF Tables, EdgeLists
      <4> QED
        BY <4>1
    <3>2. K \in SUBSET (Nat \ {0}) /\ IsFiniteSet(K)
      BY <1>5, FS_Subset
    <3>3. UseCursor /\ endpoint \notin {"evm_txs", "internal_txs", "blocks"}
      BY <2>1 DEF UseCursor, defaultCursorType, EdgeLists
    <3> QED
      BY <3>1, <3>2, <3>3
  <2>2. CASE endpoint = "internal_txs"
    <3>1. PICK n \in 0 .. MaxKey : rows = RowsOf(1 .. n)
      BY <1>1, <2>2 DEF Tables, EdgeLists
    <3>2. 1 .. n \in SUBSET (Nat \ {0}) /\ IsFiniteSet(1 .. n) /\ n \in Nat
      BY <1>2, FS_Interval
    <3>3. UseCursor /\ endpoint \notin EdgeLists /\ endpoint # "blocks"
      BY <2>2 DEF UseCursor, defaultCursorType, EdgeLists, SequenceLists
    <3> QED
      BY <3>1, <3>2, <3>3
  <2>3. CASE endpoint = "blocks"
    <3>1. rows = RowsOf({First})
      BY <1>1, <2>3 DEF Tables, EdgeLists
    <3>2. {First} \in SUBSET (Nat \ {0}) /\ IsFiniteSet({First})
      BY <1>2, FS_Singleton
    <3>3. UseCursor /\ endpoint \notin EdgeLists
      BY <2>3 DEF UseCursor, defaultCursorType, EdgeLists, SequenceLists
    <3> QED
      BY <2>3, <3>1, <3>2, <3>3
  <2>4. CASE endpoint \notin EdgeLists /\ endpoint \notin {"internal_txs", "blocks"}
    <3>1. rows = {}
      BY <1>1, <2>4 DEF Tables
    <3>2. rows = RowsOf({}) /\ {} = 1 .. 0 /\ IsFiniteSet({}) /\ 0 \in Nat
      BY <3>1, FS_EmptySet DEF RowsOf
    <3> QED
      BY <2>4, <3>2
  <2> QED
    BY <2>1, <2>2, <2>3, <2>4
<1>7. /\ IsFiniteSet(rows) /\ Keys(rows) = K
      /\ \A r \in rows : r.key \in K /\ r = [key |-> r.key, id |-> r.key]
  BY <1>6, RowsOfIs
<1>8. endpoint = "blocks" => \E n \in Nat : Keys(rows) = First .. First + n
  <2>1. {First} = First .. First + 0
    BY <1>2
  <2> QED
    BY <1>6, <1>7, <2>1
<1>9. \A r \in rows : "key" \in DOMAIN r /\ r.key \in Nat \ {0}
  BY <1>6, <1>7
<1>10. TableInv
  BY <1>1, <1>4, <1>5, <1>6, <1>7, <1>8, <1>9 DEF TableInv
<1>11. SessionInv
  BY <1>1 DEF SessionInv, Idle, StartInv, CursorInv, GotInv, MoreInv, EndInv, NoKey
<1> QED
  BY <1>10, <1>11 DEF PagingInv

LEMMA PagingNextInv == PagingInv /\ [PagingNext \/ AddSomeCalls]_pagingVars => PagingInv'
<1> SUFFICES ASSUME PagingInv, [PagingNext \/ AddSomeCalls]_pagingVars PROVE PagingInv'
  OBVIOUS
<1>1. CASE PagingNext
  <2>1. /\ session.at \notin {"end", "gone"}
        /\ \/ Handler \/ AddTx \/ ChangeToken \/ Reconcile
           \/ AddAll \/ AddBlock \/ AddRow \/ ChangeRow
    BY <1>1 DEF PagingNext
  <2> QED
    BY <2>1, HandlerInv, NoNftInv, AddTxInv, ChangeTokenInv, ReconcileInv, AddAllInv,
       AddBlockInv, AddRowInv, ChangeRowInv
<1>2. CASE AddSomeCalls
  BY <1>2, AddSomeCallsInv
<1>3. CASE UNCHANGED pagingVars
  <2>1. UNCHANGED <<endpoint, order, rows, edges, session, atStart, disturbed>>
    BY <1>3 DEF pagingVars
  <2> QED
    BY <2>1, SameInv
<1> QED
  BY <1>1, <1>2, <1>3

LEMMA PagingInvImplies == PagingInv => PagesExact
<1> SUFFICES ASSUME PagingInv
             PROVE  /\ UseCursor \/ Quiet => Ordered(session.got)
                    /\ session.at = "end" /\ ~OrphanPage =>
                         /\ UseCursor \/ Quiet => atStart \subseteq Got
                         /\ Quiet /\ UseCursor /\ order = "DESC" => Got = atStart
                         /\ Quiet /\ edges \subseteq Keys(rows) =>
                              Cardinality(Got) >= session.total - Skew
  BY DEF PagesExact, Quiet, Ordered, Skew
<1>1. CASE session.at \in {"first", "counted"}
  <2>1. session.got = <<>>
    BY <1>1 DEF PagingInv, SessionInv, StartInv
  <2> QED
    BY <1>1, <2>1 DEF Ordered
<1>2. CASE session.at = "gone"
  <2>1. UseCursor
    BY <1>2 DEF PagingInv, SessionInv, UseCursor, defaultCursorType, SequenceLists
  <2> QED
    BY <1>2, <2>1 DEF PagingInv, SessionInv, CursorInv
<1>3. CASE session.at \in {"more", "end"}
  <2>1. ASSUME UseCursor
        PROVE  Ordered(session.got) /\ (session.at = "end" /\ ~OrphanPage => atStart \subseteq Got)
    BY <1>3, <2>1 DEF PagingInv, SessionInv, CursorInv
  <2>2. ASSUME Quiet
        PROVE  /\ session.got \in Seq(rows) /\ Ordered(session.got) /\ atStart \subseteq rows
               /\ edges \subseteq Keys(rows) => session.total - Skew <= Cardinality(atStart)
               /\ UseCursor /\ order = "DESC" => Got \subseteq atStart
               /\ session.at = "end" /\ ~OrphanPage => atStart \subseteq Got
    BY <1>3, <2>2 DEF PagingInv, SessionInv, GotInv, EndInv
  <2>3. ASSUME Quiet, session.at = "end", ~OrphanPage, edges \subseteq Keys(rows)
        PROVE  Cardinality(Got) >= session.total - Skew
    <3>1. Direction /\ \A r \in rows : r.key \in Nat
      BY DEF PagingInv, TableInv, Direction
    <3>2. IsFiniteSet(Got)
      BY <2>2, <2>3, <3>1, OrderedCount DEF Got
    <3>3. atStart \in SUBSET Got
      BY <2>2, <2>3
    <3>4. Cardinality(atStart) <= Cardinality(Got) /\ Cardinality(atStart) \in Nat /\ Cardinality(Got) \in Nat
      BY <3>2, <3>3, FS_Subset, FS_CardinalityType
    <3>5. session.total \in Int /\ Skew \in Int
      BY PaginationAssumption DEF PagingInv, SessionInv, Skew
    <3>6. session.total - Skew <= Cardinality(atStart)
      BY <2>2, <2>3
    <3> QED
      BY <3>4, <3>5, <3>6
  <2> QED
    BY <2>1, <2>2, <2>3
<1> QED
  BY <1>1, <1>2, <1>3 DEF PagingInv, SessionInv

(* Whatever list a client pages through, of whatever length and with       *)
(* whatever limit, and however the indexer adds to the tables, changes and *)
(* removes rows, and reconciles edges between two requests and between the *)
(* count and the page of the first one: the pages it has are in order and  *)
(* no row is read twice, and when a page has no key it has every row that  *)
(* was there all along, but for a page of orphaned edges and for a token   *)
(* whose row is gone (PagesExact).                                         *)
THEOREM PagesAreExact == PagingSpec => []PagesExact
<1>1. PagingInit => PagingInv
  BY PagingInitInv
<1>2. PagingInv /\ [PagingNext \/ AddSomeCalls]_pagingVars => PagingInv'
  BY PagingNextInv
<1>3. PagingInv => PagesExact
  BY PagingInvImplies
<1> QED
  BY <1>1, <1>2, <1>3, PTL DEF PagingSpec
=============================================================================
