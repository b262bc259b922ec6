----------------------------- MODULE NftCollect -----------------------------
(***************************************************************************)
(* collector/evm-nft, wasm-nft, move-nft and nft-pair: the tables of nfts  *)
(* and collections that the events of the blocks leave behind.             *)
(*                                                                         *)
(* The three submodules go through the events of a block and fill maps of  *)
(* what was minted, transferred, mutated and burned; at the end they write *)
(* the maps to the database, one kind after the other, in the transaction  *)
(* of the block.  Here the maps grow with each event as it happens on the  *)
(* chain; once the block is complete it is prepared and then collected.    *)
(*                                                                         *)
(* A row's owner and uri, and the height, count and origin name of a       *)
(* collection are kept; the other columns are left out, and so are the     *)
(* edges from tokens to transactions (TxCollect has edges and their ids).  *)
(*                                                                         *)
(* wasm_nft.New leaves the submodule without a querier: a block with an    *)
(* event that names a collection ends the process each time it is prepared *)
(* (PreparePanics), so that no collection of the wasm chain has a row, and *)
(* its tokens have rows only if their events name no minter.               *)
(***************************************************************************)
EXTENDS Integers, FiniteSets

CONSTANTS
  Tokens,
  Collections,
  ColOf,       \* token -> collection
  Owners,
  CreatorOf,   \* collection -> the account that created it
  NameOf,      \* collection -> its name; two collections may have the same
  Uris,        \* nonzero
  NoOne,       \* no owner, and the address zero
  MaxHeight,   \* bound: blocks
  MaxEvents    \* bound: nft events in a block

ASSUME NftAssumption ==
  /\ ColOf \in [Tokens -> Collections]
  /\ CreatorOf \in [Collections -> Owners]
  /\ NameOf = [c \in Collections |-> NameOf[c]]
  /\ IsFiniteSet(Tokens)
  /\ Uris \subseteq Nat \ {0} /\ Uris # {}
  /\ NoOne \notin Owners
  /\ MaxHeight \in Nat /\ MaxEvents \in Nat

VARIABLES
  vm,         \* which submodule runs
  nameless,   \* chain: collections whose name query is answered with an error (evm)
  owner,      \* chain: token -> owner or NoOne
  uri,        \* chain: token -> its uri, NoUri if it has none; noUriYet without an owner
  exists,     \* chain: collections that were created
  height,     \* the block being filled or collected
  at,         \* "events", "prepare", "collect"
  events,     \* how many nft events the block has
  maps,       \* the maps of the submodule's loops over the block
  prepared,   \* what prepare cached for the block
  blacklist,  \* collections whose name query failed
  nft,        \* database: token -> row
  col,        \* database: collection -> row
  firstSeen,  \* database: collection -> height of its first transaction, 0 if none
  before,     \* history: collections older than START_HEIGHT
  evicted,    \* history: the blacklist lost a collection during this block
  unseen,     \* history: tokens that have an owner, but whose mint left no row
  staleOwner, \* history: tokens minted again in the block of their burn ...
  staleUri,   \* ... whose row was there before; and rows a transfer created
  grown       \* history: collections with a row that only a transfer created

dbVars   == <<nft, col, firstSeen>>
history  == <<before, evicted, unseen, staleOwner, staleUri, grown>>
nftVars  == <<vm, nameless, owner, uri, exists, height, at, events, maps, prepared, blacklist, dbVars,
              history>>

NoUri == 0
AnyUri == Uris \union {NoUri}
noUriYet == CHOOSE u \in Uris : TRUE
NoRow == [owner |-> NoOne, uri |-> NoUri]
NoCol == [height |-> 0, count |-> 0, origin |-> FALSE]

noMaps ==
  [mint     |-> [t \in Tokens |-> NoOne],
   mintUri  |-> [t \in Tokens |-> NoUri],   \* wasm keeps the uri of the event
   transfer |-> [t \in Tokens |-> NoOne],
   mut      |-> [t \in Tokens |-> NoUri],   \* only move
   burn     |-> {},
   target   |-> {},                         \* collections with a mint, even if burned
   created  |-> {},                         \* collections created in the block
   count    |-> {},                         \* updateCountMap
   seen     |-> {},                         \* contracts in a transaction of the block
   pairs    |-> {}]                         \* collectionPairMap: names

notPrepared == [cols |-> {}, uri |-> [t \in Tokens |-> NoUri]]

minted      == {t \in Tokens : maps.mint[t] # NoOne}
transferred == {t \in Tokens : maps.transfer[t] # NoOne}
-----------------------------------------------------------------------------
(* The loops over the events.                                              *)

(* Bug: a mint leaves the token among the burned ones.                     *)
MintEventKeepsBurn(m, t, o, u) ==
  [m EXCEPT !.mint[t] = o, !.mintUri[t] = u, !.count = @ \union {ColOf[t]}]

MintEvent(m, t, o, u) ==
  [m EXCEPT !.mint[t] = o, !.mintUri[t] = u, !.burn = @ \ {t}, !.count = @ \union {ColOf[t]}]

(* The collections that prepare will ask about.                            *)
WithTarget(m, cols) == [m EXCEPT !.target = @ \union cols]

TransferEvent(m, t, o) == [m EXCEPT !.transfer[t] = o]

(* Bug: a burn does not refresh the count of the collection.               *)
BurnEventUncounted(m, t) ==
  [m EXCEPT !.burn = @ \union {t}, !.mint[t] = NoOne, !.transfer[t] = NoOne, !.mut[t] = NoUri]

BurnEvent(m, t) ==
  [m EXCEPT !.burn = @ \union {t}, !.mint[t] = NoOne, !.transfer[t] = NoOne,
            !.mut[t] = NoUri, !.count = @ \union {ColOf[t]}]

(* The accounts of a transaction: the contract is one of them.             *)
WithTx(m, t, inTx) == IF inTx THEN [m EXCEPT !.seen = @ \union {ColOf[t]}] ELSE m

Grows(kind) ==
  /\ vm = kind
  /\ at = "events" /\ height <= MaxHeight
  /\ events < MaxEvents
  /\ events' = events + 1
  /\ UNCHANGED <<vm, nameless, exists, height, at, prepared, blacklist, dbVars,
                 before, evicted>>

(* What the tables will say of a token follows from its last events and    *)
(* from whether it had a row when the block began.                         *)
ChainMint(t, o, u) ==
  LET kept == nft[t] # NoRow   \* so it was burned in this block
  IN  /\ ColOf[t] \in exists
      /\ owner[t] = NoOne
      /\ owner' = [owner EXCEPT ![t] = o]
      /\ uri' = [uri EXCEPT ![t] = u]
      /\ unseen' = IF ~kept /\ vm = "evm" /\ ColOf[t] \in nameless THEN unseen \union {t}
                   ELSE unseen \ {t}
      /\ staleOwner' = IF kept THEN staleOwner \union {t} ELSE staleOwner \ {t}
      /\ staleUri' = IF kept THEN staleUri \union {t} ELSE staleUri \ {t}
      /\ UNCHANGED grown

ChainTransfer(t, o) ==
  LET creates == t \in unseen /\ vm # "move"
  IN  /\ owner[t] # NoOne
      /\ owner' = [owner EXCEPT ![t] = o]
      /\ unseen' = IF creates THEN unseen \ {t} ELSE unseen
      /\ staleOwner' = staleOwner \ {t}
      /\ staleUri' = IF creates THEN staleUri \union {t} ELSE staleUri
      /\ grown' = IF creates THEN grown \union {ColOf[t]} ELSE grown
      /\ UNCHANGED uri

ChainBurn(t) ==
  /\ owner[t] # NoOne
  /\ owner' = [owner EXCEPT ![t] = NoOne]
  /\ unseen' = unseen \ {t}
  /\ staleOwner' = staleOwner \ {t}
  /\ staleUri' = staleUri \ {t}
  /\ uri' = [uri EXCEPT ![t] = noUriYet]
  /\ UNCHANGED grown

(* A Transfer log of an ERC721 contract: the sender is the zero address if *)
(* it is a mint, the recipient if it is a burn.  The query of the uri of a *)
(* minted token may revert.                                                *)
EvmLog(t, to, inTx) ==
  /\ Grows("evm")
  /\ \/ /\ to # NoOne
        /\ \E u \in AnyUri :
             /\ ChainMint(t, to, u)
             /\ maps' = WithTx(WithTarget(MintEvent(maps, t, to, u), {ColOf[t]}), t, inTx)
     \/ to # NoOne /\ ChainTransfer(t, to) /\ maps' = WithTx(TransferEvent(maps, t, to), t, inTx)
     \/ to = NoOne /\ ChainBurn(t) /\ maps' = WithTx(BurnEvent(maps, t), t, inTx)

(* A wasm event: mint, transfer_nft or send_nft, or burn.  A mint has an   *)
(* owner; with a minter it is a valid collection event too.  It may have   *)
(* no token_uri.                                                           *)
WasmEvent(t, to, inTx) ==
  /\ Grows("wasm")
  /\ \/ /\ to # NoOne
        /\ \E u \in AnyUri, cols \in SUBSET {ColOf[t]} :
             /\ ChainMint(t, to, u)
             /\ maps' = WithTx(WithTarget(MintEvent(maps, t, to, u), cols), t, inTx)
     \/ to # NoOne /\ ChainTransfer(t, to) /\ maps' = WithTx(TransferEvent(maps, t, to), t, inTx)
     \/ to = NoOne /\ ChainBurn(t) /\ maps' = WithTx(BurnEvent(maps, t), t, inTx)

(* A move event: collection MintEvent, object TransferEvent, nft Mutation- *)
(* Event of the uri, collection BurnEvent.                                 *)
MoveEvent(t, to) ==
  /\ Grows("move")
  /\ \/ /\ to = CreatorOf[ColOf[t]]
        /\ \E u \in Uris :
             /\ ChainMint(t, to, u)
             /\ maps' = WithTarget(MintEvent(maps, t, to, u), {ColOf[t]})
     \/ to # NoOne /\ ChainTransfer(t, to) /\ maps' = TransferEvent(maps, t, to)
     \/ to = NoOne /\ ChainBurn(t) /\ maps' = BurnEvent(maps, t)
     \/ /\ to = owner[t] /\ to # NoOne
        /\ \E u \in Uris :
             /\ uri' = [uri EXCEPT ![t] = u]
             /\ maps' = [maps EXCEPT !.mut[t] = u]
        /\ staleUri' = staleUri \ {t}
        /\ UNCHANGED <<owner, unseen, staleOwner, grown>>

(* A transaction creates a collection: its contract is one of the accounts *)
(* of the transaction; the event of a wasm contract may have a minter and  *)
(* a creator; on move it is a CreateCollectionEvent.                       *)
CreateCollection(c) ==
  /\ at = "events" /\ height <= MaxHeight
  /\ c \notin exists
  /\ exists' = exists \union {c}
  /\ \E cols \in IF vm = "wasm" THEN SUBSET {c} ELSE {{}} :
       maps' = WithTarget([maps EXCEPT !.created = @ \union {c}, !.seen = @ \union {c}], cols)
  /\ UNCHANGED <<vm, nameless, owner, uri, height, at, events, prepared, blacklist, dbVars, history>>

(* The packet of an nft-transfer comes with a mint; it holds the name of   *)
(* the collection.                                                         *)
RecvPacket(c) ==
  /\ at = "events"
  /\ \E t \in minted : ColOf[t] = c
  /\ maps' = [maps EXCEPT !.pairs = @ \union {NameOf[c]}]
  /\ UNCHANGED <<vm, nameless, owner, uri, exists, height, at, events, prepared, blacklist, dbVars, history>>

EndBlock ==
  /\ at = "events" /\ height <= MaxHeight
  /\ at' = "prepare"
  /\ UNCHANGED <<vm, nameless, owner, uri, exists, height, events, maps, prepared, blacklist, dbVars, history>>
-----------------------------------------------------------------------------
(* Bug: names are queried only for collections that have no row yet.       *)
NamedIfNew == {c \in maps.target \ (nameless \union blacklist) : col[c] = NoCol}

(* prepare: the names of the collections with a mint, and the uris of what *)
(* was minted, at the height of the block.  A token whose uri cannot be    *)
(* queried is left without one.                                            *)
Named == maps.target \ (nameless \union blacklist)

PrepareEvm ==
  /\ vm = "evm"
  /\ at = "prepare"
  /\ prepared' = [cols |-> Named,
                  uri  |-> [t \in Tokens |-> IF t \in minted /\ ColOf[t] \notin blacklist
                                             THEN uri[t] ELSE NoUri]]
  /\ blacklist' = blacklist \union (maps.target \intersect nameless)
  /\ at' = "collect"
  /\ UNCHANGED <<vm, nameless, owner, uri, exists, height, events, maps, dbVars, history>>

(* There is no querier to ask: prepare ends only if no event of the block  *)
(* names a collection.                                                     *)
PrepareWasm ==
  /\ vm = "wasm"
  /\ at = "prepare"
  /\ maps.target \subseteq blacklist
  /\ prepared' = notPrepared
  /\ at' = "collect"
  /\ UNCHANGED <<vm, nameless, owner, uri, exists, height, events, maps, blacklist, dbVars, history>>

PrepareMove ==
  /\ vm = "move"
  /\ at = "prepare"
  /\ prepared' = [cols |-> {},
                  uri  |-> [t \in Tokens |-> IF t \in minted THEN uri[t] ELSE NoUri]]
  /\ at' = "collect"
  /\ UNCHANGED <<vm, nameless, owner, uri, exists, height, events, maps, blacklist, dbVars, history>>
-----------------------------------------------------------------------------
mintedCols == {ColOf[t] : t \in minted}

(* getCollectionCreationInfo: the first transaction with the contract.     *)
creation(c) == IF firstSeen[c] = 0 /\ c \in maps.seen THEN height ELSE firstSeen[c]

(* collect ends with an error if a name is neither there nor blacklisted,  *)
(* or no transaction has the contract.                                     *)
EvmReady ==
  \A c \in mintedCols : IF c \in prepared.cols THEN creation(c) # 0 ELSE c \in blacklist

EvmCols ==
  [c \in Collections |-> IF c \in mintedCols \intersect prepared.cols /\ col[c] = NoCol
                         THEN [NoCol EXCEPT !.height = creation(c)] ELSE col[c]]

(* Minted tokens are inserted unless they are there, transferred ones      *)
(* inserted or their owner updated, burned ones deleted.                   *)
EvmRows ==
  [t \in Tokens |->
     LET row == IF t \in minted /\ ColOf[t] \in prepared.cols /\ nft[t] = NoRow
                THEN [owner |-> maps.mint[t], uri |-> prepared.uri[t]] ELSE nft[t]
     IN  IF t \in maps.burn THEN NoRow
         ELSE IF t \in transferred THEN [row EXCEPT !.owner = maps.transfer[t]] ELSE row]

WasmCols ==
  [c \in Collections |-> IF c \in prepared.cols /\ col[c] = NoCol
                         THEN [NoCol EXCEPT !.height = height] ELSE col[c]]

WasmRows ==
  [t \in Tokens |->
     LET row == IF t \in minted /\ nft[t] = NoRow
                THEN [owner |-> maps.mint[t], uri |-> maps.mintUri[t]] ELSE nft[t]
     IN  IF t \in maps.burn THEN NoRow
         ELSE IF t \in transferred THEN [row EXCEPT !.owner = maps.transfer[t]] ELSE row]

MoveCols ==
  [c \in Collections |-> IF c \in maps.created /\ col[c] = NoCol
                         THEN [NoCol EXCEPT !.height = height] ELSE col[c]]

(* collect ends with an error if a collection with a mint has no row, or   *)
(* the resource of a minted token is not there.                            *)
MoveReady ==
  /\ \A c \in maps.target : MoveCols[c] # NoCol
  /\ \A t \in minted : prepared.uri[t] # NoUri

(* Transfers and mutations update the row, if there is one.                *)
MoveRows ==
  [t \in Tokens |->
     LET row   == IF t \in minted /\ nft[t] = NoRow
                  THEN [owner |-> CreatorOf[ColOf[t]], uri |-> prepared.uri[t]] ELSE nft[t]
         moved == IF t \in transferred THEN [row EXCEPT !.owner = maps.transfer[t]] ELSE row
     IN  IF row = NoRow \/ t \in maps.burn THEN NoRow
         ELSE IF maps.mut[t] # NoUri THEN [moved EXCEPT !.uri = maps.mut[t]] ELSE moved]

rowsIn(rows, c) == {t \in Tokens : ColOf[t] = c /\ rows[t] # NoRow}

(* The counts of the collections that changed, grouped by collection: one  *)
(* that has no row left is not in the answer.                              *)
NftCounts(cols, rows) ==
  [c \in Collections |-> IF c \in maps.count /\ cols[c] # NoCol /\ rowsIn(rows, c) # {}
                         THEN [cols[c] EXCEPT !.count = Cardinality(rowsIn(rows, c))] ELSE cols[c]]

(* nft_pair.Collect updates the rows that are there, all those of a name.  *)
Paired(cols) ==
  [c \in Collections |-> IF NameOf[c] \in maps.pairs /\ cols[c] # NoCol
                         THEN [cols[c] EXCEPT !.origin = TRUE] ELSE cols[c]]

(* Bug: the pairs are collected before the collections are inserted.       *)
CollectPairsFirst(cols, rows) ==
  /\ nft' = rows
  /\ col' = [c \in Collections |->
               [NftCounts(cols, rows)[c] EXCEPT !.origin = @ \/ (NameOf[c] \in maps.pairs /\ col[c] # NoCol)]]
  /\ firstSeen' = [c \in Collections |-> creation(c)]
  /\ grown' = grown \ maps.count
  /\ evicted' = FALSE
  /\ height' = height + 1
  /\ at' = "events"
  /\ events' = 0
  /\ maps' = noMaps
  /\ prepared' = notPrepared
  /\ UNCHANGED <<vm, nameless, owner, uri, exists, blacklist, before, unseen, staleOwner, staleUri>>

(* The transaction of the block is committed.                              *)
Collect(cols, rows) ==
  /\ nft' = rows
  /\ col' = Paired(NftCounts(cols, rows))
  /\ firstSeen' = [c \in Collections |-> creation(c)]
  /\ grown' = grown \ maps.count
  /\ evicted' = FALSE
  /\ height' = height + 1
  /\ at' = "events"
  /\ events' = 0
  /\ maps' = noMaps
  /\ prepared' = notPrepared
  /\ UNCHANGED <<vm, nameless, owner, uri, exists, blacklist, before, unseen, staleOwner, staleUri>>

CollectEvm ==
  /\ vm = "evm" /\ at = "collect"
  /\ EvmReady
  /\ Collect(EvmCols, EvmRows)

CollectWasm ==
  /\ vm = "wasm" /\ at = "collect"
  /\ Collect(WasmCols, WasmRows)

CollectMove ==
  /\ vm = "move" /\ at = "collect"
  /\ MoveReady
  /\ Collect(MoveCols, MoveRows)

(* The process starts again and prepares the block again.                  *)
Restart ==
  /\ at' = "prepare"
  /\ prepared' = notPrepared
  /\ blacklist' = {}
  /\ UNCHANGED <<vm, nameless, owner, uri, exists, height, events, maps, dbVars, history>>

(* GetCollectionData reads the urls of a querier that is nil.              *)
PreparePanics ==
  /\ vm = "wasm" /\ at = "prepare"
  /\ ~(maps.target \subseteq blacklist)
  /\ Restart

(* collect() panics when the submodule returns an error.                   *)
CollectFails ==
  /\ at = "collect"
  /\ \/ vm = "evm" /\ ~EvmReady
     \/ vm = "move" /\ ~MoveReady
  /\ Restart

Kill ==
  /\ at # "events"
  /\ Restart

(* Other collections push this one out of the blacklist.                   *)
EvictBlacklist(c) ==
  /\ c \in blacklist
  /\ evicted' = TRUE
  /\ blacklist' = blacklist \ {c}
  /\ UNCHANGED <<vm, nameless, owner, uri, exists, height, at, events, maps, prepared, dbVars,
                 before, unseen, staleOwner, staleUri, grown>>
-----------------------------------------------------------------------------
(* START_HEIGHT may lie above the creation of some collections and tokens. *)
NftInit ==
  /\ vm \in {"evm", "wasm", "move"}
  /\ nameless \in IF vm = "evm" THEN SUBSET Collections ELSE {{}}
  /\ exists \in SUBSET Collections
  /\ \E o \in Owners, old \in SUBSET {t \in Tokens : ColOf[t] \in exists} :
       owner = [t \in Tokens |-> IF t \in old THEN o ELSE NoOne]
  /\ uri = [t \in Tokens |-> noUriYet]
  /\ height = 1
  /\ at = "events"
  /\ events = 0
  /\ maps = noMaps
  /\ prepared = notPrepared
  /\ blacklist = {}
  /\ nft = [t \in Tokens |-> NoRow]
  /\ col = [c \in Collections |-> NoCol]
  /\ firstSeen = [c \in Collections |-> 0]
  /\ before = exists
  /\ evicted = FALSE
  /\ unseen = {t \in Tokens : owner[t] # NoOne}
  /\ staleOwner = {}
  /\ staleUri = {}
  /\ grown = {}

NftNext ==
  \/ \E t \in Tokens, to \in Owners \union {NoOne}, inTx \in BOOLEAN :
       EvmLog(t, to, inTx) \/ WasmEvent(t, to, inTx)
  \/ \E t \in Tokens, to \in Owners \union {NoOne} : MoveEvent(t, to)
  \/ \E c \in Collections : CreateCollection(c) \/ RecvPacket(c) \/ EvictBlacklist(c)
  \/ EndBlock
  \/ PrepareEvm \/ PrepareWasm \/ PrepareMove
  \/ CollectEvm \/ CollectWasm \/ CollectMove
  \/ PreparePanics \/ CollectFails
  \/ Kill

NftSpec == NftInit /\ [][NftNext]_nftVars
-----------------------------------------------------------------------------
(* Every event of the blocks collected so far is in the tables.            *)
Settled == at = "events" /\ maps = noMaps

(* The rows say what the chain says, whatever was minted, transferred,     *)
(* mutated and burned in whatever order and block: a token has a row       *)
(* exactly if it has an owner, with that owner and the uri that the chain  *)
(* gave for it, if any.  The exceptions: a token from before START_HEIGHT, *)
(* or on evm one of a collection without a name, has none until it is      *)
(* transferred (never on move); a token that is burned and minted again in *)
(* one block keeps its old row; and a row that a transfer creates has no   *)
(* uri (collect).  On wasm this is about the blocks that can be prepared:  *)
(* no block with a mint that names its minter is ever collected.           *)
RowsRight ==
  Settled => \A t \in Tokens :
    /\ nft[t] = NoRow <=> owner[t] = NoOne \/ t \in unseen
    /\ nft[t] # NoRow => /\ nft[t].owner = owner[t] \/ t \in staleOwner
                         /\ nft[t].uri = uri[t] \/ t \in staleUri

(* nft_count is the number of rows of the collection, unless a transfer    *)
(* created one and no mint or burn came since, or there are none: the      *)
(* count of a collection whose last tokens are burned stays what it was    *)
(* (collect, update nft count).                                            *)
CountsRight ==
  Settled => \A c \in Collections :
    \/ col[c] = NoCol \/ c \in grown
    \/ rowsIn(nft, c) = {}
    \/ col[c].count = Cardinality(rowsIn(nft, c))

(* What collect looks up was prepared: it fails only if the blacklist lost *)
(* the collection in between, if a collection of the move chain is older   *)
(* than START_HEIGHT, or if no transaction has the contract.               *)
CollectPrepared ==
  at = "collect" =>
    /\ vm = "evm" => \A c \in mintedCols : c \in prepared.cols \union blacklist \/ evicted
    /\ vm = "move" => /\ \A t \in minted : prepared.uri[t] = uri[t]
                      /\ \A c \in maps.target : MoveCols[c] # NoCol \/ c \in before

(* A packet names every collection of the name it holds, in the block that *)
(* inserts the collection too; nothing else names one, and the name stays  *)
(* (nft_pair.Collect).                                                     *)
PairsNamed ==
  [][\A c \in Collections :
       /\ height' # height /\ NameOf[c] \in maps.pairs /\ col'[c] # NoCol => col'[c].origin
       /\ col[c].origin => col'[c].origin
       /\ col'[c].origin /\ ~col[c].origin => NameOf[c] \in maps.pairs]_nftVars
=============================================================================
