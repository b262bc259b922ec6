----------------------------- MODULE NftProofs -----------------------------
(***************************************************************************)
(* Proofs about the nft submodules: the rows and counts they leave are     *)
(* those of the chain, on each virtual machine and for any events in any   *)
(* order, and what collect looks up was prepared.  On wasm, where a block  *)
(* with the event of a collection cannot be prepared, this is about the    *)
(* other blocks.                                                           *)
(***************************************************************************)
EXTENDS NftCollect, FiniteSetTheorems, TLAPS

AnyOwner == Owners \union {NoOne}
ColNames == {NameOf[c] : c \in Collections}
NftRows  == [owner : AnyOwner, uri : AnyUri]
ColRows  == [height : Nat, count : Nat, origin : BOOLEAN]
Maps     == [mint : [Tokens -> AnyOwner], mintUri : [Tokens -> AnyUri],
             transfer : [Tokens -> AnyOwner], mut : [Tokens -> AnyUri],
             burn : SUBSET Tokens, target : SUBSET Collections, created : SUBSET Collections,
             count : SUBSET Collections, seen : SUBSET Collections, pairs : SUBSET ColNames]

NftTypes ==
  /\ vm \in {"evm", "wasm", "move"}
  /\ owner \in [Tokens -> AnyOwner]
  /\ uri \in [Tokens -> AnyUri]
  /\ exists \in SUBSET Collections
  /\ height \in Nat \ {0}
  /\ at \in {"events", "prepare", "collect"}
  /\ maps \in Maps
  /\ prepared \in [cols : SUBSET Collections, uri : [Tokens -> AnyUri]]
  /\ nft \in [Tokens -> NftRows]
  /\ col \in [Collections -> ColRows]
  /\ firstSeen \in [Collections -> Nat]

(* The row of t after the mints of the block, and the one that its         *)
(* transaction will leave, if the block ends now.                          *)
Inserted(t) ==
  IF maps.mint[t] # NoOne /\ nft[t] = NoRow /\ ~(vm = "evm" /\ ColOf[t] \in nameless)
  THEN [owner |-> maps.mint[t], uri |-> IF vm = "wasm" THEN maps.mintUri[t] ELSE uri[t]]
  ELSE nft[t]

WillBe(t) ==
  IF t \in maps.burn \/ (vm = "move" /\ Inserted(t) = NoRow) THEN NoRow
  ELSE [owner |-> IF maps.transfer[t] # NoOne THEN maps.transfer[t] ELSE Inserted(t).owner,
        uri   |-> IF vm = "move" /\ maps.mut[t] # NoUri THEN maps.mut[t] ELSE Inserted(t).uri]

(* The row that the transaction will leave is right.                       *)
RowInv(t) ==
  /\ WillBe(t) = NoRow <=> owner[t] = NoOne \/ t \in unseen
  /\ WillBe(t) # NoRow => /\ WillBe(t).owner = owner[t] \/ t \in staleOwner
                          /\ WillBe(t).uri = uri[t] \/ t \in staleUri

(* What the maps hold of a token without an owner was cleared by its burn, *)
(* and a token with one is not among the burned ones.  The collections     *)
(* whose number of rows changes are counted, or grow.                      *)
MapsInv(t) ==
  /\ owner[t] = NoOne => maps.mint[t] = NoOne /\ maps.transfer[t] = NoOne /\ maps.mut[t] = NoUri
  /\ owner[t] # NoOne => t \notin maps.burn
  /\ maps.mint[t] # NoOne => /\ vm # "wasm" => ColOf[t] \in maps.target
                             /\ ColOf[t] \in maps.count
                             /\ vm = "move" => maps.mint[t] = CreatorOf[ColOf[t]]
  /\ ColOf[t] \notin maps.count \union grown => (WillBe(t) = NoRow <=> nft[t] = NoRow)
  /\ owner[t] # NoOne \/ nft[t] # NoRow => ColOf[t] \in exists
  /\ ColOf[t] \in maps.created =>
       nft[t] = NoRow /\ (ColOf[t] \notin maps.count => owner[t] = NoOne)

TokenInv == \A t \in Tokens : RowInv(t) /\ MapsInv(t)

CountInv ==
  \A c \in Collections :
    \/ col[c] = NoCol \/ c \in grown
    \/ rowsIn(nft, c) = {}
    \/ col[c].count = Cardinality(rowsIn(nft, c))

(* Where a collection with a mint comes from.                              *)
ColInv ==
  /\ maps.target \subseteq exists
  /\ maps.target \subseteq maps.created \union maps.count
  /\ vm = "move" => \A c \in exists : c \in before \/ c \in maps.created \/ col[c] # NoCol

(* prepare leaves what collect needs, for the events of the block are all  *)
(* there when it runs.                                                     *)
PrepareInv ==
  /\ blacklist \subseteq nameless
  /\ at = "collect" =>
       /\ vm = "evm" => prepared.cols = maps.target \ nameless
       /\ vm = "wasm" => prepared.cols = {}
       /\ vm = "evm" => \A c \in maps.target \intersect nameless : c \in blacklist \/ evicted
       /\ \A t \in Tokens :
            maps.mint[t] # NoOne /\ (vm = "move" \/ (vm = "evm" /\ ColOf[t] \notin nameless))
              => prepared.uri[t] = uri[t]

NftInv == NftTypes /\ TokenInv /\ CountInv /\ ColInv /\ PrepareInv
-----------------------------------------------------------------------------
LEMMA Constants ==
  /\ \A t \in Tokens : ColOf[t] \in Collections
  /\ \A c \in Collections : CreatorOf[c] \in Owners
  /\ NoOne \notin Owners
  /\ NoUri \notin Uris
  /\ noUriYet \in Uris
  /\ NoOne \in AnyOwner /\ NoUri \in AnyUri
  BY NftAssumption DEF NoUri, noUriYet, AnyOwner, AnyUri

LEMMA NoRowType == NoRow \in NftRows /\ NoRow.owner = NoOne /\ NoRow.uri = NoUri
  BY DEF NoRow, NftRows, AnyOwner, AnyUri

LEMMA NoMapsType == noMaps \in Maps
  BY DEF noMaps, Maps, AnyOwner, AnyUri

LEMMA NotPreparedType == notPrepared \in [cols : SUBSET Collections, uri : [Tokens -> AnyUri]]
  BY DEF notPrepared, AnyUri

(* The types of what belongs to one token.                                 *)
LEMMA TokenTypes ==
  ASSUME NftTypes, NEW t \in Tokens
  PROVE  /\ nft[t] \in NftRows /\ owner[t] \in AnyOwner /\ uri[t] \in AnyUri
         /\ maps.mint[t] \in AnyOwner /\ maps.mintUri[t] \in AnyUri
         /\ maps.transfer[t] \in AnyOwner /\ maps.mut[t] \in AnyUri
         /\ Inserted(t) \in NftRows /\ WillBe(t) \in NftRows
<1>1. /\ nft[t] \in NftRows /\ owner[t] \in AnyOwner /\ uri[t] \in AnyUri
      /\ maps.mint[t] \in AnyOwner /\ maps.mintUri[t] \in AnyUri
      /\ maps.transfer[t] \in AnyOwner /\ maps.mut[t] \in AnyUri
  BY DEF NftTypes, Maps
<1>2. Inserted(t) \in NftRows
  BY <1>1 DEF Inserted, NftRows, AnyUri
<1>3. Inserted(t).owner \in AnyOwner /\ Inserted(t).uri \in AnyUri
  BY <1>2 DEF NftRows
<1>4. WillBe(t) \in NftRows
  BY <1>1, <1>3, NoRowType DEF WillBe, NftRows
<1> QED
  BY <1>1, <1>2, <1>4

(* A row without anybody's name is the one that is not there.              *)
LEMMA RowIsNoRow ==
  ASSUME NEW r \in NftRows
  PROVE  /\ r.owner \in AnyOwner /\ r.uri \in AnyUri
         /\ r = [owner |-> r.owner, uri |-> r.uri]
         /\ r = NoRow <=> r.owner = NoOne /\ r.uri = NoUri
  BY DEF NftRows, NoRow

(* A token that the step is not about.                                     *)
LEMMA OtherToken ==
  ASSUME NEW t \in Tokens, RowInv(t), MapsInv(t), UNCHANGED <<vm, nameless, nft>>,
         owner'[t] = owner[t], uri'[t] = uri[t],
         maps'.mint[t] = maps.mint[t], maps'.mintUri[t] = maps.mintUri[t],
         maps'.transfer[t] = maps.transfer[t], maps'.mut[t] = maps.mut[t],
         t \in maps'.burn <=> t \in maps.burn,
         t \in unseen' <=> t \in unseen,
         t \in staleOwner' <=> t \in staleOwner,
         t \in staleUri' <=> t \in staleUri,
         maps.target \subseteq maps'.target, maps.count \subseteq maps'.count,
         grown \subseteq grown', exists \subseteq exists',
         ColOf[t] \in maps'.created =>
           ColOf[t] \in maps.created \/ (nft[t] = NoRow /\ owner[t] = NoOne)
  PROVE  RowInv(t)' /\ MapsInv(t)'
<1>1. Inserted(t)' = Inserted(t)
  BY DEF Inserted
<1>2. WillBe(t)' = WillBe(t)
  BY <1>1 DEF WillBe
<1>3. RowInv(t)'
  BY <1>2 DEF RowInv
<1>4. MapsInv(t)'
  BY <1>2 DEF MapsInv
<1> QED
  BY <1>3, <1>4
-----------------------------------------------------------------------------
LEMMA MintedToken ==
  ASSUME NftTypes, NEW t \in Tokens, RowInv(t), MapsInv(t),
         NEW o \in Owners, NEW u \in AnyUri, ChainMint(t, o, u),
         UNCHANGED <<vm, nameless, nft, exists>>,
         maps'.mint[t] = o, maps'.mintUri[t] = u, maps'.transfer[t] = maps.transfer[t],
         maps'.mut[t] = maps.mut[t], t \notin maps'.burn,
         vm # "wasm" => ColOf[t] \in maps'.target,
         ColOf[t] \in maps'.count, maps'.created = maps.created,
         vm = "move" => o = CreatorOf[ColOf[t]]
  PROVE  RowInv(t)' /\ MapsInv(t)'
<1>1. /\ owner[t] = NoOne /\ owner'[t] = o /\ uri'[t] = u
      /\ o # NoOne /\ ColOf[t] \in exists
      /\ t \in unseen' <=> nft[t] = NoRow /\ vm = "evm" /\ ColOf[t] \in nameless
      /\ nft[t] # NoRow => t \in staleOwner' /\ t \in staleUri'
  BY Constants DEF ChainMint, NftTypes
<1>2. maps'.transfer[t] = NoOne /\ maps'.mut[t] = NoUri
  BY <1>1 DEF MapsInv
<1>3. nft[t] \in NftRows
  BY TokenTypes
<1>4. CASE nft[t] # NoRow
  <2>1. Inserted(t)' = nft[t]
    BY <1>4 DEF Inserted
  <2>2. WillBe(t)' = nft[t]
    BY <2>1, <1>2, <1>3, <1>4, RowIsNoRow DEF WillBe
  <2>3. RowInv(t)'
    BY <2>2, <1>1, <1>4 DEF RowInv
  <2>4. ColOf[t] \notin maps.created
    BY <1>4 DEF MapsInv
  <2>5. MapsInv(t)'
    BY <1>1, <2>4 DEF MapsInv
  <2> QED
    BY <2>3, <2>5
<1>5. CASE nft[t] = NoRow /\ vm = "evm" /\ ColOf[t] \in nameless
  <2>1. Inserted(t)' = NoRow
    BY <1>5 DEF Inserted
  <2>2. WillBe(t)' = NoRow
    BY <2>1, <1>2, <1>5, NoRowType DEF WillBe, NoRow
  <2>3. RowInv(t)'
    BY <2>2, <1>1, <1>5 DEF RowInv
  <2>4. MapsInv(t)'
    BY <1>1, <1>5 DEF MapsInv
  <2> QED
    BY <2>3, <2>4
<1>6. CASE nft[t] = NoRow /\ ~(vm = "evm" /\ ColOf[t] \in nameless)
  <2>1. Inserted(t)' = [owner |-> o, uri |-> u]
    BY <1>1, <1>6 DEF Inserted
  <2>2. Inserted(t)' # NoRow
    BY <2>1, <1>1 DEF NoRow
  <2>3. WillBe(t)' = [owner |-> o, uri |-> u]
    BY <2>1, <2>2, <1>2 DEF WillBe
  <2>4. RowInv(t)'
    BY <2>1, <2>2, <2>3, <1>1, <1>6 DEF RowInv
  <2>5. MapsInv(t)'
    BY <1>1, <1>6 DEF MapsInv
  <2> QED
    BY <2>4, <2>5
<1> QED
  BY <1>4, <1>5, <1>6

LEMMA TransferredToken ==
  ASSUME NftTypes, NEW t \in Tokens, RowInv(t), MapsInv(t),
         NEW o \in Owners, ChainTransfer(t, o),
         UNCHANGED <<vm, nameless, nft, exists>>,
         maps'.mint[t] = maps.mint[t], maps'.mintUri[t] = maps.mintUri[t],
         maps'.transfer[t] = o, maps'.mut[t] = maps.mut[t], maps'.burn = maps.burn,
         maps'.target = maps.target, maps'.count = maps.count, maps'.created = maps.created
  PROVE  RowInv(t)' /\ MapsInv(t)'
<1> DEFINE creates == t \in unseen /\ vm # "move"
<1>1. /\ owner[t] # NoOne /\ owner'[t] = o /\ o # NoOne /\ uri' = uri
      /\ t \in unseen' <=> t \in unseen /\ ~creates
      /\ t \in staleUri' <=> t \in staleUri \/ creates
      /\ creates => ColOf[t] \in grown'
      /\ grown \subseteq grown'
  BY Constants DEF ChainTransfer, NftTypes
<1>2. t \notin maps.burn
  BY <1>1 DEF MapsInv
<1>3. Inserted(t)' = Inserted(t) /\ Inserted(t) \in NftRows
  BY <1>1, TokenTypes DEF Inserted
<1>4. CASE vm = "move" /\ Inserted(t) = NoRow
  <2>1. WillBe(t) = NoRow /\ WillBe(t)' = NoRow
    BY <1>3, <1>4 DEF WillBe
  <2>2. RowInv(t)'
    BY <2>1, <1>1, <1>4 DEF RowInv
  <2>3. MapsInv(t)'
    BY <2>1, <1>1, <1>2 DEF MapsInv
  <2> QED
    BY <2>2, <2>3
<1>5. CASE ~(vm = "move" /\ Inserted(t) = NoRow)
  <2> DEFINE u == IF vm = "move" /\ maps.mut[t] # NoUri THEN maps.mut[t] ELSE Inserted(t).uri
  <2>1. WillBe(t)' = [owner |-> o, uri |-> u]
    BY <1>1, <1>2, <1>3, <1>5 DEF WillBe
  <2>2. WillBe(t).uri = u
    BY <1>2, <1>5 DEF WillBe
  <2> HIDE DEF u
  <2>3. WillBe(t)' # NoRow
    BY <2>1, <1>1 DEF NoRow
  <2>4. CASE creates
    <3>1. RowInv(t)'
      BY <2>1, <2>3, <2>4, <1>1 DEF RowInv
    <3>2. MapsInv(t)'
      BY <2>4, <1>1, <1>2 DEF MapsInv
    <3> QED
      BY <3>1, <3>2
  <2>5. CASE ~creates /\ WillBe(t) # NoRow
    <3>1. t \notin unseen
      BY <2>5, <1>1 DEF RowInv
    <3>2. RowInv(t)'
      BY <2>1, <2>2, <2>3, <2>5, <3>1, <1>1 DEF RowInv
    <3>3. MapsInv(t)'
      BY <2>3, <2>5, <1>1, <1>2 DEF MapsInv
    <3> QED
      BY <3>2, <3>3
  <2>6. CASE ~creates /\ WillBe(t) = NoRow
    <3>1. t \in unseen /\ vm = "move"
      BY <2>6, <1>1 DEF RowInv
    <3>2. PICK w \in AnyOwner, v \in AnyUri :
            WillBe(t) = [owner |-> w, uri |-> v] /\ (maps.transfer[t] = NoOne => w = Inserted(t).owner)
            /\ (maps.transfer[t] # NoOne => w = maps.transfer[t])
            /\ (maps.mut[t] = NoUri => v = Inserted(t).uri) /\ (maps.mut[t] # NoUri => v = maps.mut[t])
      <4>1. /\ maps.transfer[t] \in AnyOwner /\ maps.mut[t] \in AnyUri
            /\ Inserted(t).owner \in AnyOwner /\ Inserted(t).uri \in AnyUri
        BY TokenTypes, RowIsNoRow
      <4> QED
        BY <4>1, <3>1, <1>2, <1>5 DEF WillBe
    <3>3. w = NoOne /\ v = NoUri
      BY <3>2, <2>6 DEF NoRow
    <3>4. Inserted(t).owner = NoOne /\ Inserted(t).uri = NoUri
      BY <3>2, <3>3
    <3> QED
      BY <3>1, <3>4, <1>3, <1>5, RowIsNoRow
  <2> QED
    BY <2>4, <2>5, <2>6
<1> QED
  BY <1>4, <1>5

LEMMA BurnedToken ==
  ASSUME NftTypes, NEW t \in Tokens, RowInv(t), MapsInv(t), ChainBurn(t),
         UNCHANGED <<vm, nameless, nft, exists>>,
         maps'.mint[t] = NoOne, maps'.transfer[t] = NoOne, maps'.mut[t] = NoUri,
         t \in maps'.burn, ColOf[t] \in maps'.count,
         maps'.target = maps.target, maps'.created = maps.created
  PROVE  RowInv(t)' /\ MapsInv(t)'
<1>1. owner[t] # NoOne /\ owner'[t] = NoOne /\ ColOf[t] \in exists
  BY DEF ChainBurn, NftTypes, MapsInv
<1>2. WillBe(t)' = NoRow
  BY DEF WillBe
<1>3. RowInv(t)'
  BY <1>1, <1>2 DEF RowInv
<1>4. MapsInv(t)'
  BY <1>1, <1>2 DEF MapsInv
<1> QED
  BY <1>3, <1>4

(* On move, a mutation sets the uri of the row, if there is one.           *)
LEMMA MutatedToken ==
  ASSUME NftTypes, NEW t \in Tokens, RowInv(t), MapsInv(t), NEW u \in Uris, vm = "move",
         owner[t] # NoOne, UNCHANGED <<vm, nameless, nft, exists, grown, unseen, staleOwner>>,
         owner'[t] = owner[t], uri'[t] = u, t \notin staleUri',
         maps'.mint[t] = maps.mint[t], maps'.transfer[t] = maps.transfer[t], maps'.mut[t] = u,
         maps'.burn = maps.burn, maps'.target = maps.target, maps'.count = maps.count,
         maps'.created = maps.created
  PROVE  RowInv(t)' /\ MapsInv(t)'
<1>1. t \notin maps.burn /\ u # NoUri
  BY Constants DEF MapsInv
<1>2. /\ Inserted(t)'.owner = Inserted(t).owner
      /\ Inserted(t) = NoRow <=> Inserted(t)' = NoRow
  <2>1. CASE maps.mint[t] # NoOne /\ nft[t] = NoRow
    <3>1. Inserted(t) = [owner |-> maps.mint[t], uri |-> uri[t]]
          /\ Inserted(t)' = [owner |-> maps.mint[t], uri |-> u]
      BY <2>1 DEF Inserted
    <3> QED
      BY <3>1, <2>1 DEF NoRow
  <2>2. CASE ~(maps.mint[t] # NoOne /\ nft[t] = NoRow)
    BY <2>2 DEF Inserted
  <2> QED
    BY <2>1, <2>2
<1>3. CASE Inserted(t) = NoRow
  <2>1. WillBe(t) = NoRow /\ WillBe(t)' = NoRow
    BY <1>2, <1>3 DEF WillBe
  <2>2. RowInv(t)'
    BY <2>1 DEF RowInv
  <2>3. MapsInv(t)'
    BY <2>1 DEF MapsInv
  <2> QED
    BY <2>2, <2>3
<1>4. CASE Inserted(t) # NoRow
  <2> DEFINE w == IF maps.transfer[t] # NoOne THEN maps.transfer[t] ELSE Inserted(t).owner
  <2>1. WillBe(t)' = [owner |-> w, uri |-> u]
    BY <1>1, <1>2, <1>4 DEF WillBe
  <2>2. WillBe(t).owner = w
    BY <1>1, <1>4 DEF WillBe
  <2>3. WillBe(t) # NoRow
    <3>1. Inserted(t) \in NftRows /\ maps.mut[t] \in AnyUri
      BY TokenTypes
    <3>2. WillBe(t).uri = IF maps.mut[t] # NoUri THEN maps.mut[t] ELSE Inserted(t).uri
      BY <1>1, <1>4 DEF WillBe
    <3>3. ASSUME WillBe(t) = NoRow
          PROVE  FALSE
      <4>1. w = NoOne /\ WillBe(t).uri = NoUri
        BY <3>3, <2>2, NoRowType
      <4>2. Inserted(t).owner = NoOne /\ Inserted(t).uri = NoUri
        BY <4>1, <3>2
      <4> QED
        BY <4>2, <3>1, <1>4, RowIsNoRow
    <3> QED
      BY <3>3
  <2> HIDE DEF w
  <2>4. WillBe(t)' # NoRow
    BY <2>1, <1>1 DEF NoRow
  <2>5. RowInv(t)'
    BY <2>1, <2>2, <2>3, <2>4 DEF RowInv
  <2>6. MapsInv(t)'
    BY <2>3, <2>4 DEF MapsInv
  <2> QED
    BY <2>5, <2>6
<1> QED
  BY <1>3, <1>4
-----------------------------------------------------------------------------
(* The maps after an event.                                                *)
LEMMA WithTxMaps ==
  ASSUME NEW m \in Maps, NEW t \in Tokens, NEW inTx \in BOOLEAN
  PROVE  LET n == WithTx(m, t, inTx)
         IN  /\ n \in Maps
             /\ n.mint = m.mint /\ n.mintUri = m.mintUri /\ n.transfer = m.transfer /\ n.mut = m.mut
             /\ n.burn = m.burn /\ n.target = m.target /\ n.created = m.created
             /\ n.count = m.count /\ n.pairs = m.pairs
<1>1. m.seen \union {ColOf[t]} \in SUBSET Collections
  BY Constants DEF Maps
<1> QED
  BY <1>1 DEF WithTx, Maps

LEMMA MintMaps ==
  ASSUME NEW m \in Maps, NEW t \in Tokens, NEW o \in Owners, NEW u \in AnyUri,
         NEW cols \in SUBSET {ColOf[t]}
  PROVE  LET n == WithTarget(MintEvent(m, t, o, u), cols)
         IN  /\ n \in Maps
             /\ n.mint = [m.mint EXCEPT ![t] = o] /\ n.mintUri = [m.mintUri EXCEPT ![t] = u]
             /\ n.transfer = m.transfer /\ n.mut = m.mut
             /\ n.burn = m.burn \ {t} /\ n.target = m.target \union cols
             /\ n.created = m.created /\ n.count = m.count \union {ColOf[t]}
<1>1. [m.mint EXCEPT ![t] = o] \in [Tokens -> AnyOwner]
  BY DEF Maps, AnyOwner
<1>2. [m.mintUri EXCEPT ![t] = u] \in [Tokens -> AnyUri]
  BY DEF Maps, AnyUri
<1>3. /\ m.burn \ {t} \in SUBSET Tokens /\ m.target \union cols \in SUBSET Collections
      /\ m.count \union {ColOf[t]} \in SUBSET Collections
  BY Constants DEF Maps
<1> DEFINE e == MintEvent(m, t, o, u)
<1>4. e = [m EXCEPT !.mint = [m.mint EXCEPT ![t] = o], !.mintUri = [m.mintUri EXCEPT ![t] = u],
                    !.burn = m.burn \ {t}, !.count = m.count \union {ColOf[t]}]
  BY DEF MintEvent, Maps
<1> HIDE DEF e
<1>5. /\ e \in Maps /\ e.mint = [m.mint EXCEPT ![t] = o]
      /\ e.mintUri = [m.mintUri EXCEPT ![t] = u] /\ e.transfer = m.transfer /\ e.mut = m.mut
      /\ e.burn = m.burn \ {t} /\ e.target = m.target
      /\ e.created = m.created /\ e.count = m.count \union {ColOf[t]}
  BY <1>1, <1>2, <1>3, <1>4 DEF Maps
<1>6. LET n == WithTarget(e, cols)
      IN  /\ n \in Maps /\ n.mint = e.mint /\ n.mintUri = e.mintUri
          /\ n.transfer = e.transfer /\ n.mut = e.mut /\ n.burn = e.burn
          /\ n.target = e.target \union cols /\ n.created = e.created /\ n.count = e.count
  BY <1>3, <1>5 DEF WithTarget, Maps
<1> QED
  BY <1>5, <1>6 DEF e

LEMMA TransferMaps ==
  ASSUME NEW m \in Maps, NEW t \in Tokens, NEW o \in Owners
  PROVE  LET n == TransferEvent(m, t, o)
         IN  /\ n \in Maps
             /\ n.transfer = [m.transfer EXCEPT ![t] = o]
             /\ n.mint = m.mint /\ n.mintUri = m.mintUri /\ n.mut = m.mut /\ n.burn = m.burn
             /\ n.target = m.target /\ n.created = m.created /\ n.count = m.count
<1>1. [m.transfer EXCEPT ![t] = o] \in [Tokens -> AnyOwner]
  BY DEF Maps, AnyOwner
<1>2. TransferEvent(m, t, o) = [m EXCEPT !.transfer = [m.transfer EXCEPT ![t] = o]]
  BY DEF TransferEvent, Maps
<1> QED
  BY <1>1, <1>2 DEF Maps

LEMMA BurnMaps ==
  ASSUME NEW m \in Maps, NEW t \in Tokens
  PROVE  LET n == BurnEvent(m, t)
         IN  /\ n \in Maps
             /\ n.mint = [m.mint EXCEPT ![t] = NoOne] /\ n.mintUri = m.mintUri
             /\ n.transfer = [m.transfer EXCEPT ![t] = NoOne] /\ n.mut = [m.mut EXCEPT ![t] = NoUri]
             /\ n.burn = m.burn \union {t} /\ n.target = m.target
             /\ n.created = m.created /\ n.count = m.count \union {ColOf[t]}
<1>1. /\ [m.mint EXCEPT ![t] = NoOne] \in [Tokens -> AnyOwner]
      /\ [m.transfer EXCEPT ![t] = NoOne] \in [Tokens -> AnyOwner]
  BY DEF Maps, AnyOwner
<1>2. [m.mut EXCEPT ![t] = NoUri] \in [Tokens -> AnyUri]
  BY DEF Maps, AnyUri
<1>3. m.burn \union {t} \in SUBSET Tokens /\ m.count \union {ColOf[t]} \in SUBSET Collections
  BY Constants DEF Maps
<1>4. BurnEvent(m, t) =
        [m EXCEPT !.burn = m.burn \union {t}, !.mint = [m.mint EXCEPT ![t] = NoOne],
                  !.transfer = [m.transfer EXCEPT ![t] = NoOne],
                  !.mut = [m.mut EXCEPT ![t] = NoUri], !.count = m.count \union {ColOf[t]}]
  BY DEF BurnEvent, Maps
<1> QED
  BY <1>1, <1>2, <1>3, <1>4 DEF Maps
-----------------------------------------------------------------------------
(* An event leaves the tables alone and can only add to what is counted.   *)
LEMMA EventSide ==
  ASSUME NftInv, at = "events",
         UNCHANGED <<vm, nameless, at, blacklist, col, nft, before, exists>>,
         grown \subseteq grown', maps'.created = maps.created, maps.count \subseteq maps'.count,
         \A c \in maps'.target : c \in maps.target \/ (c \in exists /\ c \in maps'.count)
  PROVE  CountInv' /\ ColInv' /\ PrepareInv'
<1>1. CountInv'
  BY DEF NftInv, CountInv, rowsIn
<1>2. ColInv'
  BY DEF NftInv, ColInv
<1>3. PrepareInv'
  BY DEF NftInv, PrepareInv
<1> QED
  BY <1>1, <1>2, <1>3

LEMMA MintStep ==
  ASSUME NftInv, at = "events", NEW t \in Tokens, NEW o \in Owners, NEW u \in AnyUri,
         NEW cols \in SUBSET {ColOf[t]}, vm # "wasm" => cols = {ColOf[t]},
         ChainMint(t, o, u), vm = "move" => o = CreatorOf[ColOf[t]],
         UNCHANGED <<vm, nameless, exists, height, at, prepared, blacklist, dbVars, before, evicted>>,
         maps' \in Maps,
         maps'.mint = [maps.mint EXCEPT ![t] = o], maps'.mintUri = [maps.mintUri EXCEPT ![t] = u],
         maps'.transfer = maps.transfer, maps'.mut = maps.mut, maps'.burn = maps.burn \ {t},
         maps'.target = maps.target \union cols, maps'.created = maps.created,
         maps'.count = maps.count \union {ColOf[t]}
  PROVE  NftInv'
<1>1. NftTypes /\ maps \in Maps
  BY DEF NftInv, NftTypes
<1>2. /\ owner' = [owner EXCEPT ![t] = o] /\ uri' = [uri EXCEPT ![t] = u]
      /\ grown' = grown /\ ColOf[t] \in exists
  BY DEF ChainMint
<1>3. NftTypes'
  <2>1. owner' \in [Tokens -> AnyOwner] /\ uri' \in [Tokens -> AnyUri]
    BY <1>1, <1>2 DEF NftTypes, AnyOwner
  <2> QED
    BY <2>1, <1>1 DEF NftTypes, dbVars
<1>4. UNCHANGED <<vm, nameless, nft, exists, col>>
  BY DEF dbVars
<1>5. RowInv(t)' /\ MapsInv(t)'
  <2>1. /\ maps'.mint[t] = o /\ maps'.mintUri[t] = u
        /\ t \notin maps'.burn /\ ColOf[t] \in maps'.count
        /\ vm # "wasm" => ColOf[t] \in maps'.target
    BY <1>1 DEF Maps
  <2> QED
    BY <2>1, <1>1, <1>4, MintedToken DEF NftInv, TokenInv
<1>6. ASSUME NEW s \in Tokens, s # t
      PROVE  RowInv(s)' /\ MapsInv(s)'
  <2>1. /\ owner'[s] = owner[s] /\ uri'[s] = uri[s]
        /\ maps'.mint[s] = maps.mint[s] /\ maps'.mintUri[s] = maps.mintUri[s]
        /\ s \in maps'.burn <=> s \in maps.burn
    BY <1>1, <1>2, <1>6 DEF Maps, NftTypes
  <2>2. /\ s \in unseen' <=> s \in unseen
        /\ s \in staleOwner' <=> s \in staleOwner
        /\ s \in staleUri' <=> s \in staleUri
    BY <1>6 DEF ChainMint
  <2> QED
    BY <2>1, <2>2, <1>2, <1>4, OtherToken DEF NftInv, TokenInv
<1>7. CountInv' /\ ColInv' /\ PrepareInv'
  BY <1>2, <1>4, EventSide
<1> QED
  BY <1>3, <1>5, <1>6, <1>7 DEF NftInv, TokenInv

LEMMA TransferStep ==
  ASSUME NftInv, at = "events", NEW t \in Tokens, NEW o \in Owners, ChainTransfer(t, o),
         UNCHANGED <<vm, nameless, exists, height, at, prepared, blacklist, dbVars, before, evicted>>,
         maps' \in Maps,
         maps'.transfer = [maps.transfer EXCEPT ![t] = o],
         maps'.mint = maps.mint, maps'.mintUri = maps.mintUri, maps'.mut = maps.mut,
         maps'.burn = maps.burn, maps'.target = maps.target, maps'.created = maps.created,
         maps'.count = maps.count
  PROVE  NftInv'
<1>1. NftTypes /\ maps \in Maps
  BY DEF NftInv, NftTypes
<1>2. owner' = [owner EXCEPT ![t] = o] /\ uri' = uri /\ grown \subseteq grown'
  BY DEF ChainTransfer
<1>3. NftTypes'
  <2>1. owner' \in [Tokens -> AnyOwner]
    BY <1>1, <1>2 DEF NftTypes, AnyOwner
  <2> QED
    BY <2>1, <1>1, <1>2 DEF NftTypes, dbVars
<1>4. UNCHANGED <<vm, nameless, nft, exists, col>>
  BY DEF dbVars
<1>5. RowInv(t)' /\ MapsInv(t)'
  <2>1. maps'.transfer[t] = o
    BY <1>1 DEF Maps
  <2> QED
    BY <2>1, <1>1, <1>4, TransferredToken DEF NftInv, TokenInv
<1>6. ASSUME NEW s \in Tokens, s # t
      PROVE  RowInv(s)' /\ MapsInv(s)'
  <2>1. owner'[s] = owner[s] /\ maps'.transfer[s] = maps.transfer[s]
    BY <1>1, <1>2, <1>6 DEF Maps, NftTypes
  <2>2. /\ s \in unseen' <=> s \in unseen
        /\ s \in staleOwner' <=> s \in staleOwner
        /\ s \in staleUri' <=> s \in staleUri
    BY <1>6 DEF ChainTransfer
  <2> QED
    BY <2>1, <2>2, <1>2, <1>4, OtherToken DEF NftInv, TokenInv
<1>7. CountInv' /\ ColInv' /\ PrepareInv'
  BY <1>2, <1>4, EventSide
<1> QED
  BY <1>3, <1>5, <1>6, <1>7 DEF NftInv, TokenInv

LEMMA BurnStep ==
  ASSUME NftInv, at = "events", NEW t \in Tokens, ChainBurn(t),
         UNCHANGED <<vm, nameless, exists, height, at, prepared, blacklist, dbVars, before, evicted>>,
         maps' \in Maps,
         maps'.mint = [maps.mint EXCEPT ![t] = NoOne], maps'.mintUri = maps.mintUri,
         maps'.transfer = [maps.transfer EXCEPT ![t] = NoOne],
         maps'.mut = [maps.mut EXCEPT ![t] = NoUri], maps'.burn = maps.burn \union {t},
         maps'.target = maps.target, maps'.created = maps.created,
         maps'.count = maps.count \union {ColOf[t]}
  PROVE  NftInv'
<1>1. NftTypes /\ maps \in Maps
  BY DEF NftInv, NftTypes
<1>2. /\ owner' = [owner EXCEPT ![t] = NoOne] /\ uri' = [uri EXCEPT ![t] = noUriYet]
      /\ grown' = grown
  BY DEF ChainBurn
<1>3. NftTypes'
  <2>1. owner' \in [Tokens -> AnyOwner] /\ uri' \in [Tokens -> AnyUri]
    BY <1>1, <1>2, Constants DEF NftTypes, AnyUri
  <2> QED
    BY <2>1, <1>1 DEF NftTypes, dbVars
<1>4. UNCHANGED <<vm, nameless, nft, exists, col>>
  BY DEF dbVars
<1>5. RowInv(t)' /\ MapsInv(t)'
  <2>1. /\ maps'.mint[t] = NoOne /\ maps'.transfer[t] = NoOne /\ maps'.mut[t] = NoUri
        /\ t \in maps'.burn /\ ColOf[t] \in maps'.count
    BY <1>1 DEF Maps
  <2> QED
    BY <2>1, <1>1, <1>4, BurnedToken DEF NftInv, TokenInv
<1>6. ASSUME NEW s \in Tokens, s # t
      PROVE  RowInv(s)' /\ MapsInv(s)'
  <2>1. /\ owner'[s] = owner[s] /\ uri'[s] = uri[s]
        /\ maps'.mint[s] = maps.mint[s] /\ maps'.transfer[s] = maps.transfer[s]
        /\ maps'.mut[s] = maps.mut[s] /\ (s \in maps'.burn <=> s \in maps.burn)
    BY <1>1, <1>2, <1>6 DEF Maps, NftTypes
  <2>2. /\ s \in unseen' <=> s \in unseen
        /\ s \in staleOwner' <=> s \in staleOwner
        /\ s \in staleUri' <=> s \in staleUri
    BY <1>6 DEF ChainBurn
  <2> QED
    BY <2>1, <2>2, <1>2, <1>4, OtherToken DEF NftInv, TokenInv
<1>7. CountInv' /\ ColInv' /\ PrepareInv'
  BY <1>2, <1>4, EventSide
<1> QED
  BY <1>3, <1>5, <1>6, <1>7 DEF NftInv, TokenInv

LEMMA MutateStep ==
  ASSUME NftInv, at = "events", vm = "move", NEW t \in Tokens, NEW u \in Uris, owner[t] # NoOne,
         uri' = [uri EXCEPT ![t] = u], maps' = [maps EXCEPT !.mut[t] = u],
         staleUri' = staleUri \ {t}, UNCHANGED <<owner, unseen, staleOwner, grown>>,
         UNCHANGED <<vm, nameless, exists, height, at, prepared, blacklist, dbVars, before, evicted>>
  PROVE  NftInv'
<1>1. NftTypes /\ maps \in Maps
  BY DEF NftInv, NftTypes
<1>2. /\ maps' \in Maps
      /\ maps'.mut = [maps.mut EXCEPT ![t] = u]
      /\ maps'.mint = maps.mint /\ maps'.mintUri = maps.mintUri /\ maps'.transfer = maps.transfer
      /\ maps'.burn = maps.burn /\ maps'.target = maps.target /\ maps'.created = maps.created
      /\ maps'.count = maps.count
  <2>1. [maps.mut EXCEPT ![t] = u] \in [Tokens -> AnyUri]
    BY <1>1 DEF Maps, AnyUri
  <2>2. maps' = [maps EXCEPT !.mut = [maps.mut EXCEPT ![t] = u]]
    BY <1>1 DEF Maps
  <2> QED
    BY <2>1, <2>2, <1>1 DEF Maps
<1>3. NftTypes'
  <2>1. uri' \in [Tokens -> AnyUri]
    BY <1>1 DEF NftTypes, AnyUri
  <2> QED
    BY <2>1, <1>1, <1>2 DEF NftTypes, dbVars
<1>4. UNCHANGED <<vm, nameless, nft, exists, col>>
  BY DEF dbVars
<1>5. RowInv(t)' /\ MapsInv(t)'
  <2>1. maps'.mut[t] = u /\ uri'[t] = u /\ t \notin staleUri'
    BY <1>1, <1>2 DEF Maps, NftTypes
  <2> QED
    BY <2>1, <1>1, <1>2, <1>4, MutatedToken DEF NftInv, TokenInv
<1>6. ASSUME NEW s \in Tokens, s # t
      PROVE  RowInv(s)' /\ MapsInv(s)'
  <2>1. uri'[s] = uri[s] /\ maps'.mut[s] = maps.mut[s] /\ (s \in staleUri' <=> s \in staleUri)
    BY <1>1, <1>2, <1>6 DEF Maps, NftTypes
  <2> QED
    BY <2>1, <1>2, <1>4, OtherToken DEF NftInv, TokenInv
<1>7. CountInv' /\ ColInv' /\ PrepareInv'
  BY <1>2, <1>4, EventSide
<1> QED
  BY <1>3, <1>5, <1>6, <1>7 DEF NftInv, TokenInv
-----------------------------------------------------------------------------
(* The events of a contract, on evm and wasm.                              *)
LEMMA ContractEventKeeps ==
  ASSUME NftInv, NEW t \in Tokens, NEW to \in AnyOwner, NEW inTx \in BOOLEAN,
         EvmLog(t, to, inTx) \/ WasmEvent(t, to, inTx)
  PROVE  NftInv'
<1>1. /\ at = "events" /\ vm # "move"
      /\ UNCHANGED <<vm, nameless, exists, height, at, prepared, blacklist, dbVars, before, evicted>>
  BY DEF EvmLog, WasmEvent, Grows
<1>2. maps \in Maps
  BY DEF NftInv, NftTypes
<1>3. ASSUME to # NoOne, NEW u \in AnyUri, NEW cols \in SUBSET {ColOf[t]},
             vm # "wasm" => cols = {ColOf[t]}, ChainMint(t, to, u),
             maps' = WithTx(WithTarget(MintEvent(maps, t, to, u), cols), t, inTx)
      PROVE  NftInv'
  <2> DEFINE n == WithTarget(MintEvent(maps, t, to, u), cols)
  <2>1. to \in Owners
    BY <1>3 DEF AnyOwner
  <2>2. /\ n \in Maps
        /\ n.mint = [maps.mint EXCEPT ![t] = to] /\ n.mintUri = [maps.mintUri EXCEPT ![t] = u]
        /\ n.transfer = maps.transfer /\ n.mut = maps.mut
        /\ n.burn = maps.burn \ {t} /\ n.target = maps.target \union cols
        /\ n.created = maps.created /\ n.count = maps.count \union {ColOf[t]}
    BY <2>1, <1>2, MintMaps
  <2>3. maps' = WithTx(n, t, inTx)
    BY <1>3
  <2> HIDE DEF n
  <2>4. /\ maps' \in Maps
        /\ maps'.mint = n.mint /\ maps'.mintUri = n.mintUri /\ maps'.transfer = n.transfer
        /\ maps'.mut = n.mut /\ maps'.burn = n.burn /\ maps'.target = n.target
        /\ maps'.created = n.created /\ maps'.count = n.count
    BY <2>2, <2>3, WithTxMaps
  <2> QED
    BY <2>1, <2>2, <2>4, <1>1, <1>3, MintStep
<1>4. ASSUME to # NoOne, ChainTransfer(t, to), maps' = WithTx(TransferEvent(maps, t, to), t, inTx)
      PROVE  NftInv'
  <2> DEFINE n == TransferEvent(maps, t, to)
  <2>1. to \in Owners
    BY <1>4 DEF AnyOwner
  <2>2. /\ n \in Maps
        /\ n.transfer = [maps.transfer EXCEPT ![t] = to]
        /\ n.mint = maps.mint /\ n.mintUri = maps.mintUri /\ n.mut = maps.mut /\ n.burn = maps.burn
        /\ n.target = maps.target /\ n.created = maps.created /\ n.count = maps.count
    BY <2>1, <1>2, TransferMaps
  <2>3. maps' = WithTx(n, t, inTx)
    BY <1>4
  <2> HIDE DEF n
  <2>4. /\ maps' \in Maps
        /\ maps'.mint = n.mint /\ maps'.mintUri = n.mintUri /\ maps'.transfer = n.transfer
        /\ maps'.mut = n.mut /\ maps'.burn = n.burn /\ maps'.target = n.target
        /\ maps'.created = n.created /\ maps'.count = n.count
    BY <2>2, <2>3, WithTxMaps
  <2> QED
    BY <2>1, <2>2, <2>4, <1>1, <1>4, TransferStep
<1>5. ASSUME ChainBurn(t), maps' = WithTx(BurnEvent(maps, t), t, inTx)
      PROVE  NftInv'
  <2> DEFINE n == BurnEvent(maps, t)
  <2>2. /\ n \in Maps
        /\ n.mint = [maps.mint EXCEPT ![t] = NoOne] /\ n.mintUri = maps.mintUri
        /\ n.transfer = [maps.transfer EXCEPT ![t] = NoOne] /\ n.mut = [maps.mut EXCEPT ![t] = NoUri]
        /\ n.burn = maps.burn \union {t} /\ n.target = maps.target
        /\ n.created = maps.created /\ n.count = maps.count \union {ColOf[t]}
    BY <1>2, BurnMaps
  <2>3. maps' = WithTx(n, t, inTx)
    BY <1>5
  <2> HIDE DEF n
  <2>4. /\ maps' \in Maps
        /\ maps'.mint = n.mint /\ maps'.mintUri = n.mintUri /\ maps'.transfer = n.transfer
        /\ maps'.mut = n.mut /\ maps'.burn = n.burn /\ maps'.target = n.target
        /\ maps'.created = n.created /\ maps'.count = n.count
    BY <2>2, <2>3, WithTxMaps
  <2> QED
    BY <2>2, <2>4, <1>1, <1>5, BurnStep
<1>6. CASE EvmLog(t, to, inTx)
  <2>1. vm # "wasm" /\ {ColOf[t]} \in SUBSET {ColOf[t]}
    BY <1>6 DEF EvmLog, Grows
  <2>2. ASSUME to # NoOne, NEW u \in AnyUri, ChainMint(t, to, u),
               maps' = WithTx(WithTarget(MintEvent(maps, t, to, u), {ColOf[t]}), t, inTx)
        PROVE  NftInv'
    BY <2>1, <2>2, <1>3
  <2> QED
    BY <2>2, <1>4, <1>5, <1>6 DEF EvmLog
<1>7. CASE WasmEvent(t, to, inTx)
  <2>1. vm = "wasm"
    BY <1>7 DEF WasmEvent, Grows
  <2>2. ASSUME to # NoOne, NEW u \in AnyUri, NEW cols \in SUBSET {ColOf[t]}, ChainMint(t, to, u),
               maps' = WithTx(WithTarget(MintEvent(maps, t, to, u), cols), t, inTx)
        PROVE  NftInv'
    BY <2>1, <2>2, <1>3
  <2> QED
    BY <2>2, <1>4, <1>5, <1>7 DEF WasmEvent
<1> QED
  BY <1>6, <1>7

LEMMA MoveEventKeeps ==
  ASSUME NftInv, NEW t \in Tokens, NEW to \in AnyOwner, MoveEvent(t, to)
  PROVE  NftInv'
<1>1. /\ at = "events" /\ vm = "move"
      /\ UNCHANGED <<vm, nameless, exists, height, at, prepared, blacklist, dbVars, before, evicted>>
  BY DEF MoveEvent, Grows
<1>2. maps \in Maps
  BY DEF NftInv, NftTypes
<1>3. ASSUME to = CreatorOf[ColOf[t]], NEW u \in Uris, ChainMint(t, to, u),
             maps' = WithTarget(MintEvent(maps, t, to, u), {ColOf[t]})
      PROVE  NftInv'
  <2> DEFINE n == WithTarget(MintEvent(maps, t, to, u), {ColOf[t]})
  <2>1. to \in Owners /\ u \in AnyUri /\ {ColOf[t]} \in SUBSET {ColOf[t]}
    BY <1>3, Constants DEF AnyUri
  <2>2. /\ n \in Maps
        /\ n.mint = [maps.mint EXCEPT ![t] = to] /\ n.mintUri = [maps.mintUri EXCEPT ![t] = u]
        /\ n.transfer = maps.transfer /\ n.mut = maps.mut
        /\ n.burn = maps.burn \ {t} /\ n.target = maps.target \union {ColOf[t]}
        /\ n.created = maps.created /\ n.count = maps.count \union {ColOf[t]}
    BY <2>1, <1>2, MintMaps
  <2>3. maps' = n
    BY <1>3
  <2> HIDE DEF n
  <2> QED
    BY <2>1, <2>2, <2>3, <1>1, <1>3, MintStep
<1>4. ASSUME to # NoOne, ChainTransfer(t, to), maps' = TransferEvent(maps, t, to)
      PROVE  NftInv'
  <2> DEFINE n == TransferEvent(maps, t, to)
  <2>1. to \in Owners
    BY <1>4 DEF AnyOwner
  <2>2. /\ n \in Maps
        /\ n.transfer = [maps.transfer EXCEPT ![t] = to]
        /\ n.mint = maps.mint /\ n.mintUri = maps.mintUri /\ n.mut = maps.mut /\ n.burn = maps.burn
        /\ n.target = maps.target /\ n.created = maps.created /\ n.count = maps.count
    BY <2>1, <1>2, TransferMaps
  <2>3. maps' = n
    BY <1>4
  <2> HIDE DEF n
  <2> QED
    BY <2>1, <2>2, <2>3, <1>1, <1>4, TransferStep
<1>5. ASSUME ChainBurn(t), maps' = BurnEvent(maps, t)
      PROVE  NftInv'
  <2> DEFINE n == BurnEvent(maps, t)
  <2>2. /\ n \in Maps
        /\ n.mint = [maps.mint EXCEPT ![t] = NoOne] /\ n.mintUri = maps.mintUri
        /\ n.transfer = [maps.transfer EXCEPT ![t] = NoOne] /\ n.mut = [maps.mut EXCEPT ![t] = NoUri]
        /\ n.burn = maps.burn \union {t} /\ n.target = maps.target
        /\ n.created = maps.created /\ n.count = maps.count \union {ColOf[t]}
    BY <1>2, BurnMaps
  <2>3. maps' = n
    BY <1>5
  <2> HIDE DEF n
  <2> QED
    BY <2>2, <2>3, <1>1, <1>5, BurnStep
<1>6. ASSUME to = owner[t], to # NoOne, NEW u \in Uris, uri' = [uri EXCEPT ![t] = u],
             maps' = [maps EXCEPT !.mut[t] = u], staleUri' = staleUri \ {t},
             UNCHANGED <<owner, unseen, staleOwner, grown>>
      PROVE  NftInv'
  BY <1>1, <1>6, MutateStep
<1> QED
  BY <1>3, <1>4, <1>5, <1>6 DEF MoveEvent

(* A collection that is created has no tokens yet.                         *)
LEMMA CreateCollectionKeeps ==
  ASSUME NftInv, NEW c \in Collections, CreateCollection(c)
  PROVE  NftInv'
<1>1. NftTypes /\ maps \in Maps
  BY DEF NftInv, NftTypes
<1>2. /\ at = "events" /\ c \notin exists /\ exists' = exists \union {c}
      /\ UNCHANGED <<vm, nameless, owner, uri, height, at, prepared, blacklist, nft, col, firstSeen,
                     before, evicted, unseen, staleOwner, staleUri, grown>>
  BY DEF CreateCollection, dbVars, history
<1>3. PICK cols \in SUBSET {c} :
        maps' = WithTarget([maps EXCEPT !.created = @ \union {c}, !.seen = @ \union {c}], cols)
  BY DEF CreateCollection
<1>4. /\ maps' \in Maps
      /\ maps'.mint = maps.mint /\ maps'.mintUri = maps.mintUri /\ maps'.transfer = maps.transfer
      /\ maps'.mut = maps.mut /\ maps'.burn = maps.burn
      /\ maps'.target = maps.target \union cols
      /\ maps'.created = maps.created \union {c} /\ maps'.count = maps.count
  <2>1. /\ maps.target \union cols \in SUBSET Collections
        /\ maps.created \union {c} \in SUBSET Collections
        /\ maps.seen \union {c} \in SUBSET Collections
    BY <1>1 DEF Maps
  <2>2. maps' = [maps EXCEPT !.created = maps.created \union {c}, !.seen = maps.seen \union {c},
                             !.target = maps.target \union cols]
    BY <1>1, <1>3 DEF WithTarget, Maps
  <2> QED
    BY <2>1, <2>2, <1>1 DEF Maps
<1>5. NftTypes'
  BY <1>1, <1>2, <1>4 DEF NftTypes
<1>6. ASSUME NEW t \in Tokens
      PROVE  RowInv(t)' /\ MapsInv(t)'
  <2>1. RowInv(t) /\ MapsInv(t)
    BY DEF NftInv, TokenInv
  <2>2. ColOf[t] \in maps'.created =>
          ColOf[t] \in maps.created \/ (nft[t] = NoRow /\ owner[t] = NoOne)
    BY <2>1, <1>2, <1>4 DEF MapsInv
  <2> QED
    BY <2>1, <2>2, <1>2, <1>4, OtherToken
<1>7. CountInv' /\ PrepareInv'
  BY <1>2 DEF NftInv, CountInv, PrepareInv, rowsIn
<1>8. ColInv'
  BY <1>2, <1>4 DEF NftInv, ColInv
<1> QED
  BY <1>5, <1>6, <1>7, <1>8 DEF NftInv, TokenInv

(* A step that leaves the chain, the tables and all but the pairs of the   *)
(* maps alone.                                                             *)
LEMMA ChainSame ==
  ASSUME NftInv,
         UNCHANGED <<vm, nameless, owner, uri, exists, nft, col, before, unseen, staleOwner,
                     staleUri, grown>>,
         maps'.mint = maps.mint, maps'.mintUri = maps.mintUri, maps'.transfer = maps.transfer,
         maps'.mut = maps.mut, maps'.burn = maps.burn, maps'.target = maps.target,
         maps'.created = maps.created, maps'.count = maps.count
  PROVE  TokenInv' /\ CountInv' /\ ColInv'
<1>1. ASSUME NEW t \in Tokens
      PROVE  RowInv(t)' /\ MapsInv(t)'
  BY OtherToken DEF NftInv, TokenInv
<1>2. CountInv' /\ ColInv'
  BY DEF NftInv, CountInv, ColInv, rowsIn
<1> QED
  BY <1>1, <1>2 DEF TokenInv

LEMMA RecvPacketKeeps ==
  ASSUME NftInv, NEW c \in Collections, RecvPacket(c)
  PROVE  NftInv'
<1>1. NftTypes /\ maps \in Maps
  BY DEF NftInv, NftTypes
<1>2. /\ maps' \in Maps
      /\ maps'.mint = maps.mint /\ maps'.mintUri = maps.mintUri /\ maps'.transfer = maps.transfer
      /\ maps'.mut = maps.mut /\ maps'.burn = maps.burn /\ maps'.target = maps.target
      /\ maps'.created = maps.created /\ maps'.count = maps.count
  BY <1>1 DEF RecvPacket, Maps, ColNames
<1>3. NftTypes'
  BY <1>1, <1>2 DEF NftTypes, RecvPacket, dbVars
<1>4. TokenInv' /\ CountInv' /\ ColInv'
  BY <1>2, ChainSame DEF RecvPacket, dbVars, history
<1>5. PrepareInv'
  BY DEF NftInv, PrepareInv, RecvPacket
<1> QED
  BY <1>3, <1>4, <1>5 DEF NftInv

LEMMA EndBlockKeeps ==
  ASSUME NftInv, EndBlock
  PROVE  NftInv'
<1>1. NftTypes'
  BY DEF NftInv, NftTypes, EndBlock, dbVars
<1>2. TokenInv' /\ CountInv' /\ ColInv'
  BY ChainSame DEF EndBlock, dbVars, history
<1>3. PrepareInv'
  BY DEF NftInv, PrepareInv, EndBlock
<1> QED
  BY <1>1, <1>2, <1>3 DEF NftInv

(* The blacklist holds only collections whose name query fails, so that    *)
(* those that are not asked for would have failed.                         *)
LEMMA PrepareKeeps ==
  ASSUME NftInv, PrepareEvm \/ PrepareWasm \/ PrepareMove
  PROVE  NftInv'
<1>1. NftTypes /\ maps \in Maps
  BY DEF NftInv, NftTypes
<1>2. UNCHANGED <<vm, nameless, owner, uri, exists, height, maps, dbVars, history>> /\ at' = "collect"
  BY DEF PrepareEvm, PrepareWasm, PrepareMove
<1>3. Named \in SUBSET Collections /\ Named = maps.target \ nameless
  BY <1>1 DEF Named, Maps, NftInv, PrepareInv
<1>4. /\ prepared' \in [cols : SUBSET Collections, uri : [Tokens -> AnyUri]]
      /\ blacklist' \subseteq nameless
      /\ vm = "evm" => prepared'.cols = maps.target \ nameless
      /\ vm = "wasm" => prepared'.cols = {}
      /\ vm = "evm" => \A c \in maps.target \intersect nameless : c \in blacklist'
      /\ \A t \in Tokens :
           maps.mint[t] # NoOne /\ (vm = "move" \/ (vm = "evm" /\ ColOf[t] \notin nameless))
             => prepared'.uri[t] = uri[t]
  <2>1. uri \in [Tokens -> AnyUri] /\ blacklist \subseteq nameless
    BY <1>1 DEF NftTypes, NftInv, PrepareInv
  <2>2. CASE PrepareEvm
    <3> DEFINE us == [t \in Tokens |-> IF t \in minted /\ ColOf[t] \notin blacklist
                                       THEN uri[t] ELSE NoUri]
    <3>1. us \in [Tokens -> AnyUri]
      BY <2>1 DEF AnyUri
    <3>2. \A t \in Tokens : maps.mint[t] # NoOne /\ ColOf[t] \notin nameless => us[t] = uri[t]
      BY <2>1 DEF minted
    <3>3. prepared' = [cols |-> Named, uri |-> us] /\ vm = "evm"
          /\ blacklist' = blacklist \union (maps.target \intersect nameless)
      BY <2>2 DEF PrepareEvm
    <3> HIDE DEF us
    <3> QED
      BY <3>1, <3>2, <3>3, <2>1, <1>3
  <2>3. CASE PrepareWasm
    <3>1. prepared' = notPrepared /\ notPrepared.cols = {} /\ vm = "wasm" /\ blacklist' = blacklist
      BY <2>3 DEF PrepareWasm, notPrepared
    <3> QED
      BY <3>1, <2>1, NotPreparedType
  <2>4. CASE PrepareMove
    <3> DEFINE us == [t \in Tokens |-> IF t \in minted THEN uri[t] ELSE NoUri]
    <3>1. us \in [Tokens -> AnyUri]
      BY <2>1 DEF AnyUri
    <3>2. \A t \in Tokens : maps.mint[t] # NoOne => us[t] = uri[t]
      BY DEF minted
    <3>3. prepared' = [cols |-> {}, uri |-> us] /\ vm = "move" /\ blacklist' = blacklist
      BY <2>4 DEF PrepareMove
    <3> HIDE DEF us
    <3> QED
      BY <3>1, <3>2, <3>3, <2>1
  <2> QED
    BY <2>2, <2>3, <2>4
<1>5. NftTypes'
  BY <1>1, <1>2, <1>4 DEF NftTypes, dbVars
<1>6. TokenInv' /\ CountInv' /\ ColInv'
  BY <1>2, ChainSame DEF dbVars, history
<1>7. PrepareInv'
  BY <1>2, <1>4 DEF PrepareInv
<1> QED
  BY <1>5, <1>6, <1>7 DEF NftInv

LEMMA RestartKeeps ==
  ASSUME NftInv, Restart
  PROVE  NftInv'
<1>1. NftTypes'
  BY NotPreparedType DEF NftInv, NftTypes, Restart, dbVars
<1>2. TokenInv' /\ CountInv' /\ ColInv'
  BY ChainSame DEF Restart, dbVars, history
<1>3. PrepareInv'
  BY DEF NftInv, PrepareInv, Restart
<1> QED
  BY <1>1, <1>2, <1>3 DEF NftInv

LEMMA EvictBlacklistKeeps ==
  ASSUME NftInv, NEW c \in Collections, EvictBlacklist(c)
  PROVE  NftInv'
<1>1. NftTypes'
  BY DEF NftInv, NftTypes, EvictBlacklist, dbVars
<1>2. TokenInv' /\ CountInv' /\ ColInv'
  BY ChainSame DEF EvictBlacklist, dbVars
<1>3. PrepareInv'
  BY DEF NftInv, PrepareInv, EvictBlacklist
<1> QED
  BY <1>1, <1>2, <1>3 DEF NftInv
-----------------------------------------------------------------------------
LEMMA CreationType ==
  ASSUME NftTypes, NEW c \in Collections
  PROVE  creation(c) \in Nat
  BY DEF NftTypes, creation

LEMMA NewCol ==
  ASSUME NEW h \in Nat
  PROVE  /\ [NoCol EXCEPT !.height = h] \in ColRows
         /\ h # 0 => [NoCol EXCEPT !.height = h] # NoCol
         /\ NoCol \in ColRows /\ ~NoCol.origin
  BY DEF NoCol, ColRows

(* What the transaction makes of the row of a collection: its count, and   *)
(* the name of its origin, which is never taken back.                      *)
LEMMA CollectedCol ==
  ASSUME NftTypes, NEW cols \in [Collections -> ColRows], NEW rows, NEW c \in Collections
  PROVE  LET z == Paired(NftCounts(cols, rows))[c]
         IN  /\ z \in ColRows
             /\ z = NoCol <=> cols[c] = NoCol
             /\ z.origin = (cols[c].origin \/ (NameOf[c] \in maps.pairs /\ cols[c] # NoCol))
             /\ z.count = IF c \in maps.count /\ cols[c] # NoCol /\ rowsIn(rows, c) # {}
                          THEN Cardinality(rowsIn(rows, c)) ELSE cols[c].count
<1> DEFINE n == Cardinality(rowsIn(rows, c))
           y == NftCounts(cols, rows)[c]
           z == Paired(NftCounts(cols, rows))[c]
<1>1. n \in Nat /\ (n = 0 <=> rowsIn(rows, c) = {})
  <2>1. IsFiniteSet(rowsIn(rows, c))
    BY NftAssumption, FS_Subset DEF rowsIn
  <2> QED
    BY <2>1, FS_CardinalityType, FS_EmptySet
<1>2. y = IF c \in maps.count /\ cols[c] # NoCol /\ rowsIn(rows, c) # {}
          THEN [cols[c] EXCEPT !.count = n] ELSE cols[c]
  BY DEF NftCounts
<1>3. z = IF NameOf[c] \in maps.pairs /\ y # NoCol THEN [y EXCEPT !.origin = TRUE] ELSE y
  BY DEF Paired
<1> HIDE DEF n, y, z
<1>4. /\ y \in ColRows
      /\ y = NoCol <=> cols[c] = NoCol
      /\ y.origin = cols[c].origin
      /\ y.count = IF c \in maps.count /\ cols[c] # NoCol /\ rowsIn(rows, c) # {}
                   THEN n ELSE cols[c].count
  <2>1. cols[c] \in ColRows
    OBVIOUS
  <2>2. CASE c \in maps.count /\ cols[c] # NoCol /\ rowsIn(rows, c) # {}
    <3>1. y = [cols[c] EXCEPT !.count = n]
      BY <2>2, <1>2
    <3>2. y.count = n /\ y.origin = cols[c].origin /\ y \in ColRows
      BY <3>1, <2>1, <1>1 DEF ColRows
    <3>3. y # NoCol
      BY <3>2, <2>2, <1>1 DEF NoCol
    <3> QED
      BY <3>2, <3>3, <2>2
  <2>3. CASE ~(c \in maps.count /\ cols[c] # NoCol /\ rowsIn(rows, c) # {})
    <3>1. y = cols[c]
      BY <2>3, <1>2
    <3> QED
      BY <3>1, <2>1, <2>3
  <2> QED
    BY <2>2, <2>3
<1>5. CASE NameOf[c] \in maps.pairs /\ y # NoCol
  <2>1. z = [y EXCEPT !.origin = TRUE]
    BY <1>3, <1>5
  <2>2. z \in ColRows /\ z.origin = TRUE /\ z.count = y.count
    BY <2>1, <1>4 DEF ColRows
  <2>3. z # NoCol
    BY <2>2, NewCol DEF NoCol
  <2> QED
    BY <2>2, <2>3, <1>4, <1>5 DEF n, z
<1>6. CASE ~(NameOf[c] \in maps.pairs /\ y # NoCol)
  <2>1. z = y
    BY <1>3, <1>6
  <2>2. cols[c].origin \in BOOLEAN
    BY DEF ColRows
  <2> QED
    BY <2>1, <2>2, <1>4, <1>6 DEF n, z
<1> QED
  BY <1>5, <1>6

(* The transaction of a block, on any virtual machine: it writes the rows  *)
(* foreseen, keeps the collections that are there and inserts only ones    *)
(* with a mint, or created in the block.                                   *)
LEMMA CollectStep ==
  ASSUME NftInv, NEW cols \in [Collections -> ColRows], NEW rows, Collect(cols, rows),
         rows = [t \in Tokens |-> WillBe(t)],
         \A c \in Collections : col[c] # NoCol => cols[c] = col[c],
         \A c \in Collections : cols[c] # col[c] => c \in maps.count \union maps.created,
         vm = "move" => \A c \in maps.created : cols[c] # NoCol
  PROVE  NftInv'
<1>1. NftTypes /\ maps \in Maps
  BY DEF NftInv, NftTypes
<1>2. /\ nft' = rows /\ col' = Paired(NftCounts(cols, rows))
      /\ firstSeen' = [c \in Collections |-> creation(c)] /\ grown' = grown \ maps.count
      /\ height' = height + 1 /\ at' = "events" /\ maps' = noMaps /\ prepared' = notPrepared
      /\ UNCHANGED <<vm, nameless, owner, uri, exists, blacklist, before, unseen, staleOwner, staleUri>>
  BY DEF Collect
<1>3. \A c \in Collections :
        /\ col'[c] \in ColRows
        /\ col'[c] = NoCol <=> cols[c] = NoCol
        /\ col'[c].count = IF c \in maps.count /\ cols[c] # NoCol /\ rowsIn(rows, c) # {}
                           THEN Cardinality(rowsIn(rows, c)) ELSE cols[c].count
  BY <1>1, <1>2, CollectedCol
<1>4. \A t \in Tokens : nft'[t] = WillBe(t) /\ WillBe(t) \in NftRows
  BY <1>1, <1>2, TokenTypes
<1>5. NftTypes'
  <2>1. nft' \in [Tokens -> NftRows]
    BY <1>2, <1>4
  <2>2. col' \in [Collections -> ColRows]
    <3>1. col' = [c \in Collections |-> col'[c]]
      BY <1>2 DEF Paired
    <3> QED
      BY <3>1, <1>3
  <2>3. firstSeen' \in [Collections -> Nat]
    BY <1>1, <1>2, CreationType
  <2>4. height' \in Nat \ {0}
    BY <1>1, <1>2 DEF NftTypes
  <2> QED
    BY <2>1, <2>2, <2>3, <2>4, <1>1, <1>2, NoMapsType, NotPreparedType DEF NftTypes
<1>6. ASSUME NEW t \in Tokens
      PROVE  RowInv(t)' /\ MapsInv(t)'
  <2>1. /\ maps'.mint[t] = NoOne /\ maps'.transfer[t] = NoOne /\ maps'.mut[t] = NoUri
        /\ t \notin maps'.burn /\ ColOf[t] \notin maps'.created
    BY <1>2 DEF noMaps
  <2>2. Inserted(t)' = nft'[t]
    BY <2>1 DEF Inserted
  <2>3. WillBe(t)' = nft'[t]
    BY <2>1, <2>2, <1>4, RowIsNoRow, ZenonT(40) DEF WillBe
  <2>4. WillBe(t)' = WillBe(t)
    BY <2>3, <1>4
  <2>5. RowInv(t) /\ MapsInv(t)
    BY DEF NftInv, TokenInv
  <2>6. RowInv(t)'
    BY <2>4, <2>5, <1>2 DEF RowInv
  <2>7. nft'[t] # NoRow => owner[t] # NoOne
    BY <2>5, <1>4 DEF RowInv
  <2>8. MapsInv(t)'
    BY <2>1, <2>3, <2>5, <2>7, <1>2 DEF MapsInv
  <2> QED
    BY <2>6, <2>8
<1>7. CountInv'
  <2>1. ASSUME NEW c \in Collections, col'[c] # NoCol, c \notin grown',
               rowsIn(rows, c) # {}, c \notin maps.count
        PROVE  col'[c].count = Cardinality(rowsIn(rows, c))
    <3>1. c \notin grown /\ cols[c] # NoCol /\ col'[c].count = cols[c].count
      BY <2>1, <1>2, <1>3
    <3>2. ASSUME NEW t \in Tokens, ColOf[t] = c
          PROVE  rows[t] # NoRow <=> nft[t] # NoRow
      BY <2>1, <3>1, <3>2 DEF NftInv, TokenInv, MapsInv
    <3>3. rowsIn(rows, c) = rowsIn(nft, c)
      BY <3>2 DEF rowsIn
    <3>4. c \notin maps.created
      <4>1. PICK t \in Tokens : ColOf[t] = c /\ nft[t] # NoRow
        BY <2>1, <3>3 DEF rowsIn
      <4> QED
        BY <4>1 DEF NftInv, TokenInv, MapsInv
    <3>5. cols[c] = col[c]
      BY <2>1, <3>4
    <3> QED
      BY <2>1, <3>1, <3>3, <3>5 DEF NftInv, CountInv
  <2>2. ASSUME NEW c \in Collections, col'[c] # NoCol, rowsIn(rows, c) # {}, c \in maps.count
        PROVE  col'[c].count = Cardinality(rowsIn(rows, c))
    BY <2>2, <1>3
  <2>3. \A c \in Collections : rowsIn(nft, c)' = rowsIn(rows, c)
    BY <1>2 DEF rowsIn
  <2> QED
    BY <2>1, <2>2, <2>3 DEF CountInv
<1>8. ColInv'
  <2>1. maps'.target = {} /\ maps.created \in SUBSET Collections
    BY <1>1, <1>2 DEF noMaps, Maps
  <2>2. ASSUME vm = "move", NEW c \in exists, c \notin before
        PROVE  col'[c] # NoCol
    <3>1. c \in maps.created \/ col[c] # NoCol
      BY <2>2 DEF NftInv, ColInv
    <3>2. c \in Collections
      BY <2>2, <1>1 DEF NftTypes
    <3> QED
      BY <3>1, <3>2, <2>2, <1>3
  <2> QED
    BY <2>1, <2>2, <1>2 DEF ColInv
<1>9. PrepareInv'
  BY <1>2 DEF NftInv, PrepareInv
<1> QED
  BY <1>5, <1>6, <1>7, <1>8, <1>9 DEF NftInv, TokenInv
-----------------------------------------------------------------------------
(* The rows that each submodule writes are the ones foreseen.              *)
LEMMA CollectEvmKeeps ==
  ASSUME NftInv, CollectEvm
  PROVE  NftInv'
<1>1. NftTypes /\ vm = "evm" /\ at = "collect" /\ Collect(EvmCols, EvmRows)
  BY DEF NftInv, CollectEvm
<1>2. prepared.cols = maps.target \ nameless
  BY <1>1 DEF NftInv, PrepareInv
<1>3. ASSUME NEW t \in Tokens
      PROVE  EvmRows[t] = WillBe(t)
  <2> DEFINE row == IF t \in minted /\ ColOf[t] \in prepared.cols /\ nft[t] = NoRow
                    THEN [owner |-> maps.mint[t], uri |-> prepared.uri[t]] ELSE nft[t]
  <2>1. EvmRows[t] = IF t \in maps.burn THEN NoRow
                     ELSE IF t \in transferred THEN [row EXCEPT !.owner = maps.transfer[t]] ELSE row
    BY DEF EvmRows
  <2>2. row = Inserted(t)
    <3>1. t \in minted <=> maps.mint[t] # NoOne
      BY DEF minted
    <3>2. maps.mint[t] # NoOne => (ColOf[t] \in prepared.cols <=> ColOf[t] \notin nameless)
      BY <1>1, <1>2 DEF NftInv, TokenInv, MapsInv
    <3>3. maps.mint[t] # NoOne /\ ColOf[t] \notin nameless => prepared.uri[t] = uri[t]
      BY <1>1 DEF NftInv, PrepareInv
    <3> QED
      BY <3>1, <3>2, <3>3, <1>1 DEF Inserted
  <2>3. Inserted(t) \in NftRows /\ (t \in transferred <=> maps.transfer[t] # NoOne)
    BY <1>1, TokenTypes DEF transferred
  <2> HIDE DEF row
  <2>4. [row EXCEPT !.owner = maps.transfer[t]] = [owner |-> maps.transfer[t], uri |-> row.uri]
    BY <2>2, <2>3 DEF NftRows
  <2>5. row = [owner |-> row.owner, uri |-> row.uri]
    BY <2>2, <2>3, RowIsNoRow
  <2> QED
    BY <2>1, <2>2, <2>3, <2>4, <2>5, <1>1 DEF WillBe
<1>4. EvmRows = [t \in Tokens |-> WillBe(t)]
  BY <1>3 DEF EvmRows
<1>5. \A c \in Collections :
        /\ EvmCols[c] \in ColRows
        /\ col[c] # NoCol => EvmCols[c] = col[c]
        /\ EvmCols[c] # col[c] => c \in mintedCols
  BY <1>1, NewCol, CreationType DEF EvmCols, NftTypes
<1>6. mintedCols \subseteq maps.count
  BY DEF mintedCols, minted, NftInv, TokenInv, MapsInv
<1>7. EvmCols \in [Collections -> ColRows]
  BY <1>5 DEF EvmCols
<1> QED
  BY <1>1, <1>4, <1>5, <1>6, <1>7, CollectStep

LEMMA CollectWasmKeeps ==
  ASSUME NftInv, CollectWasm
  PROVE  NftInv'
<1>1. NftTypes /\ vm = "wasm" /\ at = "collect" /\ Collect(WasmCols, WasmRows)
  BY DEF NftInv, CollectWasm
<1>2. ASSUME NEW t \in Tokens
      PROVE  WasmRows[t] = WillBe(t)
  <2> DEFINE row == IF t \in minted /\ nft[t] = NoRow
                    THEN [owner |-> maps.mint[t], uri |-> maps.mintUri[t]] ELSE nft[t]
  <2>1. WasmRows[t] = IF t \in maps.burn THEN NoRow
                      ELSE IF t \in transferred THEN [row EXCEPT !.owner = maps.transfer[t]] ELSE row
    BY DEF WasmRows
  <2>2. row = Inserted(t)
    BY <1>1 DEF Inserted, minted
  <2>3. Inserted(t) \in NftRows /\ (t \in transferred <=> maps.transfer[t] # NoOne)
    BY <1>1, TokenTypes DEF transferred
  <2> HIDE DEF row
  <2>4. [row EXCEPT !.owner = maps.transfer[t]] = [owner |-> maps.transfer[t], uri |-> row.uri]
    BY <2>2, <2>3 DEF NftRows
  <2>5. row = [owner |-> row.owner, uri |-> row.uri]
    BY <2>2, <2>3, RowIsNoRow
  <2> QED
    BY <2>1, <2>2, <2>3, <2>4, <2>5, <1>1 DEF WillBe
<1>3. WasmRows = [t \in Tokens |-> WillBe(t)]
  BY <1>2 DEF WasmRows
<1>4. prepared.cols = {}
  BY <1>1 DEF NftInv, PrepareInv
<1>5. \A c \in Collections :
        /\ WasmCols[c] \in ColRows
        /\ col[c] # NoCol => WasmCols[c] = col[c]
        /\ WasmCols[c] # col[c] => c \in prepared.cols
  BY <1>1, NewCol DEF WasmCols, NftTypes
<1>6. WasmCols \in [Collections -> ColRows]
  BY <1>5 DEF WasmCols
<1> QED
  BY <1>1, <1>3, <1>4, <1>5, <1>6, CollectStep

LEMMA CollectMoveKeeps ==
  ASSUME NftInv, CollectMove
  PROVE  NftInv'
<1>1. NftTypes /\ vm = "move" /\ at = "collect" /\ Collect(MoveCols, MoveRows)
  BY DEF NftInv, CollectMove
<1>2. ASSUME NEW t \in Tokens
      PROVE  MoveRows[t] = WillBe(t)
  <2> DEFINE row   == IF t \in minted /\ nft[t] = NoRow
                      THEN [owner |-> CreatorOf[ColOf[t]], uri |-> prepared.uri[t]] ELSE nft[t]
             moved == IF t \in transferred THEN [row EXCEPT !.owner = maps.transfer[t]] ELSE row
  <2>1. MoveRows[t] = IF row = NoRow \/ t \in maps.burn THEN NoRow
                      ELSE IF maps.mut[t] # NoUri THEN [moved EXCEPT !.uri = maps.mut[t]] ELSE moved
    BY DEF MoveRows
  <2>2. row = Inserted(t)
    <3>1. t \in minted <=> maps.mint[t] # NoOne
      BY DEF minted
    <3>2. maps.mint[t] # NoOne => maps.mint[t] = CreatorOf[ColOf[t]] /\ prepared.uri[t] = uri[t]
      BY <1>1 DEF NftInv, TokenInv, MapsInv, PrepareInv
    <3> QED
      BY <3>1, <3>2, <1>1 DEF Inserted
  <2>3. Inserted(t) \in NftRows /\ (t \in transferred <=> maps.transfer[t] # NoOne)
    BY <1>1, TokenTypes DEF transferred
  <2>4. maps.transfer[t] \in AnyOwner
    BY <1>1, TokenTypes
  <2> HIDE DEF row
  <2>5. row \in NftRows /\ row = [owner |-> row.owner, uri |-> row.uri]
    BY <2>2, <2>3, RowIsNoRow
  <2>6. moved = [owner |-> IF maps.transfer[t] # NoOne THEN maps.transfer[t] ELSE row.owner,
                 uri |-> row.uri]
    BY <2>3, <2>5 DEF NftRows
  <2> HIDE DEF moved
  <2>7. [moved EXCEPT !.uri = maps.mut[t]] =
          [owner |-> IF maps.transfer[t] # NoOne THEN maps.transfer[t] ELSE row.owner,
           uri |-> maps.mut[t]]
    BY <2>6
  <2> QED
    BY <2>1, <2>2, <2>6, <2>7, <1>1 DEF WillBe
<1>3. MoveRows = [t \in Tokens |-> WillBe(t)]
  BY <1>2 DEF MoveRows
<1>4. \A c \in Collections :
        /\ MoveCols[c] \in ColRows
        /\ col[c] # NoCol => MoveCols[c] = col[c]
        /\ MoveCols[c] # col[c] => c \in maps.created
        /\ c \in maps.created => MoveCols[c] # NoCol
  BY <1>1, NewCol DEF MoveCols, NftTypes
<1>5. MoveCols \in [Collections -> ColRows] /\ maps.created \in SUBSET Collections
  BY <1>1, <1>4 DEF MoveCols, NftTypes, Maps
<1> QED
  BY <1>1, <1>3, <1>4, <1>5, CollectStep
-----------------------------------------------------------------------------
LEMMA NftInitHolds ==
  ASSUME NftInit
  PROVE  NftInv
<1>1. PICK o \in Owners, old \in SUBSET {t \in Tokens : ColOf[t] \in exists} :
        owner = [t \in Tokens |-> IF t \in old THEN o ELSE NoOne]
  BY DEF NftInit
<1>2. NftTypes
  <2>1. owner \in [Tokens -> AnyOwner]
    BY <1>1 DEF AnyOwner
  <2>2. uri \in [Tokens -> AnyUri] /\ nft \in [Tokens -> NftRows] /\ col \in [Collections -> ColRows]
    BY Constants, NoRowType, NewCol DEF NftInit, AnyUri
  <2> QED
    BY <2>1, <2>2, NoMapsType, NotPreparedType DEF NftInit, NftTypes
<1>3. ASSUME NEW t \in Tokens
      PROVE  RowInv(t) /\ MapsInv(t)
  <2>1. /\ maps.mint[t] = NoOne /\ maps.transfer[t] = NoOne /\ maps.mut[t] = NoUri
        /\ t \notin maps.burn /\ maps.created = {} /\ nft[t] = NoRow
    BY DEF NftInit, noMaps
  <2>2. Inserted(t) = NoRow
    BY <2>1 DEF Inserted
  <2>3. WillBe(t) = NoRow
    BY <2>1, <2>2, NoRowType DEF WillBe, NoRow
  <2>4. RowInv(t)
    BY <2>3 DEF RowInv, NftInit
  <2>5. owner[t] # NoOne => ColOf[t] \in exists
    BY <1>1
  <2>6. MapsInv(t)
    BY <2>1, <2>3, <2>5 DEF MapsInv
  <2> QED
    BY <2>4, <2>6
<1>4. CountInv /\ ColInv /\ PrepareInv
  BY DEF NftInit, CountInv, ColInv, PrepareInv, noMaps
<1> QED
  BY <1>2, <1>3, <1>4 DEF NftInv, TokenInv

LEMMA NftStepKeeps ==
  ASSUME NftInv, [NftNext]_nftVars
  PROVE  NftInv'
<1>1. ASSUME NEW t \in Tokens, NEW to \in Owners \union {NoOne}, NEW inTx \in BOOLEAN,
             EvmLog(t, to, inTx) \/ WasmEvent(t, to, inTx)
      PROVE  NftInv'
  BY <1>1, ContractEventKeeps DEF AnyOwner
<1>2. ASSUME NEW t \in Tokens, NEW to \in Owners \union {NoOne}, MoveEvent(t, to)
      PROVE  NftInv'
  BY <1>2, MoveEventKeeps DEF AnyOwner
<1>3. ASSUME NEW c \in Collections, CreateCollection(c) \/ RecvPacket(c) \/ EvictBlacklist(c)
      PROVE  NftInv'
  BY <1>3, CreateCollectionKeeps, RecvPacketKeeps, EvictBlacklistKeeps
<1>4. CASE EndBlock
  BY <1>4, EndBlockKeeps
<1>5. CASE PrepareEvm \/ PrepareWasm \/ PrepareMove
  BY <1>5, PrepareKeeps
<1>6. CASE CollectEvm \/ CollectWasm \/ CollectMove
  BY <1>6, CollectEvmKeeps, CollectWasmKeeps, CollectMoveKeeps
<1>7. CASE PreparePanics \/ CollectFails \/ Kill
  BY <1>7, RestartKeeps DEF PreparePanics, CollectFails, Kill
<1>8. CASE UNCHANGED nftVars
  <2>1. NftTypes'
    BY <1>8 DEF NftInv, NftTypes, nftVars, dbVars
  <2>2. TokenInv' /\ CountInv' /\ ColInv'
    BY <1>8, ChainSame DEF nftVars, dbVars, history
  <2>3. PrepareInv'
    BY <1>8 DEF NftInv, PrepareInv, nftVars, history
  <2> QED
    BY <2>1, <2>2, <2>3 DEF NftInv
<1> QED
  BY <1>1, <1>2, <1>3, <1>4, <1>5, <1>6, <1>7, <1>8 DEF NftNext

LEMMA NftInvHolds == NftSpec => []NftInv
<1>1. NftInit => NftInv
  BY NftInitHolds
<1>2. NftInv /\ [NftNext]_nftVars => NftInv'
  BY NftStepKeeps
<1> QED
  BY <1>1, <1>2, PTL DEF NftSpec

(* After each block that can be prepared the rows say what the chain says  *)
(* of every token, whatever its events and their order.                    *)
THEOREM RowsAreRight == NftSpec => []RowsRight
<1>1. ASSUME NftInv
      PROVE  RowsRight
  <2> SUFFICES ASSUME Settled, NEW t \in Tokens
               PROVE  /\ nft[t] = NoRow <=> owner[t] = NoOne \/ t \in unseen
                      /\ nft[t] # NoRow => /\ nft[t].owner = owner[t] \/ t \in staleOwner
                                           /\ nft[t].uri = uri[t] \/ t \in staleUri
    BY DEF RowsRight
  <2>1. /\ maps.mint[t] = NoOne /\ maps.transfer[t] = NoOne /\ maps.mut[t] = NoUri
        /\ t \notin maps.burn
    BY DEF Settled, noMaps
  <2>2. Inserted(t) = nft[t] /\ nft[t] \in NftRows
    BY <2>1, <1>1, TokenTypes DEF Inserted, NftInv
  <2>3. WillBe(t) = nft[t]
    BY <2>1, <2>2, RowIsNoRow DEF WillBe
  <2> QED
    BY <2>3, <1>1 DEF NftInv, TokenInv, RowInv
<1> QED
  BY <1>1, NftInvHolds, PTL

(* After each block the counts of the collections are those of their rows. *)
THEOREM CountsAreRight == NftSpec => []CountsRight
<1>1. NftInv => CountsRight
  BY DEF NftInv, CountInv, CountsRight
<1> QED
  BY <1>1, NftInvHolds, PTL

(* What collect looks up was prepared, up to an evicted collection, one    *)
(* older than START_HEIGHT, or one that no transaction has.                *)
THEOREM CollectIsPrepared == NftSpec => []CollectPrepared
<1>1. ASSUME NftInv, at = "collect"
      PROVE  /\ vm = "evm" => \A c \in mintedCols : c \in prepared.cols \union blacklist \/ evicted
             /\ vm = "move" => /\ \A t \in minted : prepared.uri[t] = uri[t]
                               /\ \A c \in maps.target : MoveCols[c] # NoCol \/ c \in before
  <2>1. vm = "evm" => mintedCols \subseteq maps.target
    BY <1>1 DEF mintedCols, minted, NftInv, TokenInv, MapsInv
  <2>2. vm = "evm" => \A c \in mintedCols : c \in prepared.cols \union blacklist \/ evicted
    BY <2>1, <1>1 DEF NftInv, PrepareInv
  <2>3. vm = "move" => \A t \in minted : prepared.uri[t] = uri[t]
    BY <1>1 DEF NftInv, PrepareInv, minted
  <2>4. ASSUME vm = "move", NEW c \in maps.target, c \notin before
        PROVE  MoveCols[c] # NoCol
    <3>1. c \in Collections /\ height \in Nat /\ height # 0
      BY <1>1 DEF NftInv, NftTypes, Maps
    <3>2. c \in maps.created \/ col[c] # NoCol
      BY <2>4, <1>1 DEF NftInv, ColInv
    <3> QED
      BY <3>1, <3>2, NewCol DEF MoveCols
  <2> QED
    BY <2>2, <2>3, <2>4
<1>2. NftInv => CollectPrepared
  BY <1>1 DEF CollectPrepared
<1> QED
  BY <1>2, NftInvHolds, PTL

(* A packet names the collections of the name it holds, in the transaction *)
(* that may insert one; nothing else does, and no step takes a name back.  *)
THEOREM PairsAreNamed == NftSpec => PairsNamed
<1> DEFINE Names == \A c \in Collections :
                      /\ height' # height /\ NameOf[c] \in maps.pairs /\ col'[c] # NoCol
                           => col'[c].origin
                      /\ col[c].origin => col'[c].origin
                      /\ col'[c].origin /\ ~col[c].origin => NameOf[c] \in maps.pairs
<1>1. ASSUME NftInv, NEW cols \in [Collections -> ColRows], NEW rows, Collect(cols, rows),
             \A c \in Collections : cols[c].origin = col[c].origin /\ (col[c] # NoCol => cols[c] = col[c])
      PROVE  Names
  <2> SUFFICES ASSUME NEW c \in Collections
               PROVE  /\ NameOf[c] \in maps.pairs /\ col'[c] # NoCol => col'[c].origin
                      /\ col[c].origin => col'[c].origin
                      /\ col'[c].origin /\ ~col[c].origin => NameOf[c] \in maps.pairs
    OBVIOUS
  <2>1. col' = Paired(NftCounts(cols, rows))
    BY <1>1 DEF Collect
  <2>2. /\ col'[c] = NoCol <=> cols[c] = NoCol
        /\ col'[c].origin = (cols[c].origin \/ (NameOf[c] \in maps.pairs /\ cols[c] # NoCol))
    BY <2>1, <1>1, CollectedCol DEF NftInv
  <2>3. col[c].origin => col[c] # NoCol
    BY NewCol
  <2> QED
    BY <2>2, <2>3, <1>1
<1>2. ASSUME NftInv, CollectEvm
      PROVE  Names
  <2>1. NftTypes /\ Collect(EvmCols, EvmRows)
    BY <1>2 DEF NftInv, CollectEvm
  <2>2. /\ EvmCols \in [Collections -> ColRows]
        /\ \A c \in Collections : /\ EvmCols[c].origin = col[c].origin
                                  /\ col[c] # NoCol => EvmCols[c] = col[c]
    BY <2>1, NewCol, CreationType DEF EvmCols, NftTypes
  <2> QED
    BY <2>1, <2>2, <1>1, <1>2
<1>3. ASSUME NftInv, CollectWasm
      PROVE  Names
  <2>1. NftTypes /\ Collect(WasmCols, WasmRows)
    BY <1>3 DEF NftInv, CollectWasm
  <2>2. /\ WasmCols \in [Collections -> ColRows]
        /\ \A c \in Collections : /\ WasmCols[c].origin = col[c].origin
                                  /\ col[c] # NoCol => WasmCols[c] = col[c]
    BY <2>1, NewCol DEF WasmCols, NftTypes
  <2> QED
    BY <2>1, <2>2, <1>1, <1>3
<1>4. ASSUME NftInv, CollectMove
      PROVE  Names
  <2>1. NftTypes /\ Collect(MoveCols, MoveRows)
    BY <1>4 DEF NftInv, CollectMove
  <2>2. /\ MoveCols \in [Collections -> ColRows]
        /\ \A c \in Collections : /\ MoveCols[c].origin = col[c].origin
                                  /\ col[c] # NoCol => MoveCols[c] = col[c]
    BY <2>1, NewCol DEF MoveCols, NftTypes
  <2> QED
    BY <2>1, <2>2, <1>1, <1>4
<1>5. ASSUME UNCHANGED <<height, col>>
      PROVE  Names
  BY <1>5
<1>6. NftInv /\ [NftNext]_nftVars => [Names]_nftVars
  <2> HIDE DEF Names
  <2> QED
    BY <1>2, <1>3, <1>4, <1>5
    DEF NftNext, EvmLog, WasmEvent, MoveEvent, Grows, CreateCollection, RecvPacket, EvictBlacklist,
        EndBlock, PrepareEvm, PrepareWasm, PrepareMove, PreparePanics, CollectFails, Kill, Restart, dbVars
<1> QED
  BY <1>6, NftInvHolds, PTL DEF NftSpec, PairsNamed
=============================================================================
