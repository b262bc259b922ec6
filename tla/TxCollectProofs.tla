-------------------------- MODULE TxCollectProofs --------------------------
(***************************************************************************)
(* Proofs about the numbered rows, their account edges and the cache of    *)
(* account ids.  What concerns the ids holds for any number of indexers on *)
(* the database; that rows are numbered without a gap and have only their  *)
(* own edges holds if there is one.                                        *)
(***************************************************************************)
EXTENDS TxCollect, FiniteSetTheorems, SequenceTheorems, WellFoundedInduction, TLAPS

RowRecs  == [entry : Entries, ids : SUBSET Nat, seq : Nat \ {0}]
TxnRecs  == [at : {"idle", "block", "seq", "lookup", "select", "create", "seqinfo", "commit"},
             height : Nat \ {0}, done : Nat, seq : Nat, ids : [Accounts -> Ids], rows : Seq(RowRecs)]
PendRecs == [block : BOOLEAN, dict : [Accounts -> Nat], rows : SUBSET RowRecs,
             edges : SUBSET (Nat \X Nat), seq : Ids]

(* Where a transaction is, it has what its next step needs.                *)
PlaceInv ==
  \A w \in Writers :
    /\ txn[w].at # "idle" => txn[w].height \in Heights
    /\ txn[w].at \in {"select", "create"} => txn[w].done < Len(work(w))
    /\ txn[w].at = "create" => \A a \in uncached(w) : pend[w].dict[a] = 0
    /\ txn[w].at = "commit" => pend[w].seq # NotCached

(* An uncommitted id is the only one of its account.                       *)
PendInv ==
  \A w \in Writers, a \in Accounts :
    pend[w].dict[a] # 0 => dict[a] = 0 /\ \A v \in Writers \ {w} : pend[v].dict[a] = 0

IdOK(a, i) == i = NotCached \/ Explained(a, i) \/ a \in raced

RightIds(e, ids) ==
  \/ AccountsOf[e] \intersect raced # {}
  \/ /\ \A a \in AccountsOf[e] : \E i \in ids : Explained(a, i)
     /\ \A i \in ids : \E a \in AccountsOf[e] : Explained(a, i)

LostInv == \A k \in Kinds : \A x \in lost[k] : x[2] # 0

(* The ids that a transaction has looked up, and those of its rows.        *)
IdsInv(w)  == \A a \in Accounts : IdOK(a, txn[w].ids[a])
RowsInv(w) == \A i \in DOMAIN txn[w].rows : RightIds(txn[w].rows[i].entry, txn[w].rows[i].ids)

IdInv ==
  /\ TypeOK
  /\ PlaceInv
  /\ PendInv
  /\ LostInv
  /\ CacheRight
  /\ \A w \in Writers : IdsInv(w) /\ RowsInv(w)
-----------------------------------------------------------------------------
(* There is no second indexer.                                             *)
OneIndexer == \A p, q \in Processes : p = q

Working == {"lookup", "select", "create", "seqinfo", "commit"}

(* A transaction is above all rows of its kind, has numbered its entries   *)
(* from the last sequence on, and will write all of them.                  *)
Above(k, t, p) ==
  /\ \A h \in Heights : \A e \in ToSet(Work[k][h]) : seqOf[e] # 0 => h < t.height
  /\ k = "tx" => \A h \in blocks : h < t.height
  /\ k = "tx" /\ t.at \in Working \union {"seq"} => p.block
  /\ k = "itx" => t.at # "block" /\ ~ p.block

Counted(k, t) ==
  /\ t.at \notin Working => t.done = 0 /\ t.rows = <<>>
  /\ t.at \in Working =>
       /\ t.seq = seqInfo[k] + t.done
       /\ Len(t.rows) = t.done
       /\ t.done <= Len(Work[k][t.height])
       /\ \A i \in 1 .. t.done : t.rows[i].entry = Work[k][t.height][i] /\ t.rows[i].seq = seqInfo[k] + i

WillWrite(k, t, p) ==
  /\ t.at \in {"seqinfo", "commit"} =>
       /\ t.done = Len(Work[k][t.height])
       /\ p.rows = ToSet(t.rows)
       /\ p.edges = rowEdges(ToSet(t.rows)) \ edges[k]
  /\ t.at = "commit" => p.seq = t.seq

NumberOK(k, t, p) == Above(k, t, p) /\ Counted(k, t) /\ WillWrite(k, t, p)
NumberInv(w)      == NumberOK(Kind(w), txn[w], pend[w])

(* The sequences of a kind, one for each row, and the edges up to the last *)
(* of them.                                                                *)
SeqInv(k) ==
  /\ {seqOf[e] : e \in rowsOf(k)} = 1 .. seqInfo[k]
  /\ \A d, e \in rowsOf(k) : seqOf[d] = seqOf[e] => d = e
  /\ \A g, h \in Heights : g < h =>
       \A d \in ToSet(Work[k][g]) \intersect rowsOf(k), e \in ToSet(Work[k][h]) \intersect rowsOf(k) :
         seqOf[d] < seqOf[e]
  /\ \A x \in edges[k] : x[2] \in 1 .. seqInfo[k]

BlockInv == \A h \in Heights : \A e \in ToSet(Work["tx"][h]) : seqOf[e] # 0 => h \in blocks

OneInv ==
  /\ IdInv
  /\ \A w \in Writers : NumberInv(w)
  /\ \A k \in Kinds : SeqInv(k)
  /\ BlockInv
  /\ EdgesRight
-----------------------------------------------------------------------------
(* A set of naturals has a least element, and a bounded one a greatest.    *)
LEMMA LeastNat ==
  ASSUME NEW S \in SUBSET Nat, S # {}
  PROVE  \E m \in S : \A k \in S : m <= k
<1> DEFINE R == OpToRel(<, Nat)
<1>1. IsWellFoundedOn(R, Nat)
  BY NatLessThanWellFounded, Zenon
<1>2. \A x, y \in Nat : <<y, x>> \in R <=> y < x
  BY DEF OpToRel
<1> HIDE DEF R
<1>3. \E x \in S : \A y \in S : ~ (<<y, x>> \in R)
  BY <1>1, WFMin
<1>4. PICK x \in S : \A y \in S : ~ (<<y, x>> \in R)
  BY <1>3
<1>5. ASSUME NEW y \in S
      PROVE  x <= y
  <2>1. x \in Nat /\ y \in Nat
    OBVIOUS
  <2>2. ~ (y < x)
    BY <1>2, <1>4, <2>1, Zenon
  <2> QED
    BY <2>1, <2>2
<1> QED
  BY <1>5

LEMMA GreatestNat ==
  ASSUME NEW S \in SUBSET Nat, S # {}, NEW n \in Nat, \A k \in S : k <= n
  PROVE  \E m \in S : \A k \in S : k <= m
<1> DEFINE U == {m \in Nat : \A k \in S : k <= m}
<1>1. U \in SUBSET Nat /\ U # {}
  OBVIOUS
<1>2. PICK m \in U : \A k \in U : m <= k
  <2> HIDE DEF U
  <2> QED
    BY <1>1, LeastNat
<1>3. m \in Nat /\ \A k \in S : k <= m
  BY <1>2
<1>4. CASE m \in S
  BY <1>3, <1>4
<1>5. CASE m \notin S
  <2>1. \A k \in S : k <= m - 1 /\ k >= 0
    BY <1>3, <1>5
  <2>0. PICK k \in S : TRUE
    OBVIOUS
  <2>2. m - 1 \in Nat
    BY <2>0, <2>1, <1>3
  <2>3. m - 1 \in U
    BY <2>1, <2>2
  <2> QED
    BY <2>3, <1>2, <1>3
<1> QED
  BY <1>4, <1>5

LEMMA HighestOf ==
  ASSUME NEW S \in SUBSET Nat, NEW n \in Nat, \A k \in S : k <= n
  PROVE  Highest(S) \in Nat /\ Highest(S) <= n /\ \A k \in S : k <= Highest(S)
<1>1. CASE S = {}
  BY <1>1 DEF Highest
<1>2. CASE S # {}
  <2>1. \E m \in S : \A k \in S : k <= m
    BY <1>2, GreatestNat
  <2>2. Highest(S) = CHOOSE x \in S : \A y \in S : y <= x
    BY <1>2 DEF Highest
  <2>3. Highest(S) \in S /\ \A k \in S : k <= Highest(S)
    BY <2>1, <2>2
  <2> QED
    BY <2>3
<1> QED
  BY <1>1, <1>2
-----------------------------------------------------------------------------
LEMMA Constants ==
  /\ MaxHeight \in Nat /\ MaxFails \in Nat
  /\ IsFiniteSet(Accounts)
  /\ Heights \subseteq Nat \ {0}
  /\ \A k \in Kinds, h \in Heights : Work[k][h] \in Seq(Entries)
  /\ \A e \in Entries : AccountsOf[e] \subseteq Accounts
  BY TxCollectAssumption DEF Heights

LEMMA WriterTypes ==
  ASSUME NEW w \in Writers
  PROVE  w[1] \in Processes /\ Kind(w) \in Kinds
  BY TxCollectAssumption DEF Writers, Kind, Kinds

LEMMA NoTypes ==
  /\ noIds \in [Accounts -> Ids]
  /\ noWrites \in PendRecs
  /\ \A h \in Nat \ {0} : idle(h) \in TxnRecs
<1>1. NotCached \in Ids /\ 0 \in Nat
  BY DEF Ids
<1>2. noIds \in [Accounts -> Ids]
  BY <1>1 DEF noIds
<1>3. [a \in Accounts |-> 0] \in [Accounts -> Nat]
  OBVIOUS
<1>4. noWrites \in PendRecs
  BY <1>1, <1>3 DEF noWrites, PendRecs
<1>5. \A h \in Nat \ {0} : idle(h) \in TxnRecs
  BY <1>2 DEF idle, TxnRecs
<1> QED
  BY <1>2, <1>4, <1>5

LEMMA Types ==
  ASSUME TypeOK
  PROVE  txn \in [Writers -> TxnRecs] /\ pend \in [Writers -> PendRecs]
  BY DEF TypeOK, TxnRecs, PendRecs, RowRecs

LEMMA WorkTypes ==
  ASSUME TypeOK, PlaceInv, NEW w \in Writers, txn[w].at # "idle"
  PROVE  /\ work(w) \in Seq(Entries) /\ Len(work(w)) \in Nat
         /\ txn[w].done \in Nat
         /\ txn[w].done < Len(work(w)) =>
              /\ work(w)[txn[w].done + 1] \in Entries
              /\ accounts(w) = AccountsOf[work(w)[txn[w].done + 1]]
              /\ accounts(w) \subseteq Accounts
<1>1. txn[w].height \in Heights /\ txn[w] \in TxnRecs
  BY Types DEF PlaceInv
<1>2. work(w) \in Seq(Entries)
  BY <1>1, WriterTypes, Constants DEF work
<1>3. Len(work(w)) \in Nat /\ txn[w].done \in Nat
  BY <1>1, <1>2 DEF TxnRecs
<1>4. ASSUME txn[w].done < Len(work(w))
      PROVE  work(w)[txn[w].done + 1] \in Entries
  <2>1. txn[w].done + 1 \in 1 .. Len(work(w))
    BY <1>3, <1>4
  <2> QED
    BY <2>1, <1>2
<1> QED
  BY <1>2, <1>3, <1>4, Constants DEF accounts

(* The variables of a transaction once an entry has its sequence.          *)
LEMMA NumberedTxn ==
  ASSUME TypeOK, PlaceInv, NEW w \in Writers, txn[w].at # "idle", txn[w].done < Len(work(w)),
         NEW ids \in [Accounts -> Ids], \A a \in accounts(w) : ids[a] # NotCached, NEW missed
  PROVE  LET t == Numbered(w, ids, missed)
             r == [entry |-> work(w)[txn[w].done + 1], ids |-> {ids[a] : a \in accounts(w)},
                   seq |-> txn[w].seq + 1]
         IN  /\ t \in TxnRecs /\ r \in RowRecs
             /\ t.at = "lookup" /\ t.height = txn[w].height /\ t.done = txn[w].done + 1
             /\ t.seq = txn[w].seq + 1 /\ t.ids = noIds /\ t.rows = Append(txn[w].rows, r)
<1> DEFINE r == [entry |-> work(w)[txn[w].done + 1], ids |-> {ids[a] : a \in accounts(w)},
                 seq |-> txn[w].seq + 1]
<1>1. txn[w] \in TxnRecs
  BY Types
<1>2. txn[w].done \in Nat /\ txn[w].seq \in Nat /\ txn[w].rows \in Seq(RowRecs)
  BY <1>1 DEF TxnRecs
<1>3. r \in RowRecs
  <2>1. work(w)[txn[w].done + 1] \in Entries /\ accounts(w) \subseteq Accounts
    BY WorkTypes
  <2>2. {ids[a] : a \in accounts(w)} \in SUBSET Nat
    BY <2>1 DEF Ids
  <2>3. txn[w].seq + 1 \in Nat \ {0}
    BY <1>2
  <2> QED
    BY <2>1, <2>2, <2>3 DEF RowRecs
<1>4. Numbered(w, ids, missed) =
        [txn[w] EXCEPT !.at = "lookup", !.done = txn[w].done + 1, !.seq = txn[w].seq + 1,
                       !.ids = noIds, !.rows = Append(txn[w].rows, r)]
  BY <1>1 DEF Numbered, NextSeq, TxnRecs
<1> HIDE DEF r
<1>5. Append(txn[w].rows, r) \in Seq(RowRecs) /\ txn[w].done + 1 \in Nat /\ txn[w].seq + 1 \in Nat
  BY <1>2, <1>3
<1>6. noIds \in [Accounts -> Ids]
  BY NoTypes
<1>7. Numbered(w, ids, missed) \in TxnRecs
  BY <1>1, <1>4, <1>5, <1>6 DEF TxnRecs
<1>8. LET t == Numbered(w, ids, missed)
      IN  /\ t.at = "lookup" /\ t.height = txn[w].height /\ t.done = txn[w].done + 1
          /\ t.seq = txn[w].seq + 1 /\ t.ids = noIds /\ t.rows = Append(txn[w].rows, r)
  BY <1>1, <1>4 DEF TxnRecs
<1> QED
  BY <1>3, <1>7, <1>8 DEF r
-----------------------------------------------------------------------------
(* Nothing that was explained ceases to be.                                *)
Keeps ==
  /\ \A a \in Accounts, i \in Nat : Explained(a, i) => Explained(a, i)'
  /\ raced \subseteq raced'

LEMMA RightIdsKept ==
  ASSUME Keeps, NEW e \in Entries, NEW ids \in SUBSET Nat, RightIds(e, ids)
  PROVE  RightIds(e, ids)'
<1>1. AccountsOf[e] \subseteq Accounts
  BY Constants
<1>2. CASE AccountsOf[e] \intersect raced # {}
  BY <1>2 DEF RightIds, Keeps
<1>3. CASE /\ \A a \in AccountsOf[e] : \E i \in ids : Explained(a, i)
           /\ \A i \in ids : \E a \in AccountsOf[e] : Explained(a, i)
  <2>1. \A a \in AccountsOf[e], i \in ids : Explained(a, i) => Explained(a, i)'
    BY <1>1 DEF Keeps
  <2>2. \A a \in AccountsOf[e] : \E i \in ids : Explained(a, i)'
    BY <1>3, <2>1
  <2>3. \A i \in ids : \E a \in AccountsOf[e] : Explained(a, i)'
    BY <1>3, <2>1
  <2> QED
    BY <2>2, <2>3 DEF RightIds
<1> QED
  BY <1>2, <1>3 DEF RightIds

LEMMA IdOKKept ==
  ASSUME Keeps, NEW a \in Accounts, NEW i \in Ids, IdOK(a, i)
  PROVE  IdOK(a, i)'
  BY DEF IdOK, Keeps, Ids

(* What a transaction has collected stays right, or is dropped.            *)
LEMMA IdsKept ==
  ASSUME TypeOK, Keeps, NEW w \in Writers, IdsInv(w),
         txn'[w].ids = txn[w].ids \/ txn'[w].ids = noIds
  PROVE  IdsInv(w)'
<1>1. txn[w].ids \in [Accounts -> Ids]
  BY Types DEF TxnRecs
<1>2. CASE txn'[w].ids = noIds
  BY <1>2 DEF IdsInv, IdOK, noIds
<1>3. CASE txn'[w].ids = txn[w].ids
  <2>1. ASSUME NEW a \in Accounts
        PROVE  IdOK(a, txn[w].ids[a])'
    <3>1. PICK i \in Ids : i = txn[w].ids[a]
      BY <1>1
    <3>2. IdOK(a, i)'
      BY <3>1, IdOKKept DEF IdsInv
    <3>3. i = txn'[w].ids[a]
      BY <3>1, <1>3
    <3> QED
      BY <3>2, <3>3
  <2> QED
    BY <2>1 DEF IdsInv
<1> QED
  BY <1>2, <1>3

LEMMA RowKept ==
  ASSUME TypeOK, Keeps, NEW w \in Writers, RowsInv(w), NEW i \in DOMAIN txn[w].rows,
         txn'[w].rows[i] = txn[w].rows[i]
  PROVE  RightIds(txn[w].rows[i].entry, txn[w].rows[i].ids)'
<1>1. txn[w].rows \in Seq(RowRecs)
  BY Types DEF TxnRecs
<1>2. txn[w].rows[i] \in RowRecs
  BY <1>1
<1>3. PICK e \in Entries, ids \in SUBSET Nat : e = txn[w].rows[i].entry /\ ids = txn[w].rows[i].ids
  BY <1>2 DEF RowRecs
<1>4. RightIds(e, ids)
  BY <1>3 DEF RowsInv
<1>5. RightIds(e, ids)'
  BY <1>4, RightIdsKept
<1>6. e = txn'[w].rows[i].entry /\ ids = txn'[w].rows[i].ids
  BY <1>3
<1> QED
  BY <1>5, <1>6

LEMMA RowsKept ==
  ASSUME TypeOK, Keeps, NEW w \in Writers, RowsInv(w),
         txn'[w].rows = txn[w].rows \/ txn'[w].rows = <<>>
  PROVE  RowsInv(w)'
<1>1. CASE txn'[w].rows = <<>>
  BY <1>1 DEF RowsInv
<1>2. CASE txn'[w].rows = txn[w].rows
  <2>1. ASSUME NEW i \in DOMAIN txn[w].rows
        PROVE  RightIds(txn[w].rows[i].entry, txn[w].rows[i].ids)'
    BY <1>2, RowKept
  <2>2. DOMAIN txn'[w].rows = DOMAIN txn[w].rows
    BY <1>2
  <2> QED
    BY <2>1, <2>2 DEF RowsInv
<1> QED
  BY <1>1, <1>2
-----------------------------------------------------------------------------
(* A step of one transaction that leaves the ids alone.                    *)
LEMMA SameIds ==
  ASSUME UNCHANGED <<dict, lost, raced>>, \A w \in Writers : pend'[w].dict = pend[w].dict
  PROVE  /\ \A a, i : Explained(a, i)' = Explained(a, i)
         /\ Keeps
         /\ PendInv => PendInv'
         /\ LostInv => LostInv'
         /\ cache' = cache /\ CacheRight => CacheRight'
<1>1. \A a, i : Explained(a, i)' = Explained(a, i)
  BY DEF Explained
<1>2. Keeps
  BY <1>1 DEF Keeps
<1>3. PendInv => PendInv'
  BY DEF PendInv
<1>4. LostInv => LostInv'
  BY DEF LostInv
<1>5. cache' = cache /\ CacheRight => CacheRight'
  BY DEF CacheRight
<1> QED
  BY <1>1, <1>2, <1>3, <1>4, <1>5

LEMMA LocalStep ==
  ASSUME IdInv, NEW w \in Writers, NEW t \in TxnRecs, NEW p \in PendRecs,
         txn' = [txn EXCEPT ![w] = t], pend' = [pend EXCEPT ![w] = p],
         UNCHANGED <<dbVars, lastId, cache, lost, raced, fails>>,
         p.dict = pend[w].dict,
         t.ids = txn[w].ids \/ t.ids = noIds,
         t.rows = txn[w].rows \/ t.rows = <<>>,
         t.at # "idle" => t.height \in Heights,
         t.at \notin {"select", "create"},
         t.at = "commit" => p.seq # NotCached
  PROVE  IdInv' /\ Keeps
<1>1. TypeOK /\ txn \in [Writers -> TxnRecs] /\ pend \in [Writers -> PendRecs]
  BY Types DEF IdInv
<1>2. txn' \in [Writers -> TxnRecs] /\ pend' \in [Writers -> PendRecs]
  BY <1>1
<1>3. TypeOK'
  BY <1>1, <1>2 DEF TypeOK, TxnRecs, PendRecs, RowRecs, dbVars
<1>4. txn'[w] = t /\ pend'[w] = p /\ \A v \in Writers : v # w => txn'[v] = txn[v] /\ pend'[v] = pend[v]
  BY <1>1
<1>5. PlaceInv'
  BY <1>4 DEF IdInv, PlaceInv, work, uncached, accounts
<1>6. Keeps /\ PendInv' /\ LostInv' /\ CacheRight'
  <2>1. \A v \in Writers : pend'[v].dict = pend[v].dict
    BY <1>4
  <2> QED
    BY <2>1, SameIds DEF IdInv, dbVars
<1>7. ASSUME NEW v \in Writers
      PROVE  IdsInv(v)' /\ RowsInv(v)'
  <2>1. IdsInv(v) /\ RowsInv(v)
    BY DEF IdInv
  <2>2. txn'[v].ids = txn[v].ids \/ txn'[v].ids = noIds
    BY <1>4
  <2>3. txn'[v].rows = txn[v].rows \/ txn'[v].rows = <<>>
    BY <1>4
  <2> QED
    BY <2>1, <2>2, <2>3, <1>1, <1>6, IdsKept, RowsKept
<1> QED
  BY <1>3, <1>5, <1>6, <1>7 DEF IdInv

LEMMA CollectBeginIds ==
  ASSUME IdInv, NEW w \in Writers, CollectBegin(w)
  PROVE  IdInv' /\ Keeps
<1>0. UNCHANGED <<dbVars, lastId, cache, lost, raced, fails>>
  BY DEF CollectBegin
<1>1. txn \in [Writers -> TxnRecs] /\ pend \in [Writers -> PendRecs] /\ txn[w] \in TxnRecs
  BY Types DEF IdInv
<1>2. pend' = [pend EXCEPT ![w] = pend[w]] /\ pend[w] \in PendRecs
  BY <1>1 DEF CollectBegin
<1>3. CASE txn[w].height \in blocks
  <2>1. txn' = [txn EXCEPT ![w] = idle(txn[w].height + 1)]
    BY <1>1, <1>3 DEF CollectBegin
  <2>2. txn[w].height + 1 \in Nat \ {0}
    BY <1>1 DEF TxnRecs
  <2>3. idle(txn[w].height + 1) \in TxnRecs
    BY <2>2, NoTypes
  <2>4. LET t == idle(txn[w].height + 1) IN t.at = "idle" /\ t.ids = noIds /\ t.rows = <<>>
    BY DEF idle
  <2> QED
    BY <1>2, <2>1, <2>3, <2>4, <1>0, LocalStep
<1>4. CASE txn[w].height \notin blocks
  <2> DEFINE t == [txn[w] EXCEPT !.at = "block"]
  <2>1. txn' = [txn EXCEPT ![w] = t]
    BY <1>1, <1>4 DEF CollectBegin
  <2>2. t \in TxnRecs /\ t.at = "block" /\ t.ids = txn[w].ids /\ t.rows = txn[w].rows /\ t.height = txn[w].height
    BY <1>1 DEF TxnRecs
  <2>3. t.height \in Heights
    BY <2>2 DEF CollectBegin
  <2> HIDE DEF t
  <2> QED
    BY <1>2, <2>1, <2>2, <2>3, <1>0, LocalStep
<1> QED
  BY <1>3, <1>4

LEMMA InsertBlockIds ==
  ASSUME IdInv, NEW w \in Writers, InsertBlock(w)
  PROVE  IdInv' /\ Keeps
<1> DEFINE t == [txn[w] EXCEPT !.at = "seq"]
           p == [pend[w] EXCEPT !.block = txn[w].height \notin blocks]
<1>0. UNCHANGED <<dbVars, lastId, cache, lost, raced, fails>>
  BY DEF InsertBlock
<1>1. txn \in [Writers -> TxnRecs] /\ pend \in [Writers -> PendRecs]
      /\ txn[w] \in TxnRecs /\ pend[w] \in PendRecs
  BY Types DEF IdInv
<1>2. txn' = [txn EXCEPT ![w] = t] /\ pend' = [pend EXCEPT ![w] = p]
  BY <1>1 DEF InsertBlock
<1>3. t \in TxnRecs /\ t.at = "seq" /\ t.ids = txn[w].ids /\ t.rows = txn[w].rows /\ t.height = txn[w].height
  BY <1>1 DEF TxnRecs
<1>4. p \in PendRecs /\ p.dict = pend[w].dict
  BY <1>1 DEF PendRecs
<1>5. t.height \in Heights
  BY <1>3 DEF IdInv, PlaceInv, InsertBlock
<1> HIDE DEF t, p
<1> QED
  BY <1>2, <1>3, <1>4, <1>5, <1>0, LocalStep

LEMMA ConsumeBeginIds ==
  ASSUME IdInv, NEW w \in Writers, ConsumeBegin(w)
  PROVE  IdInv' /\ Keeps
<1> DEFINE t == [txn[w] EXCEPT !.at = "seq"]
<1>0. UNCHANGED <<dbVars, lastId, cache, lost, raced, fails>>
  BY DEF ConsumeBegin
<1>1. txn \in [Writers -> TxnRecs] /\ pend \in [Writers -> PendRecs]
      /\ txn[w] \in TxnRecs /\ pend[w] \in PendRecs
  BY Types DEF IdInv
<1>2. txn' = [txn EXCEPT ![w] = t] /\ pend' = [pend EXCEPT ![w] = pend[w]]
  BY <1>1 DEF ConsumeBegin
<1>3. t \in TxnRecs /\ t.at = "seq" /\ t.ids = txn[w].ids /\ t.rows = txn[w].rows /\ t.height = txn[w].height
  BY <1>1 DEF TxnRecs
<1>4. t.height \in Heights
  BY <1>3 DEF IdInv, TypeOK, ConsumeBegin
<1> HIDE DEF t
<1> QED
  BY <1>1, <1>2, <1>3, <1>4, <1>0, LocalStep

LEMMA GetSeqInfoIds ==
  ASSUME IdInv, NEW w \in Writers, GetSeqInfo(w)
  PROVE  IdInv' /\ Keeps
<1> DEFINE t == [txn[w] EXCEPT !.at = "lookup", !.seq = seqInfo[Kind(w)]]
<1>0. UNCHANGED <<dbVars, lastId, cache, lost, raced, fails>>
  BY DEF GetSeqInfo
<1>1. txn \in [Writers -> TxnRecs] /\ pend \in [Writers -> PendRecs]
      /\ txn[w] \in TxnRecs /\ pend[w] \in PendRecs
  BY Types DEF IdInv
<1>2. txn' = [txn EXCEPT ![w] = t] /\ pend' = [pend EXCEPT ![w] = pend[w]]
  BY <1>1 DEF GetSeqInfo
<1>3. seqInfo[Kind(w)] \in Nat
  BY WriterTypes DEF IdInv, TypeOK
<1>4. t \in TxnRecs /\ t.at = "lookup" /\ t.ids = txn[w].ids /\ t.rows = txn[w].rows /\ t.height = txn[w].height
  BY <1>1, <1>3 DEF TxnRecs
<1>5. t.height \in Heights
  BY <1>4 DEF IdInv, PlaceInv, GetSeqInfo
<1> HIDE DEF t
<1> QED
  BY <1>1, <1>2, <1>4, <1>5, <1>0, LocalStep

LEMMA InsertRowsIds ==
  ASSUME IdInv, NEW w \in Writers, InsertRows(w)
  PROVE  IdInv' /\ Keeps
<1> DEFINE new == {r \in ToSet(txn[w].rows) : seqOf[r.entry] = 0}
           es  == rowEdges(ToSet(txn[w].rows)) \ edges[Kind(w)]
           t   == [txn[w] EXCEPT !.at = "seqinfo"]
           p   == [pend[w] EXCEPT !.rows = new, !.edges = es]
<1>0. UNCHANGED <<dbVars, lastId, cache, lost, raced, fails>>
  BY DEF InsertRows
<1>1. txn \in [Writers -> TxnRecs] /\ pend \in [Writers -> PendRecs]
      /\ txn[w] \in TxnRecs /\ pend[w] \in PendRecs
  BY Types DEF IdInv
<1>2. txn' = [txn EXCEPT ![w] = t] /\ pend' = [pend EXCEPT ![w] = p]
  BY <1>1 DEF InsertRows
<1>3. t \in TxnRecs /\ t.at = "seqinfo" /\ t.ids = txn[w].ids /\ t.rows = txn[w].rows /\ t.height = txn[w].height
  BY <1>1 DEF TxnRecs
<1>4. ToSet(txn[w].rows) \in SUBSET RowRecs
  BY <1>1 DEF TxnRecs, ToSet
<1>5. new \in SUBSET RowRecs
  BY <1>4
<1>6. es \in SUBSET (Nat \X Nat)
  BY <1>4 DEF rowEdges, RowRecs
<1> HIDE DEF new, es, t
<1>7. p \in PendRecs /\ p.dict = pend[w].dict
  BY <1>1, <1>5, <1>6 DEF PendRecs
<1>8. t.height \in Heights
  BY <1>3 DEF IdInv, PlaceInv, InsertRows
<1> HIDE DEF p
<1> QED
  BY <1>2, <1>3, <1>7, <1>8, <1>0, LocalStep

LEMMA UpdateSeqInfoIds ==
  ASSUME IdInv, NEW w \in Writers, UpdateSeqInfo(w)
  PROVE  IdInv' /\ Keeps
<1> DEFINE t == [txn[w] EXCEPT !.at = "commit"]
           p == [pend[w] EXCEPT !.seq = txn[w].seq]
<1>0. UNCHANGED <<dbVars, lastId, cache, lost, raced, fails>>
  BY DEF UpdateSeqInfo
<1>1. txn \in [Writers -> TxnRecs] /\ pend \in [Writers -> PendRecs]
      /\ txn[w] \in TxnRecs /\ pend[w] \in PendRecs
  BY Types DEF IdInv
<1>2. txn' = [txn EXCEPT ![w] = t] /\ pend' = [pend EXCEPT ![w] = p]
  BY <1>1 DEF UpdateSeqInfo
<1>3. t \in TxnRecs /\ t.at = "commit" /\ t.ids = txn[w].ids /\ t.rows = txn[w].rows /\ t.height = txn[w].height
  BY <1>1 DEF TxnRecs
<1>4. txn[w].seq \in Nat /\ txn[w].seq \in Ids /\ txn[w].seq # NotCached
  BY <1>1 DEF TxnRecs, Ids, NotCached
<1>5. p \in PendRecs /\ p.dict = pend[w].dict /\ p.seq = txn[w].seq
  BY <1>1, <1>4 DEF PendRecs
<1>6. t.height \in Heights
  BY <1>3 DEF IdInv, PlaceInv, UpdateSeqInfo
<1> HIDE DEF t, p
<1> QED
  BY <1>2, <1>3, <1>4, <1>5, <1>6, <1>0, LocalStep
-----------------------------------------------------------------------------
(* The ids of the cache can be used.                                       *)
LEMMA CachedIds ==
  ASSUME IdInv, NEW p \in Processes, NEW a \in Accounts
  PROVE  IdOK(a, cache[p][a])
<1>1. CASE <<a, cache[p][a]>> \in lost["itx"]
  <2>1. cache[p][a] # 0
    BY <1>1 DEF IdInv, LostInv, Kinds
  <2> QED
    BY <1>1, <2>1 DEF IdOK, Explained
<1>2. CASE ~ (<<a, cache[p][a]>> \in lost["itx"])
  BY <1>2 DEF IdInv, CacheRight, IdOK, Explained
<1> QED
  BY <1>1, <1>2

(* What the two kinds of step of a lookup do to the transactions: w waits  *)
(* for the database, or has one more entry.                                *)
Advances(w) ==
  /\ txn'[w].height = txn[w].height
  /\ \A v \in Writers : v # w => txn'[v] = txn[v]
  /\ \/ /\ txn'[w].at \in {"select", "create"}
        /\ txn'[w].done = txn[w].done /\ txn'[w].seq = txn[w].seq /\ txn'[w].rows = txn[w].rows
     \/ /\ txn'[w].at = "lookup" /\ txn'[w].done = txn[w].done + 1 /\ txn'[w].seq = txn[w].seq + 1
        /\ \E r \in RowRecs :
             /\ r.entry = work(w)[txn[w].done + 1] /\ r.seq = txn[w].seq + 1
             /\ txn'[w].rows = Append(txn[w].rows, r)

LEMMA NumberedStep ==
  ASSUME IdInv, Keeps, NEW w \in Writers, txn[w].at # "idle", txn[w].done < Len(work(w)),
         NEW ids \in [Accounts -> Ids], \A a \in accounts(w) : ids[a] # NotCached,
         \A a \in Accounts : a \in accounts(w) => IdOK(a, ids[a])',
         NEW missed, txn' = [txn EXCEPT ![w] = Numbered(w, ids, missed)],
         \A v \in Writers : v # w => pend'[v] = pend[v]
  PROVE  /\ txn' \in [Writers -> TxnRecs] /\ PlaceInv' /\ Advances(w)
         /\ \A v \in Writers : IdsInv(v)' /\ RowsInv(v)'
<1> DEFINE t == Numbered(w, ids, missed)
           r == [entry |-> work(w)[txn[w].done + 1], ids |-> {ids[a] : a \in accounts(w)},
                 seq |-> txn[w].seq + 1]
<1>1. TypeOK /\ PlaceInv /\ txn \in [Writers -> TxnRecs]
  BY Types DEF IdInv
<1>2. t \in TxnRecs /\ r \in RowRecs /\ t.at = "lookup" /\ t.height = txn[w].height
      /\ t.done = txn[w].done + 1 /\ t.seq = txn[w].seq + 1
      /\ t.ids = noIds /\ t.rows = Append(txn[w].rows, r)
  BY <1>1, NumberedTxn
<1>3. txn' = [txn EXCEPT ![w] = t]
  OBVIOUS
<1>4. r.entry = work(w)[txn[w].done + 1] /\ r.ids = {ids[a] : a \in accounts(w)} /\ r.seq = txn[w].seq + 1
  OBVIOUS
<1> HIDE DEF t, r
<1>5. txn' \in [Writers -> TxnRecs]
  BY <1>1, <1>2, <1>3
<1>6. txn'[w] = t /\ \A v \in Writers : v # w => txn'[v] = txn[v]
  BY <1>1, <1>3
<1>7. PlaceInv'
  BY <1>1, <1>2, <1>6 DEF PlaceInv, work, uncached, accounts
<1>8. ASSUME NEW v \in Writers
      PROVE  IdsInv(v)'
  <2>1. txn'[v].ids = txn[v].ids \/ txn'[v].ids = noIds
    BY <1>2, <1>6
  <2> QED
    BY <2>1, <1>1, IdsKept DEF IdInv
<1>9. ASSUME NEW v \in Writers, v # w
      PROVE  RowsInv(v)'
  <2>1. txn'[v].rows = txn[v].rows
    BY <1>6, <1>9
  <2> QED
    BY <2>1, <1>1, RowsKept DEF IdInv
<1>10. RowsInv(w)'
  <2>1. PICK rows \in Seq(RowRecs) : rows = txn[w].rows
    BY <1>1 DEF TxnRecs
  <2>2. PICK new \in RowRecs : new = r
    BY <1>2
  <2>3. txn'[w].rows = Append(rows, new)
    BY <2>1, <2>2, <1>2, <1>6
  <2>4. Len(rows) \in Nat /\ DOMAIN rows = 1 .. Len(rows)
        /\ DOMAIN Append(rows, new) = 1 .. Len(rows) + 1
        /\ Append(rows, new)[Len(rows) + 1] = new
        /\ \A i \in 1 .. Len(rows) : Append(rows, new)[i] = rows[i]
    BY <2>1, <2>2
  <2>5. ASSUME NEW i \in 1 .. Len(rows)
        PROVE  RightIds(txn[w].rows[i].entry, txn[w].rows[i].ids)'
    <3>1. i \in DOMAIN txn[w].rows /\ txn'[w].rows[i] = txn[w].rows[i]
      BY <2>1, <2>3, <2>4
    <3> QED
      BY <3>1, <1>1, RowKept DEF IdInv
  <2>6. RightIds(new.entry, new.ids)'
    <3>1. PICK e \in Entries, A \in SUBSET Accounts :
            e = work(w)[txn[w].done + 1] /\ A = accounts(w) /\ A = AccountsOf[e]
      BY <1>1, WorkTypes
    <3>2. new.entry = e /\ new.ids = {ids[a] : a \in A}
      BY <2>2, <3>1, <1>4
    <3>3. \A a \in A : IdOK(a, ids[a])' /\ ids[a] # NotCached
      BY <3>1
    <3>4. \A a \in A : Explained(a, ids[a])' \/ a \in raced'
      BY <3>3 DEF IdOK
    <3>5. RightIds(e, {ids[a] : a \in A})'
      <4>1. CASE A \intersect raced' # {}
        BY <4>1, <3>1 DEF RightIds
      <4>2. CASE A \intersect raced' = {}
        <5>1. \A a \in A : Explained(a, ids[a])'
          BY <3>4, <4>2
        <5>2. \A a \in AccountsOf[e] : \E i \in {ids[b] : b \in A} : Explained(a, i)'
          BY <5>1, <3>1
        <5>3. \A i \in {ids[b] : b \in A} : \E a \in AccountsOf[e] : Explained(a, i)'
          BY <5>1, <3>1
        <5> QED
          BY <5>2, <5>3 DEF RightIds
      <4> QED
        BY <4>1, <4>2
    <3> QED
      BY <3>2, <3>5
  <2>7. ASSUME NEW i \in DOMAIN txn'[w].rows
        PROVE  RightIds(txn[w].rows[i].entry, txn[w].rows[i].ids)'
    <3>1. CASE i \in 1 .. Len(rows)
      BY <3>1, <2>5
    <3>2. CASE i = Len(rows) + 1
      <4>1. txn'[w].rows[i].entry = new.entry /\ txn'[w].rows[i].ids = new.ids
        BY <3>2, <2>3, <2>4
      <4> QED
        BY <4>1, <2>6
    <3> QED
      BY <3>1, <3>2, <2>3, <2>4
  <2> QED
    BY <2>7 DEF RowsInv
<1>11. Advances(w)
  BY <1>2, <1>4, <1>6 DEF Advances
<1> QED
  BY <1>5, <1>7, <1>8, <1>9, <1>10, <1>11

LEMMA WaitStep ==
  ASSUME IdInv, Keeps, NEW w \in Writers, txn[w].at # "idle", txn[w].done < Len(work(w)),
         NEW ids \in [Accounts -> Ids], \A a \in Accounts : IdOK(a, ids[a])',
         NEW x \in {"select", "create"},
         x = "create" => \A a \in accounts(w) : ids[a] = NotCached => pend'[w].dict[a] = 0,
         txn' = [txn EXCEPT ![w] = [txn[w] EXCEPT !.at = x, !.ids = ids]],
         \A v \in Writers : v # w => pend'[v] = pend[v]
  PROVE  /\ txn' \in [Writers -> TxnRecs] /\ PlaceInv' /\ Advances(w)
         /\ \A v \in Writers : IdsInv(v)' /\ RowsInv(v)'
<1> DEFINE t == [txn[w] EXCEPT !.at = x, !.ids = ids]
<1>1. TypeOK /\ PlaceInv /\ txn \in [Writers -> TxnRecs]
  BY Types DEF IdInv
<1>2. t \in TxnRecs /\ t.at = x /\ t.height = txn[w].height /\ t.done = txn[w].done
      /\ t.seq = txn[w].seq /\ t.ids = ids /\ t.rows = txn[w].rows
  BY <1>1 DEF TxnRecs
<1>3. txn' = [txn EXCEPT ![w] = t]
  OBVIOUS
<1> HIDE DEF t
<1>4. txn' \in [Writers -> TxnRecs]
  BY <1>1, <1>2, <1>3
<1>5. txn'[w] = t /\ \A v \in Writers : v # w => txn'[v] = txn[v]
  BY <1>1, <1>3
<1>6. PlaceInv'
  <2>1. work(w)' = work(w) /\ accounts(w)' = accounts(w)
    BY <1>2, <1>5 DEF work, accounts
  <2>2. uncached(w)' = {a \in accounts(w) : ids[a] = NotCached}
    BY <1>2, <1>5, <2>1 DEF uncached
  <2>3. \A v \in Writers : v # w => work(v)' = work(v) /\ uncached(v)' = uncached(v)
    BY <1>5 DEF work, accounts, uncached
  <2>4. ASSUME NEW v \in Writers, v # w
        PROVE  /\ txn'[v].at # "idle" => txn'[v].height \in Heights
               /\ txn'[v].at \in {"select", "create"} => txn'[v].done < Len(work(v)')
               /\ txn'[v].at = "create" => \A a \in uncached(v)' : pend'[v].dict[a] = 0
               /\ txn'[v].at = "commit" => pend'[v].seq # NotCached
    BY <2>3, <2>4, <1>1, <1>5 DEF PlaceInv
  <2>5. txn'[w].height \in Heights /\ txn'[w].done < Len(work(w)') /\ txn'[w].at # "commit"
        /\ (txn'[w].at = "create" => \A a \in uncached(w)' : pend'[w].dict[a] = 0)
    BY <1>1, <1>2, <1>5, <2>1, <2>2 DEF PlaceInv
  <2> QED
    BY <2>4, <2>5 DEF PlaceInv
<1>7. ASSUME NEW v \in Writers
      PROVE  RowsInv(v)'
  <2>1. txn'[v].rows = txn[v].rows
    BY <1>2, <1>5
  <2> QED
    BY <2>1, <1>1, RowsKept DEF IdInv
<1>8. ASSUME NEW v \in Writers, v # w
      PROVE  IdsInv(v)'
  <2>1. txn'[v].ids = txn[v].ids
    BY <1>5, <1>8
  <2> QED
    BY <2>1, <1>1, IdsKept DEF IdInv
<1>9. IdsInv(w)'
  <2>1. txn'[w].ids = ids
    BY <1>2, <1>5
  <2> QED
    BY <2>1 DEF IdsInv
<1>10. Advances(w)
  BY <1>2, <1>5 DEF Advances
<1> QED
  BY <1>4, <1>6, <1>7, <1>8, <1>9, <1>10

LEMMA LookupIds ==
  ASSUME IdInv, NEW w \in Writers, Lookup(w)
  PROVE  IdInv' /\ Keeps /\ Advances(w)
<1>1. TypeOK /\ w[1] \in Processes /\ cache[w[1]] \in [Accounts -> Ids]
  BY WriterTypes DEF IdInv, TypeOK
<1>2. UNCHANGED <<dict, lost, raced, pend, cache>>
  BY DEF Lookup, dbVars
<1>3. Keeps /\ PendInv' /\ LostInv' /\ CacheRight'
  BY <1>2, SameIds DEF IdInv
<1>4. PICK ids \in [Accounts -> Ids] :
        ids = [a \in Accounts |-> IF a \in accounts(w) THEN cache[w[1]][a] ELSE NotCached]
  BY <1>1 DEF Ids
<1>5. ASSUME NEW a \in Accounts
      PROVE  IdOK(a, ids[a])'
  <2>1. CASE a \in accounts(w)
    <3>1. ids[a] = cache[w[1]][a] /\ ids[a] \in Ids
      BY <2>1, <1>4
    <3>2. IdOK(a, ids[a])
      BY <3>1, <1>1, CachedIds
    <3> QED
      BY <3>1, <3>2, <1>3, IdOKKept
  <2>2. CASE a \notin accounts(w)
    BY <2>2, <1>4 DEF IdOK
  <2> QED
    BY <2>1, <2>2
<1>6. txn[w].at # "idle" /\ txn[w].done < Len(work(w)) /\ accounts(w) \subseteq Accounts
  <2>1. txn[w].at # "idle" /\ txn[w].done < Len(work(w))
    BY DEF Lookup
  <2> QED
    BY <2>1, <1>1, WorkTypes DEF IdInv
<1>7. txn' = [txn EXCEPT ![w] = IF \A a \in accounts(w) : ids[a] # NotCached
                                THEN Numbered(w, ids, {})
                                ELSE [txn[w] EXCEPT !.at = "select", !.ids = ids]]
  <2>1. txn \in [Writers -> TxnRecs]
    BY <1>1, Types
  <2> QED
    BY <2>1, <1>4 DEF Lookup
<1>8. txn' \in [Writers -> TxnRecs] /\ PlaceInv' /\ Advances(w)
      /\ \A v \in Writers : IdsInv(v)' /\ RowsInv(v)'
  <2>1. CASE \A a \in accounts(w) : ids[a] # NotCached
    <3>1. txn' = [txn EXCEPT ![w] = Numbered(w, ids, {})]
      BY <2>1, <1>7
    <3> QED
      BY <3>1, <2>1, <1>2, <1>3, <1>5, <1>6, NumberedStep
  <2>2. CASE ~ \A a \in accounts(w) : ids[a] # NotCached
    <3>1. txn' = [txn EXCEPT ![w] = [txn[w] EXCEPT !.at = "select", !.ids = ids]]
      BY <2>2, <1>7
    <3>2. "select" \in {"select", "create"} /\ "select" # "create"
      OBVIOUS
    <3> QED
      BY <3>1, <3>2, <1>2, <1>3, <1>5, <1>6, WaitStep
  <2> QED
    BY <2>1, <2>2
<1>9. TypeOK'
  BY <1>1, <1>8 DEF TypeOK, TxnRecs, RowRecs, Lookup, dbVars
<1> QED
  BY <1>3, <1>8, <1>9 DEF IdInv

(* The id that a lookup in the database finds is right.                    *)
LEMMA VisibleIds ==
  ASSUME TypeOK, NEW w \in Writers, NEW a \in Accounts
  PROVE  /\ Visible(w, a) \in Ids
         /\ IdOK(a, Visible(w, a))
         /\ Visible(w, a) # NotCached =>
              /\ Visible(w, a) # 0
              /\ Visible(w, a) = dict[a] \/ Visible(w, a) = pend[w].dict[a]
         /\ Visible(w, a) = NotCached => pend[w].dict[a] = 0
<1>1. dict[a] \in Nat /\ pend[w].dict[a] \in Nat /\ NotCached \notin Nat /\ NotCached \in Ids
  BY Types DEF TypeOK, PendRecs, NotCached, Ids
<1>2. CASE dict[a] # 0
  <2>1. Visible(w, a) = dict[a]
    BY <1>2 DEF Visible
  <2> QED
    BY <1>1, <1>2, <2>1 DEF IdOK, Explained, Ids
<1>3. CASE dict[a] = 0 /\ pend[w].dict[a] # 0
  <2>1. Visible(w, a) = pend[w].dict[a]
    BY <1>3 DEF Visible
  <2> QED
    BY <1>1, <1>3, <2>1 DEF IdOK, Explained, Ids
<1>4. CASE dict[a] = 0 /\ pend[w].dict[a] = 0
  <2>1. Visible(w, a) = NotCached
    BY <1>4 DEF Visible
  <2> QED
    BY <1>1, <1>4, <2>1 DEF IdOK
<1> QED
  BY <1>2, <1>3, <1>4

LEMMA FetchIds ==
  ASSUME IdInv, NEW w \in Writers, Fetch(w)
  PROVE  IdInv' /\ Keeps /\ Advances(w)
<1>1. TypeOK /\ w[1] \in Processes /\ txn \in [Writers -> TxnRecs]
      /\ cache \in [Processes -> [Accounts -> Ids]]
  BY Types, WriterTypes DEF IdInv, TypeOK
<1>2. UNCHANGED <<dict, lost, raced, pend>>
  BY DEF Fetch, dbVars
<1>3. Keeps /\ PendInv' /\ LostInv'
  BY <1>2, SameIds DEF IdInv
<1>4. txn[w].ids \in [Accounts -> Ids] /\ txn[w].at = "select"
  BY <1>1 DEF TxnRecs, Fetch
<1>5. PICK ids \in [Accounts -> Ids] :
        ids = [a \in Accounts |-> IF a \in uncached(w) THEN Visible(w, a) ELSE txn[w].ids[a]]
  <2>1. \A a \in Accounts : Visible(w, a) \in Ids
    BY <1>1, VisibleIds
  <2> QED
    BY <2>1, <1>4
<1> DEFINE found == {a \in uncached(w) : ids[a] # NotCached}
<1>6. txn[w].at # "idle" /\ txn[w].done < Len(work(w)) /\ accounts(w) \subseteq Accounts
  <2>1. txn[w].at # "idle" /\ txn[w].done < Len(work(w))
    BY <1>4 DEF IdInv, PlaceInv
  <2> QED
    BY <2>1, <1>1, WorkTypes DEF IdInv
<1>7. uncached(w) \subseteq accounts(w)
      /\ \A a \in accounts(w) : a \notin uncached(w) => ids[a] # NotCached
  BY <1>5, <1>6 DEF uncached
<1>8. ASSUME NEW a \in Accounts
      PROVE  IdOK(a, ids[a])'
  <2>1. IdOK(a, ids[a])
    <3>1. CASE a \in uncached(w)
      BY <3>1, <1>1, <1>5, VisibleIds
    <3>2. CASE a \notin uncached(w)
      BY <3>2, <1>5 DEF IdInv, IdsInv
    <3> QED
      BY <3>1, <3>2
  <2>2. ids[a] \in Ids
    BY <1>5
  <2> QED
    BY <2>1, <2>2, <1>3, IdOKKept
<1>9. txn' = [txn EXCEPT ![w] = IF found = uncached(w) THEN Numbered(w, ids, found)
                                ELSE [txn[w] EXCEPT !.at = "create", !.ids = ids]]
      /\ cache' = [cache EXCEPT ![w[1]] =
                     [a \in Accounts |-> IF a \in found THEN ids[a] ELSE cache[w[1]][a]]]
  BY <1>1, <1>5 DEF Fetch
<1>10. txn' \in [Writers -> TxnRecs] /\ PlaceInv' /\ Advances(w)
      /\ \A v \in Writers : IdsInv(v)' /\ RowsInv(v)'
  <2>1. CASE found = uncached(w)
    <3>1. txn' = [txn EXCEPT ![w] = Numbered(w, ids, found)]
      BY <2>1, <1>9
    <3>2. \A a \in accounts(w) : ids[a] # NotCached
      BY <2>1, <1>7
    <3> QED
      BY <3>1, <3>2, <1>2, <1>3, <1>6, <1>8, NumberedStep
  <2>2. CASE found # uncached(w)
    <3>1. txn' = [txn EXCEPT ![w] = [txn[w] EXCEPT !.at = "create", !.ids = ids]]
      BY <2>2, <1>9
    <3>2. ASSUME NEW a \in accounts(w), ids[a] = NotCached
          PROVE  pend'[w].dict[a] = 0
      <4>1. a \in Accounts /\ Visible(w, a) = NotCached
        BY <3>2, <1>5, <1>6, <1>7
      <4> QED
        BY <4>1, <1>1, <1>2, VisibleIds
    <3>3. "create" \in {"select", "create"}
      OBVIOUS
    <3> QED
      BY <3>1, <3>2, <3>3, <1>2, <1>3, <1>6, <1>8, WaitStep
  <2> QED
    BY <2>1, <2>2
<1>11. cache' \in [Processes -> [Accounts -> Ids]]
  <2>1. [a \in Accounts |-> IF a \in found THEN ids[a] ELSE cache[w[1]][a]] \in [Accounts -> Ids]
    BY <1>1, <1>5
  <2> HIDE DEF found
  <2> QED
    BY <2>1, <1>1, <1>9
<1>12. ASSUME NEW p \in Processes, NEW a \in Accounts
       PROVE  LET i == cache'[p][a]
              IN  \/ i = NotCached
                  \/ i = dict'[a] /\ i # 0
                  \/ \E v \in Writers : v[1] = p /\ pend'[v].dict[a] = i /\ i # 0
                  \/ <<a, i>> \in lost'["itx"]
                  \/ a \in raced'
  <2>1. CASE p = w[1] /\ a \in found
    <3>1. cache'[p][a] = ids[a]
      BY <2>1, <1>1, <1>9
    <3>2. ids[a] = Visible(w, a) /\ Visible(w, a) # NotCached
      BY <2>1, <1>5
    <3>3. ids[a] # 0 /\ (ids[a] = dict[a] \/ ids[a] = pend[w].dict[a])
      BY <3>2, <1>1, VisibleIds
    <3> QED
      BY <3>1, <3>3, <2>1, <1>2
  <2>2. CASE ~ (p = w[1] /\ a \in found)
    <3>1. cache'[p][a] = cache[p][a]
      <4> HIDE DEF found
      <4> QED
        BY <2>2, <1>1, <1>9
    <3> QED
      BY <3>1, <1>2 DEF IdInv, CacheRight
  <2> QED
    BY <2>1, <2>2
<1>13. CacheRight'
  BY <1>12 DEF CacheRight
<1>14. TypeOK'
  BY <1>1, <1>10, <1>11 DEF TypeOK, TxnRecs, RowRecs, Fetch, dbVars
<1> QED
  BY <1>3, <1>10, <1>13, <1>14 DEF IdInv

LEMMA PlaceOf ==
  ASSUME NEW order, NEW a \in ToSet(order)
  PROVE  Place(order, a) \in DOMAIN order /\ order[Place(order, a)] = a
<1>1. \E k \in DOMAIN order : order[k] = a
  BY DEF ToSet
<1> QED
  BY <1>1 DEF Place

(* The id of the row of an account, and the one that its entry is given.   *)
RowId(order, met, a) == lastId + Cardinality({k \in 1 .. Place(order, a) : order[k] \notin met})
GivenId(order, n, a) == IF Place(order, a) <= n THEN lastId + Place(order, a) ELSE 0

(* The ids of the rows that an insert creates, and those that it leaves in *)
(* the entries: the same, if no row was there.                             *)
LEMMA CreatedIds ==
  ASSUME NEW new \in SUBSET Accounts, NEW met \in SUBSET new, lastId \in Nat,
         NEW order \in [1 .. Cardinality(new) -> new], ToSet(order) = new, NEW a \in new
  PROVE  /\ RowId(order, met, a) \in Nat /\ GivenId(order, Cardinality(new \ met), a) \in Nat
         /\ a \notin met => RowId(order, met, a) # 0
         /\ met = {} => GivenId(order, Cardinality(new \ met), a) = RowId(order, met, a)
<1> DEFINE k0 == Place(order, a)
           K  == {k \in 1 .. k0 : order[k] \notin met}
<1>1. IsFiniteSet(new) /\ Cardinality(new) \in Nat /\ Cardinality(new \ met) \in Nat
  <2>1. IsFiniteSet(new) /\ IsFiniteSet(new \ met)
    BY Constants, FS_Subset
  <2> QED
    BY <2>1, FS_CardinalityType
<1>2. k0 \in 1 .. Cardinality(new) /\ order[k0] = a
  BY PlaceOf
<1>3. k0 \in Nat /\ k0 # 0
  BY <1>1, <1>2
<1> HIDE DEF k0
<1>4. IsFiniteSet(1 .. k0) /\ Cardinality(1 .. k0) = k0
  <2>1. 1 \in Int /\ k0 \in Int /\ ~ (1 > k0) /\ k0 - 1 + 1 = k0
    BY <1>3
  <2> QED
    BY <2>1, FS_Interval
<1>5. K \subseteq 1 .. k0
  OBVIOUS
<1>6. a \notin met => k0 \in K
  BY <1>2, <1>3
<1>7. met = {} => K = 1 .. k0
  OBVIOUS
<1> HIDE DEF K
<1>8. IsFiniteSet(K) /\ Cardinality(K) \in Nat
  BY <1>4, <1>5, FS_Subset, FS_CardinalityType
<1>9. a \notin met => Cardinality(K) # 0
  BY <1>6, <1>8, FS_EmptySet
<1>10. met = {} => Cardinality(K) = k0 /\ Cardinality(new \ met) = Cardinality(new)
  <2>1. met = {} => new \ met = new
    OBVIOUS
  <2> QED
    BY <2>1, <1>4, <1>7
<1>11. /\ lastId + Cardinality(K) \in Nat
       /\ (IF k0 <= Cardinality(new \ met) THEN lastId + k0 ELSE 0) \in Nat
       /\ a \notin met => lastId + Cardinality(K) # 0
       /\ met = {} => (IF k0 <= Cardinality(new \ met) THEN lastId + k0 ELSE 0) = lastId + Cardinality(K)
  BY <1>1, <1>2, <1>3, <1>8, <1>9, <1>10
<1> QED
  BY <1>11 DEF K, k0, RowId, GivenId

LEMMA CreateIds ==
  ASSUME IdInv, NEW w \in Writers, Create(w)
  PROVE  IdInv' /\ Keeps /\ Advances(w)
<1> DEFINE new == uncached(w)
           met == {a \in new : dict[a] # 0}
<1>1. TypeOK /\ w[1] \in Processes /\ txn \in [Writers -> TxnRecs] /\ pend \in [Writers -> PendRecs]
      /\ cache \in [Processes -> [Accounts -> Ids]] /\ lastId \in Nat
      /\ dict \in [Accounts -> Nat] /\ raced \in SUBSET Accounts
  BY Types, WriterTypes DEF IdInv, TypeOK
<1>2. txn[w].at = "create" /\ UNCHANGED <<dbVars, lost, fails>>
      /\ raced' = (IF met = {} THEN raced ELSE raced \union new)
      /\ \A v \in Writers \ {w} : \A a \in new : pend[v].dict[a] = 0
  BY DEF Create
<1>3. dict' = dict /\ lost' = lost
  BY <1>2 DEF dbVars
<1>4. txn[w].at # "idle" /\ txn[w].done < Len(work(w)) /\ accounts(w) \subseteq Accounts
      /\ \A a \in new : pend[w].dict[a] = 0
  <2>1. txn[w].at # "idle" /\ txn[w].done < Len(work(w)) /\ \A a \in new : pend[w].dict[a] = 0
    BY <1>2 DEF IdInv, PlaceInv
  <2> QED
    BY <2>1, <1>1, WorkTypes DEF IdInv
<1>5. txn[w].ids \in [Accounts -> Ids] /\ pend[w].dict \in [Accounts -> Nat]
  BY <1>1 DEF TxnRecs, PendRecs
<1>6. new \in SUBSET Accounts /\ met \in SUBSET new /\ new \subseteq accounts(w)
      /\ \A a \in accounts(w) : a \notin new => txn[w].ids[a] # NotCached
  BY <1>4 DEF uncached
<1>7. PICK order \in [1 .. Cardinality(new) -> new] :
        LET inserted == Cardinality(new \ met)
            ids == [a \in Accounts |-> IF a \in new THEN Returned(order, inserted)[a] ELSE txn[w].ids[a]]
            rowId(a) == lastId + Cardinality({k \in 1 .. Place(order, a) : order[k] \notin met})
        IN  /\ ToSet(order) = new
            /\ pend' = [pend EXCEPT ![w].dict = [a \in Accounts |-> IF a \in new \ met THEN rowId(a)
                                                                   ELSE @[a]]]
            /\ lastId' = lastId + inserted
            /\ cache' = [cache EXCEPT ![w[1]] =
                           [a \in Accounts |-> IF a \in new THEN ids[a] ELSE @[a]]]
            /\ txn' = [txn EXCEPT ![w] = Numbered(w, ids, new)]
  BY DEF Create
<1> DEFINE inserted == Cardinality(new \ met)
           rowId(a) == RowId(order, met, a)
           given(a) == GivenId(order, inserted, a)
           D == [a \in Accounts |-> IF a \in new \ met THEN rowId(a) ELSE pend[w].dict[a]]
           I == [a \in Accounts |-> IF a \in new THEN given(a) ELSE txn[w].ids[a]]
<1>8. I = [a \in Accounts |-> IF a \in new THEN Returned(order, inserted)[a] ELSE txn[w].ids[a]]
  BY <1>6 DEF Returned, GivenId
<1>9. pend' = [pend EXCEPT ![w] = [pend[w] EXCEPT !.dict = D]]
      /\ cache' = [cache EXCEPT ![w[1]] = [a \in Accounts |-> IF a \in new THEN I[a] ELSE cache[w[1]][a]]]
      /\ txn' = [txn EXCEPT ![w] = Numbered(w, I, new)]
      /\ lastId' = lastId + inserted /\ ToSet(order) = new
  <2>1. /\ pend' = [pend EXCEPT ![w].dict = [a \in Accounts |-> IF a \in new \ met THEN rowId(a)
                                                               ELSE @[a]]]
        /\ cache' = [cache EXCEPT ![w[1]] = [a \in Accounts |-> IF a \in new THEN I[a] ELSE @[a]]]
        /\ txn' = [txn EXCEPT ![w] = Numbered(w, I, new)]
        /\ lastId' = lastId + inserted /\ ToSet(order) = new
    <3> HIDE DEF new, met
    <3> QED
      BY <1>7, <1>8, ZenonT(60) DEF RowId
  <2> HIDE DEF new, met, I, inserted, rowId
  <2>2. pend' = [pend EXCEPT ![w] = [pend[w] EXCEPT !.dict = D]]
    BY <1>1, <2>1
  <2>3. cache' = [cache EXCEPT ![w[1]] = [a \in Accounts |-> IF a \in new THEN I[a] ELSE cache[w[1]][a]]]
    BY <1>1, <2>1
  <2> QED
    BY <2>1, <2>2, <2>3, Zenon
<1>10. ASSUME NEW a \in new
       PROVE  /\ rowId(a) \in Nat /\ given(a) \in Nat
              /\ a \notin met => rowId(a) # 0
              /\ met = {} => given(a) = rowId(a)
  <2>1. lastId \in Nat /\ new \in SUBSET Accounts /\ met \in SUBSET new /\ ToSet(order) = new
    BY <1>1, <1>6, <1>9
  <2> HIDE DEF new, met
  <2> QED
    BY <2>1, CreatedIds, ZenonT(60)
<1>11. inserted \in Nat
  <2>1. IsFiniteSet(new \ met)
    BY <1>6, Constants, FS_Subset
  <2> QED
    BY <2>1, FS_CardinalityType
<1> HIDE DEF inserted, rowId, given
<1>12. PICK ids \in [Accounts -> Ids] : ids = I
  BY <1>5, <1>6, <1>10 DEF Ids
<1>13. D \in [Accounts -> Nat] /\ \A a \in Accounts : a \notin new \ met => D[a] = pend[w].dict[a]
  BY <1>5, <1>6, <1>10
<1>14. \A a \in new : ids[a] \in Nat /\ (a \notin met => D[a] # 0) /\ (met = {} => ids[a] = D[a])
  BY <1>6, <1>10, <1>12
<1>15. \A a \in Accounts : a \notin new => ids[a] = txn[w].ids[a]
  BY <1>12
<1>16. \A a \in met : dict[a] # 0
  OBVIOUS
<1>17. \A a \in new : a \notin met => dict[a] = 0
  OBVIOUS
<1> HIDE DEF D, I, new, met
<1>18. pend' \in [Writers -> PendRecs] /\ pend'[w].dict = D
       /\ \A v \in Writers : v # w => pend'[v] = pend[v]
  <2>1. pend[w] \in PendRecs
    BY <1>1
  <2>2. [pend[w] EXCEPT !.dict = D] \in PendRecs /\ [pend[w] EXCEPT !.dict = D].dict = D
    BY <2>1, <1>13 DEF PendRecs
  <2> QED
    BY <1>1, <1>9, <2>2
<1>19. Keeps
  <2>1. ASSUME NEW a \in Accounts, NEW i \in Nat, Explained(a, i)
        PROVE  Explained(a, i)'
    <3>1. i # 0
      BY <2>1 DEF Explained
    <3>2. CASE i = dict[a] \/ <<a, i>> \in lost["itx"] \union lost["tx"]
      BY <3>1, <3>2, <1>3 DEF Explained
    <3>3. CASE \E v \in Writers : pend[v].dict[a] = i
      <4>1. PICK v \in Writers : pend[v].dict[a] = i
        BY <3>3
      <4>2. pend'[v].dict[a] = i
        BY <4>1, <3>1, <1>4, <1>13, <1>18
      <4> QED
        BY <3>1, <4>2 DEF Explained
    <3> QED
      BY <3>2, <3>3, <2>1 DEF Explained
  <2> QED
    BY <2>1, <1>2 DEF Keeps
<1>20. PendInv'
  <2>1. ASSUME NEW v \in Writers, NEW a \in Accounts, pend'[v].dict[a] # 0
        PROVE  dict'[a] = 0 /\ \A u \in Writers \ {v} : pend'[u].dict[a] = 0
    <3>1. CASE a \in new \ met
      <4>1. dict[a] = 0 /\ \A u \in Writers \ {w} : pend'[u].dict[a] = 0
        BY <3>1, <1>2, <1>17, <1>18
      <4> QED
        BY <4>1, <2>1, <1>3
    <3>2. CASE a \notin new \ met
      <4>1. \A u \in Writers : pend'[u].dict[a] = pend[u].dict[a]
        BY <3>2, <1>13, <1>18
      <4> QED
        BY <4>1, <2>1, <1>3 DEF IdInv, PendInv
    <3> QED
      BY <3>1, <3>2
  <2> QED
    BY <2>1 DEF PendInv
<1>21. \A a \in new : (ids[a] # 0 /\ pend'[w].dict[a] = ids[a]) \/ a \in raced'
  <2>1. CASE met = {}
    BY <2>1, <1>14, <1>18
  <2>2. CASE met # {}
    BY <2>2, <1>2
  <2> QED
    BY <2>1, <2>2
<1>22. ASSUME NEW a \in Accounts, a \in accounts(w)
       PROVE  IdOK(a, ids[a])'
  <2>1. CASE a \in new
    BY <2>1, <1>21 DEF IdOK, Explained
  <2>2. CASE a \notin new
    <3>1. IdOK(a, ids[a]) /\ ids[a] \in Ids
      BY <2>2, <1>12, <1>15 DEF IdInv, IdsInv
    <3> QED
      BY <3>1, <1>19, IdOKKept
  <2> QED
    BY <2>1, <2>2
<1>23. txn' \in [Writers -> TxnRecs] /\ PlaceInv' /\ Advances(w)
      /\ \A v \in Writers : IdsInv(v)' /\ RowsInv(v)'
  <2>1. \A a \in accounts(w) : ids[a] # NotCached
    BY <1>4, <1>6, <1>14, <1>15 DEF NotCached
  <2>2. txn' = [txn EXCEPT ![w] = Numbered(w, ids, new)]
    BY <1>9, <1>12
  <2> QED
    BY <2>1, <2>2, <1>4, <1>18, <1>19, <1>22, NumberedStep
<1>24. cache' = [cache EXCEPT ![w[1]] = [a \in Accounts |-> IF a \in new THEN ids[a] ELSE cache[w[1]][a]]]
  BY <1>9, <1>12
<1>25. cache' \in [Processes -> [Accounts -> Ids]]
  <2>1. [a \in Accounts |-> IF a \in new THEN ids[a] ELSE cache[w[1]][a]] \in [Accounts -> Ids]
    BY <1>1
  <2> QED
    BY <2>1, <1>1, <1>24
<1>26. ASSUME NEW p \in Processes, NEW a \in Accounts
       PROVE  LET i == cache'[p][a]
              IN  \/ i = NotCached
                  \/ i = dict'[a] /\ i # 0
                  \/ \E v \in Writers : v[1] = p /\ pend'[v].dict[a] = i /\ i # 0
                  \/ <<a, i>> \in lost'["itx"]
                  \/ a \in raced'
  <2>1. CASE p = w[1] /\ a \in new
    <3>1. cache'[p][a] = ids[a]
      BY <2>1, <1>1, <1>24
    <3> QED
      BY <3>1, <2>1, <1>21
  <2>2. CASE ~ (p = w[1] /\ a \in new)
    <3>1. cache'[p][a] = cache[p][a]
      BY <2>2, <1>1, <1>24
    <3>2. ASSUME NEW v \in Writers, pend[v].dict[a] # 0
          PROVE  pend'[v].dict[a] = pend[v].dict[a]
      BY <3>2, <1>4, <1>13, <1>18
    <3>3. raced \subseteq raced'
      BY <1>2
    <3> QED
      BY <3>1, <3>2, <3>3, <1>3 DEF IdInv, CacheRight
  <2> QED
    BY <2>1, <2>2
<1>27. CacheRight'
  BY <1>26 DEF CacheRight
<1>28. LostInv'
  BY <1>3 DEF IdInv, LostInv
<1>29. TypeOK'
  <2>1. lastId' \in Nat /\ raced' \in SUBSET Accounts
    BY <1>1, <1>2, <1>6, <1>9, <1>11
  <2> QED
    BY <2>1, <1>1, <1>2, <1>18, <1>23, <1>25 DEF TypeOK, TxnRecs, PendRecs, RowRecs, dbVars
<1> QED
  BY <1>20, <1>23, <1>27, <1>28, <1>29, <1>19 DEF IdInv
-----------------------------------------------------------------------------
(* The transactions of S end, the others are left alone.                   *)
LEMMA EndStep ==
  ASSUME IdInv, Keeps, NEW S \in SUBSET Writers, NEW h \in [S -> Nat \ {0}],
         txn' = [v \in Writers |-> IF v \in S THEN idle(h[v]) ELSE txn[v]],
         pend' = [v \in Writers |-> IF v \in S THEN noWrites ELSE pend[v]]
  PROVE  /\ txn' \in [Writers -> TxnRecs] /\ pend' \in [Writers -> PendRecs]
         /\ PlaceInv'
         /\ \A v \in Writers : IdsInv(v)' /\ RowsInv(v)'
<1>1. TypeOK /\ PlaceInv /\ txn \in [Writers -> TxnRecs] /\ pend \in [Writers -> PendRecs]
  BY Types DEF IdInv
<1>2. \A v \in S : idle(h[v]) \in TxnRecs /\ idle(h[v]).at = "idle" /\ idle(h[v]).ids = noIds /\ idle(h[v]).rows = <<>>
  BY NoTypes DEF idle
<1>3. \A v \in Writers : v \notin S => txn'[v] = txn[v] /\ pend'[v] = pend[v]
  OBVIOUS
<1>4. \A v \in S : txn'[v] \in TxnRecs /\ txn'[v].at = "idle" /\ txn'[v].ids = noIds /\ txn'[v].rows = <<>>
  BY <1>2
<1>5. txn' \in [Writers -> TxnRecs] /\ pend' \in [Writers -> PendRecs]
  BY <1>1, <1>2, NoTypes
<1>6. PlaceInv'
  BY <1>1, <1>3, <1>4 DEF PlaceInv, work, uncached, accounts
<1>7. ASSUME NEW v \in Writers
      PROVE  IdsInv(v)' /\ RowsInv(v)'
  <2>1. txn'[v].ids = txn[v].ids \/ txn'[v].ids = noIds
    BY <1>3, <1>4
  <2>2. txn'[v].rows = txn[v].rows \/ txn'[v].rows = <<>>
    BY <1>3, <1>4
  <2> QED
    BY <2>1, <2>2, <1>1, IdsKept, RowsKept DEF IdInv
<1> QED
  BY <1>5, <1>6, <1>7

LEMMA OneEnds ==
  ASSUME TypeOK, NEW w \in Writers,
         pend' = [pend EXCEPT ![w] = noWrites], txn' = [txn EXCEPT ![w] = idle(@.height + 1)]
  PROVE  \E h \in [{w} -> Nat \ {0}] :
           /\ txn' = [v \in Writers |-> IF v \in {w} THEN idle(h[v]) ELSE txn[v]]
           /\ pend' = [v \in Writers |-> IF v \in {w} THEN noWrites ELSE pend[v]]
<1> DEFINE h == [v \in {w} |-> txn[w].height + 1]
<1>1. txn \in [Writers -> TxnRecs] /\ pend \in [Writers -> PendRecs] /\ txn[w].height \in Nat \ {0}
  BY Types DEF TxnRecs
<1>2. h \in [{w} -> Nat \ {0}]
  BY <1>1
<1>3. h[w] = txn[w].height + 1
  OBVIOUS
<1> HIDE DEF h
<1>4. txn' = [v \in Writers |-> IF v \in {w} THEN idle(h[v]) ELSE txn[v]]
  BY <1>1, <1>3
<1>5. pend' = [v \in Writers |-> IF v \in {w} THEN noWrites ELSE pend[v]]
  BY <1>1
<1> QED
  BY <1>2, <1>4, <1>5

LEMMA NoWritesDict ==
  \A a \in Accounts : noWrites.dict[a] = 0
  BY DEF noWrites

LEMMA CommitTypes ==
  ASSUME IdInv, NEW w \in Writers, Commit(w)
  PROVE  /\ blocks' \in SUBSET Heights /\ dict' \in [Accounts -> Nat] /\ seqOf' \in [Entries -> Nat]
         /\ edges' \in [Kinds -> SUBSET (Nat \X Nat)] /\ seqInfo' \in [Kinds -> Nat]
<1>1. TypeOK /\ pend[w] \in PendRecs /\ Kind(w) \in Kinds
  BY Types, WriterTypes DEF IdInv
<1>2. pend[w].dict \in [Accounts -> Nat] /\ pend[w].rows \in SUBSET RowRecs
      /\ pend[w].edges \in SUBSET (Nat \X Nat) /\ pend[w].seq \in Nat
  <2>1. pend[w].seq # NotCached
    BY DEF Commit, IdInv, PlaceInv
  <2> QED
    BY <1>1, <2>1 DEF PendRecs, Ids
<1>3. blocks' \in SUBSET Heights
  <2>1. txn[w].height \in Heights
    BY DEF Commit, IdInv, PlaceInv
  <2> QED
    BY <1>1, <2>1 DEF Commit, TypeOK
<1>4. dict' \in [Accounts -> Nat]
  BY <1>1, <1>2 DEF Commit, TypeOK
<1>5. seqOf' \in [Entries -> Nat]
  <2>1. ASSUME NEW e \in Entries, e \in pendingRows(w)
        PROVE  (CHOOSE r \in pend[w].rows : r.entry = e).seq \in Nat
    <3>1. \E r \in pend[w].rows : r.entry = e
      BY <2>1 DEF pendingRows
    <3>2. (CHOOSE r \in pend[w].rows : r.entry = e) \in RowRecs
      BY <3>1, <1>2
    <3> QED
      BY <3>2 DEF RowRecs
  <2> QED
    BY <1>1, <2>1 DEF Commit, TypeOK
<1>6. edges' \in [Kinds -> SUBSET (Nat \X Nat)]
  BY <1>1, <1>2 DEF Commit, TypeOK
<1>7. seqInfo' \in [Kinds -> Nat]
  BY <1>1, <1>2 DEF Commit, TypeOK
<1> QED
  BY <1>3, <1>4, <1>5, <1>6, <1>7

LEMMA CommitIds ==
  ASSUME IdInv, NEW w \in Writers, Commit(w)
  PROVE  IdInv' /\ Keeps
<1>1. TypeOK /\ txn \in [Writers -> TxnRecs] /\ pend \in [Writers -> PendRecs]
  BY Types DEF IdInv
<1>2. UNCHANGED <<lastId, cache, lost, raced, fails>>
      /\ dict' = [a \in Accounts |-> IF pend[w].dict[a] # 0 THEN pend[w].dict[a] ELSE dict[a]]
      /\ pend' = [pend EXCEPT ![w] = noWrites] /\ txn' = [txn EXCEPT ![w] = idle(@.height + 1)]
  BY DEF Commit
<1>3. pend'[w] = noWrites /\ \A v \in Writers : v # w => pend'[v] = pend[v]
  BY <1>1, <1>2
<1>4. \A a \in Accounts :
        /\ pend[w].dict[a] # 0 => dict[a] = 0 /\ dict'[a] = pend[w].dict[a]
        /\ pend[w].dict[a] = 0 => dict'[a] = dict[a]
  BY <1>2 DEF IdInv, PendInv
<1>5. Keeps
  <2>1. ASSUME NEW a \in Accounts, NEW i \in Nat, Explained(a, i)
        PROVE  Explained(a, i)'
    <3>1. i # 0
      BY <2>1 DEF Explained
    <3>2. CASE i = dict[a] \/ <<a, i>> \in lost["itx"] \union lost["tx"]
      BY <3>1, <3>2, <1>2, <1>4 DEF Explained
    <3>3. CASE \E v \in Writers : pend[v].dict[a] = i
      <4>1. PICK v \in Writers : pend[v].dict[a] = i
        BY <3>3
      <4>2. dict'[a] = i \/ pend'[v].dict[a] = i
        BY <4>1, <3>1, <1>3, <1>4
      <4> QED
        BY <3>1, <4>2 DEF Explained
    <3> QED
      BY <3>2, <3>3, <2>1 DEF Explained
  <2> QED
    BY <2>1, <1>2 DEF Keeps
<1>6. PendInv'
  BY <1>3, <1>4, NoWritesDict DEF IdInv, PendInv
<1>7. LostInv'
  BY <1>2 DEF IdInv, LostInv
<1>8. ASSUME NEW p \in Processes, NEW a \in Accounts
      PROVE  LET i == cache'[p][a]
             IN  \/ i = NotCached
                 \/ i = dict'[a] /\ i # 0
                 \/ \E v \in Writers : v[1] = p /\ pend'[v].dict[a] = i /\ i # 0
                 \/ <<a, i>> \in lost'["itx"]
                 \/ a \in raced'
  <2>1. cache'[p][a] = cache[p][a]
    BY <1>2
  <2>2. CASE \E v \in Writers : v[1] = p /\ pend[v].dict[a] = cache[p][a] /\ cache[p][a] # 0
    <3>1. PICK v \in Writers : v[1] = p /\ pend[v].dict[a] = cache[p][a] /\ cache[p][a] # 0
      BY <2>2
    <3>2. dict'[a] = cache[p][a] \/ pend'[v].dict[a] = cache[p][a]
      BY <3>1, <1>3, <1>4
    <3> QED
      BY <3>1, <3>2, <2>1
  <2>3. CASE ~ \E v \in Writers : v[1] = p /\ pend[v].dict[a] = cache[p][a] /\ cache[p][a] # 0
    BY <2>1, <2>3, <1>2, <1>4 DEF IdInv, CacheRight
  <2> QED
    BY <2>2, <2>3
<1>9. CacheRight'
  BY <1>8 DEF CacheRight
<1>10. /\ txn' \in [Writers -> TxnRecs] /\ pend' \in [Writers -> PendRecs]
       /\ PlaceInv'
       /\ \A v \in Writers : IdsInv(v)' /\ RowsInv(v)'
  <2>1. PICK h \in [{w} -> Nat \ {0}] :
          /\ txn' = [v \in Writers |-> IF v \in {w} THEN idle(h[v]) ELSE txn[v]]
          /\ pend' = [v \in Writers |-> IF v \in {w} THEN noWrites ELSE pend[v]]
    BY <1>1, <1>2, OneEnds
  <2>2. {w} \in SUBSET Writers
    OBVIOUS
  <2> QED
    BY <1>5, <2>1, <2>2, EndStep
<1>11. TypeOK'
  BY <1>1, <1>2, <1>10, CommitTypes DEF TypeOK, TxnRecs, PendRecs, RowRecs
<1> QED
  BY <1>6, <1>7, <1>9, <1>10, <1>11, <1>5 DEF IdInv

(* What a failure rolls back is explained by it.                           *)
LEMMA RolledBack ==
  ASSUME TypeOK, LostInv, NEW S \in SUBSET Writers, NEW k \in Kinds,
         lost' = [lost EXCEPT ![k] = @ \union rolledBack(S)],
         UNCHANGED <<dict, raced>>,
         \A v \in Writers : v \notin S => pend'[v] = pend[v],
         \A v \in S : pend'[v] = noWrites
  PROVE  /\ lost' \in [Kinds -> SUBSET (Accounts \X Nat)]
         /\ LostInv'
         /\ \A v \in S, a \in Accounts : pend[v].dict[a] # 0 => <<a, pend[v].dict[a]>> \in lost'[k]
         /\ \A l \in Kinds : lost[l] \subseteq lost'[l]
         /\ Keeps
         /\ PendInv => PendInv'
<1>1. pend \in [Writers -> PendRecs] /\ lost \in [Kinds -> SUBSET (Accounts \X Nat)]
  BY Types DEF TypeOK
<1>2. \A v \in Writers, a \in Accounts : pend[v].dict[a] \in Nat
  BY <1>1 DEF PendRecs
<1>3. rolledBack(S) \in SUBSET (Accounts \X Nat)
  BY <1>2 DEF rolledBack
<1>4. \A x \in rolledBack(S) : x[2] # 0
  BY <1>2 DEF rolledBack
<1>5. \A v \in S, a \in Accounts : pend[v].dict[a] # 0 => <<a, pend[v].dict[a]>> \in rolledBack(S)
  BY DEF rolledBack
<1>6. lost'[k] = lost[k] \union rolledBack(S) /\ \A l \in Kinds : l # k => lost'[l] = lost[l]
  BY <1>1
<1>7. lost' \in [Kinds -> SUBSET (Accounts \X Nat)]
  BY <1>1, <1>3
<1>8. LostInv'
  BY <1>4, <1>6 DEF LostInv
<1>9. \A l \in Kinds : lost[l] \subseteq lost'[l]
  BY <1>6
<1>10. \A v \in S, a \in Accounts : pend[v].dict[a] # 0 => <<a, pend[v].dict[a]>> \in lost'[k]
  BY <1>5, <1>6
<1>11. Keeps
  <2>1. ASSUME NEW a \in Accounts, NEW i \in Nat, Explained(a, i)
        PROVE  Explained(a, i)'
    <3>1. i # 0 /\ "tx" \in Kinds /\ "itx" \in Kinds /\ k \in {"tx", "itx"}
      BY <2>1 DEF Explained, Kinds
    <3>2. CASE i = dict[a]
      BY <3>1, <3>2 DEF Explained
    <3>3. CASE <<a, i>> \in lost["itx"] \union lost["tx"]
      BY <3>1, <3>3, <1>9 DEF Explained
    <3>4. CASE \E v \in Writers : pend[v].dict[a] = i
      <4>1. PICK v \in Writers : pend[v].dict[a] = i
        BY <3>4
      <4>2. CASE v \in S
        <5>1. <<a, i>> \in lost'["itx"] \union lost'["tx"]
          BY <4>1, <4>2, <3>1, <1>10
        <5> QED
          BY <5>1, <3>1 DEF Explained
      <4>3. CASE v \notin S
        BY <4>1, <4>3, <3>1 DEF Explained
      <4> QED
        BY <4>2, <4>3
    <3> QED
      BY <3>2, <3>3, <3>4, <2>1 DEF Explained
  <2> QED
    BY <2>1 DEF Keeps
<1>12. PendInv => PendInv'
  BY NoWritesDict DEF PendInv
<1> QED
  BY <1>7, <1>8, <1>9, <1>10, <1>11, <1>12

LEMMA ConsumeFailIds ==
  ASSUME IdInv, NEW w \in Writers, ConsumeFail(w)
  PROVE  IdInv' /\ Keeps
<1>1. TypeOK /\ LostInv /\ PendInv /\ txn \in [Writers -> TxnRecs] /\ pend \in [Writers -> PendRecs]
  BY Types DEF IdInv
<1>2. UNCHANGED <<dbVars, lastId, cache, raced>> /\ dict' = dict /\ fails' = fails + 1
      /\ pend' = [pend EXCEPT ![w] = noWrites] /\ txn' = [txn EXCEPT ![w] = idle(@.height + 1)]
      /\ lost' = [lost EXCEPT !["itx"] = @ \union rolledBack({w})]
  BY DEF ConsumeFail, dbVars
<1>3. pend'[w] = noWrites /\ \A v \in Writers : v # w => pend'[v] = pend[v]
  BY <1>1, <1>2
<1>4. {w} \in SUBSET Writers /\ "itx" \in Kinds
      /\ (\A v \in Writers : v \notin {w} => pend'[v] = pend[v]) /\ \A v \in {w} : pend'[v] = noWrites
  BY <1>3 DEF Kinds
<1>5. /\ lost' \in [Kinds -> SUBSET (Accounts \X Nat)] /\ LostInv' /\ Keeps /\ PendInv'
      /\ \A a \in Accounts : pend[w].dict[a] # 0 => <<a, pend[w].dict[a]>> \in lost'["itx"]
      /\ lost["itx"] \subseteq lost'["itx"]
  BY <1>1, <1>2, <1>4, RolledBack
<1>6. ASSUME NEW p \in Processes, NEW a \in Accounts
      PROVE  LET i == cache'[p][a]
             IN  \/ i = NotCached
                 \/ i = dict'[a] /\ i # 0
                 \/ \E v \in Writers : v[1] = p /\ pend'[v].dict[a] = i /\ i # 0
                 \/ <<a, i>> \in lost'["itx"]
                 \/ a \in raced'
  <2>1. cache'[p][a] = cache[p][a]
    BY <1>2
  <2>2. CASE \E v \in Writers : v[1] = p /\ pend[v].dict[a] = cache[p][a] /\ cache[p][a] # 0
    <3>1. PICK v \in Writers : v[1] = p /\ pend[v].dict[a] = cache[p][a] /\ cache[p][a] # 0
      BY <2>2
    <3>2. <<a, cache[p][a]>> \in lost'["itx"] \/ pend'[v].dict[a] = cache[p][a]
      BY <3>1, <1>3, <1>5
    <3> QED
      BY <3>1, <3>2, <2>1
  <2>3. CASE ~ \E v \in Writers : v[1] = p /\ pend[v].dict[a] = cache[p][a] /\ cache[p][a] # 0
    BY <2>1, <2>3, <1>2, <1>5 DEF IdInv, CacheRight
  <2> QED
    BY <2>2, <2>3
<1>7. CacheRight'
  BY <1>6 DEF CacheRight
<1>8. /\ txn' \in [Writers -> TxnRecs] /\ pend' \in [Writers -> PendRecs]
      /\ PlaceInv'
      /\ \A v \in Writers : IdsInv(v)' /\ RowsInv(v)'
  <2>1. PICK h \in [{w} -> Nat \ {0}] :
          /\ txn' = [v \in Writers |-> IF v \in {w} THEN idle(h[v]) ELSE txn[v]]
          /\ pend' = [v \in Writers |-> IF v \in {w} THEN noWrites ELSE pend[v]]
    BY <1>1, <1>2, OneEnds
  <2> QED
    BY <1>4, <1>5, <2>1, EndStep
<1>9. TypeOK'
  <2>1. UNCHANGED <<dbVars, lastId, cache, raced>> /\ fails' \in Nat
    BY <1>1, <1>2 DEF TypeOK
  <2> QED
    BY <2>1, <1>1, <1>5, <1>8 DEF TypeOK, TxnRecs, PendRecs, RowRecs, dbVars
<1> QED
  BY <1>5, <1>7, <1>8, <1>9 DEF IdInv

(* A process that starts again finds where to go on.                       *)
LEMMA RestartHeight ==
  ASSUME TypeOK, NEW v \in Writers
  PROVE  \E h \in Nat \ {0} : restart(v) = idle(h)
<1> DEFINE S == {g \in Heights : \E e \in ToSet(Work["itx"][g]) : seqOf[e] # 0}
<1>1. blocks \in SUBSET Nat /\ S \in SUBSET Nat /\ MaxHeight \in Nat
      /\ (\A h \in blocks : h <= MaxHeight) /\ \A h \in S : h <= MaxHeight
  <2>1. MaxHeight \in Nat /\ blocks \subseteq Heights /\ S \subseteq Heights
    BY Constants DEF TypeOK
  <2>2. \A h \in Heights : h \in Nat /\ h <= MaxHeight
    BY <2>1 DEF Heights
  <2> QED
    BY <2>1, <2>2
<1> HIDE DEF S
<1>2. Highest(blocks) \in Nat /\ Highest(S) \in Nat
  BY <1>1, HighestOf
<1>3. restart(v) = idle(1 + IF Kind(v) = "tx" THEN Highest(blocks) ELSE Highest(S))
  BY DEF restart, S
<1>4. (1 + IF Kind(v) = "tx" THEN Highest(blocks) ELSE Highest(S)) \in Nat \ {0}
  BY <1>2
<1> QED
  BY <1>3, <1>4

LEMMA CollectFailIds ==
  ASSUME IdInv, NEW w \in Writers, CollectFail(w)
  PROVE  IdInv' /\ Keeps
<1> DEFINE own == {v \in Writers : v[1] = w[1]}
<1>1. TypeOK /\ LostInv /\ PendInv /\ txn \in [Writers -> TxnRecs] /\ pend \in [Writers -> PendRecs]
      /\ cache \in [Processes -> [Accounts -> Ids]] /\ w[1] \in Processes
  BY Types, WriterTypes DEF IdInv, TypeOK
<1>2. UNCHANGED <<dbVars, lastId, raced>> /\ dict' = dict /\ fails' = fails + 1
      /\ lost' = [lost EXCEPT !["tx"] = @ \union rolledBack(own)]
      /\ pend' = [v \in Writers |-> IF v \in own THEN noWrites ELSE pend[v]]
      /\ txn' = [v \in Writers |-> IF v \in own THEN restart(v) ELSE txn[v]]
      /\ cache' = [cache EXCEPT ![w[1]] = noIds]
  BY DEF CollectFail, dbVars
<1>3. own \in SUBSET Writers /\ "tx" \in Kinds /\ \A v \in Writers : v \in own <=> v[1] = w[1]
  BY DEF Kinds
<1> HIDE DEF own
<1>4. (\A v \in Writers : v \notin own => pend'[v] = pend[v]) /\ \A v \in own : pend'[v] = noWrites
  BY <1>2, <1>3
<1>5. /\ lost' \in [Kinds -> SUBSET (Accounts \X Nat)] /\ LostInv' /\ Keeps /\ PendInv'
      /\ \A l \in Kinds : lost[l] \subseteq lost'[l]
  BY <1>1, <1>2, <1>3, <1>4, RolledBack
<1>6. \A a \in Accounts : cache'[w[1]][a] = NotCached
  BY <1>1, <1>2 DEF noIds
<1>7. \A p \in Processes : p # w[1] => cache'[p] = cache[p]
  BY <1>1, <1>2
<1>8. CacheRight'
  <2>1. ASSUME NEW p \in Processes, NEW a \in Accounts
        PROVE  LET i == cache'[p][a]
               IN  \/ i = NotCached
                   \/ i = dict'[a] /\ i # 0
                   \/ \E v \in Writers : v[1] = p /\ pend'[v].dict[a] = i /\ i # 0
                   \/ <<a, i>> \in lost'["itx"]
                   \/ a \in raced'
    <3>1. CASE p = w[1]
      BY <3>1, <1>6
    <3>2. CASE p # w[1]
      <4>1. cache'[p][a] = cache[p][a] /\ \A v \in Writers : v[1] = p => pend'[v] = pend[v]
        BY <3>2, <1>3, <1>4, <1>7
      <4>2. lost["itx"] \subseteq lost'["itx"]
        BY <1>5 DEF Kinds
      <4> QED
        BY <4>1, <4>2, <1>2 DEF IdInv, CacheRight
    <3> QED
      BY <3>1, <3>2
  <2> QED
    BY <2>1 DEF CacheRight
<1>9. /\ txn' \in [Writers -> TxnRecs] /\ pend' \in [Writers -> PendRecs]
      /\ PlaceInv'
      /\ \A v \in Writers : IdsInv(v)' /\ RowsInv(v)'
  <2> DEFINE h == [v \in own |-> CHOOSE g \in Nat \ {0} : restart(v) = idle(g)]
  <2>1. \A v \in own : \E g \in Nat \ {0} : restart(v) = idle(g)
    BY <1>1, <1>3, RestartHeight
  <2>2. h \in [own -> Nat \ {0}] /\ \A v \in own : restart(v) = idle(h[v])
    BY <2>1
  <2>3. PICK f \in [own -> Nat \ {0}] : \A v \in own : restart(v) = idle(f[v])
    <3> HIDE DEF h
    <3> QED
      BY <2>2
  <2>4. PICK S \in SUBSET Writers : S = own
    BY <1>3
  <2>5. f \in [S -> Nat \ {0}]
      /\ txn' = [v \in Writers |-> IF v \in S THEN idle(f[v]) ELSE txn[v]]
      /\ pend' = [v \in Writers |-> IF v \in S THEN noWrites ELSE pend[v]]
    BY <2>3, <2>4, <1>2
  <2> QED
    BY <1>5, <2>4, <2>5, EndStep
<1>10. cache' \in [Processes -> [Accounts -> Ids]]
  BY <1>1, <1>2, NoTypes
<1>11. TypeOK'
  <2>1. UNCHANGED <<dbVars, lastId, raced>> /\ fails' \in Nat
    BY <1>1, <1>2 DEF TypeOK
  <2> QED
    BY <2>1, <1>1, <1>5, <1>9, <1>10 DEF TypeOK, TxnRecs, PendRecs, RowRecs, dbVars
<1> QED
  BY <1>5, <1>8, <1>9, <1>11 DEF IdInv

LEMMA EvictIds ==
  ASSUME IdInv, NEW p \in Processes, NEW a \in Accounts, Evict(p, a)
  PROVE  IdInv' /\ Keeps
<1>1. TypeOK /\ cache \in [Processes -> [Accounts -> Ids]]
  BY DEF IdInv, TypeOK
<1>2. UNCHANGED <<dbVars, lastId, txn, pend, lost, raced, fails>> /\ dict' = dict
      /\ cache' = [cache EXCEPT ![p] = [cache[p] EXCEPT ![a] = NotCached]]
  BY <1>1 DEF Evict, dbVars
<1>3. Keeps /\ PendInv' /\ LostInv'
  BY <1>2, SameIds DEF IdInv
<1>4. [cache[p] EXCEPT ![a] = NotCached] \in [Accounts -> Ids]
  BY <1>1 DEF Ids
<1>5. cache' \in [Processes -> [Accounts -> Ids]]
  BY <1>1, <1>2, <1>4
<1>6. \A q \in Processes, b \in Accounts : cache'[q][b] = cache[q][b] \/ cache'[q][b] = NotCached
  BY <1>1, <1>2
<1>7. CacheRight'
  BY <1>2, <1>6 DEF IdInv, CacheRight
<1>8. TypeOK'
  BY <1>1, <1>2, <1>5 DEF TypeOK, dbVars
<1>9. PlaceInv'
  BY <1>2 DEF IdInv, PlaceInv, work, uncached, accounts
<1>10. ASSUME NEW v \in Writers
       PROVE  IdsInv(v)' /\ RowsInv(v)'
  <2>1. txn'[v].ids = txn[v].ids /\ txn'[v].rows = txn[v].rows
    BY <1>2
  <2> QED
    BY <2>1, <1>1, <1>3, IdsKept, RowsKept DEF IdInv
<1> QED
  BY <1>3, <1>7, <1>8, <1>9, <1>10 DEF IdInv

LEMMA StutterIds ==
  ASSUME IdInv, UNCHANGED vars
  PROVE  IdInv' /\ Keeps
<1>1. UNCHANGED <<dbVars, lastId, cache, txn, pend, lost, raced, fails>> /\ dict' = dict
  BY DEF vars, dbVars
<1>2. TypeOK' /\ PlaceInv' /\ CacheRight'
  BY <1>1 DEF IdInv, TypeOK, PlaceInv, CacheRight, work, uncached, accounts, dbVars
<1>3. Keeps /\ PendInv' /\ LostInv'
  BY <1>1, SameIds DEF IdInv
<1>4. ASSUME NEW v \in Writers
      PROVE  IdsInv(v)' /\ RowsInv(v)'
  <2>1. txn'[v].ids = txn[v].ids /\ txn'[v].rows = txn[v].rows
    BY <1>1
  <2> QED
    BY <2>1, <1>3, IdsKept, RowsKept DEF IdInv
<1> QED
  BY <1>2, <1>3, <1>4 DEF IdInv
-----------------------------------------------------------------------------
LEMMA InitIds == Init => IdInv
<1> SUFFICES ASSUME Init PROVE IdInv
  OBVIOUS
<1>1. /\ txn \in [Writers -> TxnRecs] /\ pend \in [Writers -> PendRecs]
      /\ cache \in [Processes -> [Accounts -> Ids]]
  BY NoTypes DEF Init
<1>2. TypeOK
  BY <1>1 DEF Init, TypeOK, TxnRecs, PendRecs, RowRecs, Kinds
<1>3. \A w \in Writers : txn[w].at = "idle" /\ txn[w].ids = noIds /\ txn[w].rows = <<>>
                         /\ pend[w].dict = [a \in Accounts |-> 0]
  BY DEF Init, idle, noWrites
<1>4. PlaceInv /\ PendInv
  BY <1>3 DEF PlaceInv, PendInv
<1>5. LostInv /\ CacheRight
  BY DEF Init, LostInv, CacheRight, noIds
<1>6. \A w \in Writers : IdsInv(w) /\ RowsInv(w)
  BY <1>3 DEF IdsInv, RowsInv, IdOK, noIds
<1> QED
  BY <1>2, <1>4, <1>5, <1>6 DEF IdInv

LEMMA StepIds == IdInv /\ [Next]_vars => IdInv' /\ Keeps
<1> SUFFICES ASSUME IdInv, [Next]_vars PROVE IdInv' /\ Keeps
  OBVIOUS
<1>1. ASSUME NEW w \in Writers, Write(w)
      PROVE  IdInv' /\ Keeps
  BY <1>1, CollectBeginIds, InsertBlockIds, ConsumeBeginIds, GetSeqInfoIds, LookupIds, FetchIds,
     CreateIds, InsertRowsIds, UpdateSeqInfoIds, CommitIds, ConsumeFailIds, CollectFailIds DEF Write
<1>2. ASSUME NEW p \in Processes, NEW a \in Accounts, Evict(p, a)
      PROVE  IdInv' /\ Keeps
  BY <1>2, EvictIds
<1>3. CASE UNCHANGED vars
  BY <1>3, StutterIds
<1> QED
  BY <1>1, <1>2, <1>3 DEF Next

LEMMA IdsAreRight == Spec => []IdInv
  BY InitIds, StepIds, PTL DEF Spec

(* The variables keep their types, with any number of indexers on the      *)
(* database (collector, internal transaction extension, util/cache).       *)
THEOREM TxCollectTypes == Spec => []TypeOK
<1>1. IdInv => TypeOK
  BY DEF IdInv
<1> QED
  BY IdsAreRight, <1>1, PTL

(* Whatever collectors and consumers of any number of processes look up,   *)
(* create, commit and roll back, an id that a process has in its cache is  *)
(* the one of the account, or its transaction of internal transactions     *)
(* failed, or its insert met a row (GetOrCreateAccountIds).                *)
THEOREM CacheIsRight == Spec => []CacheRight
<1>1. IdInv => CacheRight
  BY DEF IdInv
<1> QED
  BY IdsAreRight, <1>1, PTL
-----------------------------------------------------------------------------
(* From here on there is one indexer: a kind has one writer.               *)
LEMMA OneWriter ==
  ASSUME OneIndexer, NEW v \in Writers, NEW w \in Writers
  PROVE  v[1] = w[1] /\ (Kind(v) = Kind(w) => v = w)
<1>1. v = <<v[1], v[2]>> /\ w = <<w[1], w[2]>>
  BY DEF Writers
<1>2. v[1] = w[1]
  BY WriterTypes DEF OneIndexer
<1> QED
  BY <1>1, <1>2 DEF Kind

LEMMA SameTables ==
  ASSUME UNCHANGED dbVars
  PROVE  /\ \A k, t, p : NumberOK(k, t, p)' = NumberOK(k, t, p)
         /\ \A k : SeqInv(k)' = SeqInv(k)
         /\ BlockInv' = BlockInv
<1>1. seqOf' = seqOf /\ blocks' = blocks /\ seqInfo' = seqInfo /\ edges' = edges
  BY DEF dbVars
<1>2. \A k, t, p : NumberOK(k, t, p)' = NumberOK(k, t, p)
  BY <1>1 DEF NumberOK, Above, Counted, WillWrite
<1>3. \A k : SeqInv(k)' = SeqInv(k)
  BY <1>1 DEF SeqInv, rowsOf
<1>4. BlockInv' = BlockInv
  BY <1>1 DEF BlockInv
<1> QED
  BY <1>2, <1>3, <1>4

(* The step of one transaction, the tables being left alone.               *)
LEMMA NumberStep ==
  ASSUME OneInv, NEW w \in Writers, NEW t, NEW p, UNCHANGED dbVars,
         txn'[w] = t, pend'[w] = p, NumberOK(Kind(w), t, p),
         \A v \in Writers : v # w => txn'[v] = txn[v] /\ pend'[v] = pend[v]
  PROVE  \A v \in Writers : NumberInv(v)'
<1>1. ASSUME NEW v \in Writers, NEW s, NEW q, NumberOK(Kind(v), s, q), txn'[v] = s, pend'[v] = q
      PROVE  NumberInv(v)'
  <2>1. NumberOK(Kind(v), s, q)'
    BY <1>1, SameTables
  <2> QED
    BY <2>1, <1>1 DEF NumberInv
<1>2. ASSUME NEW v \in Writers, v # w
      PROVE  NumberInv(v)'
  <2>1. PICK s, q : s = txn[v] /\ q = pend[v]
    OBVIOUS
  <2>2. NumberOK(Kind(v), s, q)
    BY <2>1 DEF OneInv, NumberInv
  <2>3. txn'[v] = s /\ pend'[v] = q
    BY <2>1, <1>2
  <2> QED
    BY <2>2, <2>3, <1>1
<1> QED
  BY <1>1, <1>2

(* The ids that the edges of a row have.                                   *)
EdgeIds(k, e) == {x[1] : x \in {y \in edges[k] : y[2] = seqOf[e]}}

LEMMA EdgesRightIs ==
  EdgesRight <=> \A k \in Kinds : \A e \in rowsOf(k) : RightIds(e, EdgeIds(k, e))
  BY DEF EdgesRight, RightIds, EdgeIds

(* The edges of a row that was there stay right.                           *)
LEMMA EdgesOfRowKept ==
  ASSUME TypeOK, Keeps, EdgesRight, NEW k \in Kinds, NEW e \in rowsOf(k), EdgeIds(k, e)' = EdgeIds(k, e)
  PROVE  RightIds(e, EdgeIds(k, e))'
<1>1. e \in Entries /\ EdgeIds(k, e) \in SUBSET Nat
  <2>1. edges[k] \in SUBSET (Nat \X Nat)
    BY DEF TypeOK
  <2> QED
    BY <2>1 DEF rowsOf, EdgeIds
<1>2. PICK ids \in SUBSET Nat : ids = EdgeIds(k, e)
  BY <1>1
<1>3. RightIds(e, ids)
  BY <1>2, EdgesRightIs
<1>4. RightIds(e, ids)'
  BY <1>1, <1>3, RightIdsKept
<1>5. ids = EdgeIds(k, e)'
  BY <1>2
<1> QED
  BY <1>4, <1>5

LEMMA EdgesKept ==
  ASSUME TypeOK, Keeps, EdgesRight, UNCHANGED dbVars
  PROVE  EdgesRight'
<1>1. seqOf' = seqOf /\ edges' = edges
  BY DEF dbVars
<1>2. \A k, e : EdgeIds(k, e)' = EdgeIds(k, e)
  BY <1>1 DEF EdgeIds
<1>3. \A k \in Kinds : rowsOf(k)' = rowsOf(k)
  BY <1>1 DEF rowsOf
<1>4. \A k \in Kinds : \A e \in rowsOf(k)' : RightIds(e, EdgeIds(k, e))'
  BY <1>2, <1>3, EdgesOfRowKept
<1> QED
  BY <1>4 DEF EdgesRight, RightIds, EdgeIds
-----------------------------------------------------------------------------
LEMMA OneTypes ==
  ASSUME OneInv, NEW w \in Writers
  PROVE  /\ TypeOK /\ PlaceInv /\ NumberOK(Kind(w), txn[w], pend[w])
         /\ txn \in [Writers -> TxnRecs] /\ pend \in [Writers -> PendRecs]
         /\ txn[w] \in TxnRecs /\ pend[w] \in PendRecs
         /\ Kind(w) \in {"tx", "itx"}
  BY Types, WriterTypes DEF OneInv, IdInv, NumberInv, Kinds

(* A transaction that begins again, at a height above all rows.            *)
LEMMA IdleOK ==
  ASSUME NEW k \in {"tx", "itx"}, NEW h, NEW p,
         \A g \in Heights : \A e \in ToSet(Work[k][g]) : seqOf[e] # 0 => g < h,
         k = "tx" => \A g \in blocks : g < h,
         k = "itx" => ~ p.block
  PROVE  NumberOK(k, idle(h), p)
<1>1. LET t == idle(h) IN t.at = "idle" /\ t.height = h /\ t.done = 0 /\ t.rows = <<>>
  BY DEF idle
<1> HIDE DEF idle
<1> QED
  BY <1>1 DEF NumberOK, Above, Counted, WillWrite, Working

LEMMA CollectBeginNumbers ==
  ASSUME OneInv, NEW w \in Writers, CollectBegin(w)
  PROVE  \A v \in Writers : NumberInv(v)'
<1>1. TypeOK /\ NumberOK(Kind(w), txn[w], pend[w]) /\ txn \in [Writers -> TxnRecs] /\ txn[w] \in TxnRecs
  BY OneTypes
<1>2. UNCHANGED dbVars /\ pend' = pend /\ Kind(w) = "tx" /\ txn[w].at = "idle" /\ txn[w].height \in Nat
  BY <1>1 DEF CollectBegin, TxnRecs
<1>3. \A v \in Writers : v # w => txn'[v] = txn[v] /\ pend'[v] = pend[v]
  BY <1>1, <1>2 DEF CollectBegin
<1>4. CASE txn[w].height \in blocks
  BY <1>1, <1>2, <1>4 DEF NumberOK, Above
<1>5. CASE txn[w].height \notin blocks
  <2> DEFINE t == [txn[w] EXCEPT !.at = "block"]
  <2>1. txn'[w] = t
    BY <1>1, <1>5 DEF CollectBegin
  <2>2. t.at = "block" /\ t.height = txn[w].height /\ t.done = txn[w].done /\ t.rows = txn[w].rows
    BY <1>1 DEF TxnRecs
  <2> HIDE DEF t
  <2>3. NumberOK(Kind(w), t, pend[w])
    BY <1>1, <1>2, <2>2 DEF NumberOK, Above, Counted, WillWrite, Working
  <2> QED
    BY <2>1, <2>3, <1>2, <1>3, NumberStep
<1> QED
  BY <1>4, <1>5

LEMMA InsertBlockNumbers ==
  ASSUME OneInv, NEW w \in Writers, InsertBlock(w)
  PROVE  \A v \in Writers : NumberInv(v)'
<1> DEFINE t == [txn[w] EXCEPT !.at = "seq"]
           p == [pend[w] EXCEPT !.block = txn[w].height \notin blocks]
<1>1. NumberOK(Kind(w), txn[w], pend[w]) /\ txn \in [Writers -> TxnRecs] /\ pend \in [Writers -> PendRecs]
      /\ txn[w] \in TxnRecs /\ pend[w] \in PendRecs /\ Kind(w) \in {"tx", "itx"}
  BY OneTypes
<1>2. UNCHANGED dbVars /\ txn[w].at = "block"
  BY DEF InsertBlock
<1>3. txn'[w] = t /\ pend'[w] = p /\ \A v \in Writers : v # w => txn'[v] = txn[v] /\ pend'[v] = pend[v]
  BY <1>1 DEF InsertBlock
<1>4. t.at = "seq" /\ t.height = txn[w].height /\ t.done = txn[w].done /\ t.rows = txn[w].rows
      /\ p.block = (txn[w].height \notin blocks)
  BY <1>1 DEF TxnRecs, PendRecs
<1>5. txn[w].height \notin blocks /\ Kind(w) = "tx"
  <2>1. txn[w].height \in Nat
    BY <1>1 DEF TxnRecs
  <2> QED
    BY <2>1, <1>1, <1>2 DEF NumberOK, Above
<1> HIDE DEF t, p
<1>6. NumberOK(Kind(w), t, p)
  BY <1>1, <1>2, <1>4, <1>5 DEF NumberOK, Above, Counted, WillWrite, Working
<1> QED
  BY <1>2, <1>3, <1>6, NumberStep

LEMMA ConsumeBeginNumbers ==
  ASSUME OneInv, NEW w \in Writers, ConsumeBegin(w)
  PROVE  \A v \in Writers : NumberInv(v)'
<1> DEFINE t == [txn[w] EXCEPT !.at = "seq"]
<1>1. NumberOK(Kind(w), txn[w], pend[w]) /\ txn \in [Writers -> TxnRecs] /\ txn[w] \in TxnRecs
  BY OneTypes
<1>2. UNCHANGED dbVars /\ pend' = pend /\ txn[w].at = "idle" /\ Kind(w) = "itx"
  BY DEF ConsumeBegin
<1>3. txn'[w] = t /\ \A v \in Writers : v # w => txn'[v] = txn[v] /\ pend'[v] = pend[v]
  BY <1>1, <1>2 DEF ConsumeBegin
<1>4. t.at = "seq" /\ t.height = txn[w].height /\ t.done = txn[w].done /\ t.rows = txn[w].rows
  BY <1>1 DEF TxnRecs
<1> HIDE DEF t
<1>5. NumberOK(Kind(w), t, pend[w])
  BY <1>1, <1>2, <1>4 DEF NumberOK, Above, Counted, WillWrite, Working
<1> QED
  BY <1>2, <1>3, <1>5, NumberStep

LEMMA GetSeqInfoNumbers ==
  ASSUME OneInv, NEW w \in Writers, GetSeqInfo(w)
  PROVE  \A v \in Writers : NumberInv(v)'
<1> DEFINE t == [txn[w] EXCEPT !.at = "lookup", !.seq = seqInfo[Kind(w)]]
<1>1. TypeOK /\ PlaceInv /\ NumberOK(Kind(w), txn[w], pend[w]) /\ txn \in [Writers -> TxnRecs]
      /\ txn[w] \in TxnRecs
  BY OneTypes
<1>2. UNCHANGED dbVars /\ pend' = pend /\ txn[w].at = "seq"
  BY DEF GetSeqInfo
<1>3. txn'[w] = t /\ \A v \in Writers : v # w => txn'[v] = txn[v] /\ pend'[v] = pend[v]
  BY <1>1, <1>2 DEF GetSeqInfo
<1>4. t.at = "lookup" /\ t.height = txn[w].height /\ t.done = txn[w].done /\ t.rows = txn[w].rows
      /\ t.seq = seqInfo[Kind(w)]
  BY <1>1 DEF TxnRecs
<1>5. seqInfo[Kind(w)] \in Nat /\ Len(Work[Kind(w)][t.height]) \in Nat
  BY <1>1, <1>2, <1>4, WorkTypes, WriterTypes DEF TypeOK, work
<1> HIDE DEF t
<1>6. Above(Kind(w), t, pend[w]) /\ WillWrite(Kind(w), t, pend[w])
  BY <1>1, <1>2, <1>4 DEF NumberOK, Above, WillWrite, Working
<1>7. t.done = 0 /\ t.rows = <<>> /\ t.at \in Working
  BY <1>1, <1>2, <1>4 DEF NumberOK, Counted, Working
<1>8. Counted(Kind(w), t)
  BY <1>4, <1>5, <1>7 DEF Counted
<1>9. NumberOK(Kind(w), t, pend[w])
  BY <1>6, <1>8 DEF NumberOK
<1> QED
  BY <1>2, <1>3, <1>9, NumberStep

(* A lookup appends the entry that is next.                                *)
LEMMA AdvanceNumbers ==
  ASSUME OneInv, NEW w \in Writers, txn[w].at \in {"lookup", "select", "create"},
         txn[w].done < Len(work(w)), Advances(w), UNCHANGED dbVars, pend'[w].block = pend[w].block,
         \A v \in Writers : v # w => pend'[v] = pend[v]
  PROVE  \A v \in Writers : NumberInv(v)'
<1>1. TypeOK /\ PlaceInv /\ NumberOK(Kind(w), txn[w], pend[w]) /\ txn[w] \in TxnRecs
  BY OneTypes
<1>2. PICK t, p : t = txn'[w] /\ p = pend'[w]
  OBVIOUS
<1>3. t.height = txn[w].height /\ p.block = pend[w].block /\ t.at \in {"lookup", "select", "create"}
      /\ \A v \in Writers : v # w => txn'[v] = txn[v]
  BY <1>2 DEF Advances
<1>4. Above(Kind(w), t, p) /\ WillWrite(Kind(w), t, p)
  BY <1>1, <1>3 DEF NumberOK, Above, WillWrite, Working
<1>5. work(w) = Work[Kind(w)][t.height] /\ Len(work(w)) \in Nat /\ txn[w].done \in Nat /\ txn[w].seq \in Nat
      /\ txn[w].rows \in Seq(RowRecs) /\ seqInfo[Kind(w)] \in Nat
  BY <1>1, <1>3, WorkTypes, WriterTypes DEF work, TxnRecs, TypeOK
<1>6. /\ txn[w].seq = seqInfo[Kind(w)] + txn[w].done /\ Len(txn[w].rows) = txn[w].done
      /\ \A i \in 1 .. txn[w].done :
           txn[w].rows[i].entry = work(w)[i] /\ txn[w].rows[i].seq = seqInfo[Kind(w)] + i
  BY <1>1 DEF NumberOK, Counted, Working, work
<1>7. Counted(Kind(w), t)
  <2>1. CASE t.done = txn[w].done /\ t.seq = txn[w].seq /\ t.rows = txn[w].rows
    BY <2>1, <1>3, <1>5, <1>6, SMTT(30) DEF Counted, Working
  <2>2. CASE /\ t.done = txn[w].done + 1 /\ t.seq = txn[w].seq + 1
             /\ \E r \in RowRecs : /\ r.entry = work(w)[txn[w].done + 1] /\ r.seq = txn[w].seq + 1
                                   /\ t.rows = Append(txn[w].rows, r)
    <3>1. PICK r \in RowRecs : /\ r.entry = work(w)[txn[w].done + 1] /\ r.seq = txn[w].seq + 1
                               /\ t.rows = Append(txn[w].rows, r)
      BY <2>2
    <3>2. Len(t.rows) = txn[w].done + 1 /\ t.rows[txn[w].done + 1] = r
          /\ \A i \in 1 .. txn[w].done : t.rows[i] = txn[w].rows[i]
      BY <3>1, <1>5, <1>6
    <3>3. \A i \in 1 .. txn[w].done + 1 :
            t.rows[i].entry = work(w)[i] /\ t.rows[i].seq = seqInfo[Kind(w)] + i
      <4> TAKE i \in 1 .. txn[w].done + 1
      <4>1. CASE i = txn[w].done + 1
        BY <4>1, <3>1, <3>2, <1>5, <1>6
      <4>2. CASE i \in 1 .. txn[w].done
        BY <4>2, <3>2, <1>6
      <4>3. i = txn[w].done + 1 \/ i \in 1 .. txn[w].done
        <5>1. PICK n \in Nat : n = txn[w].done
          BY <1>5
        <5>2. i \in 1 .. n + 1
          BY <5>1
        <5>3. i = n + 1 \/ i \in 1 .. n
          BY <5>2
        <5> QED
          BY <5>1, <5>3
      <4> QED
        BY <4>1, <4>2, <4>3
    <3>4. t.seq = seqInfo[Kind(w)] + t.done /\ t.done <= Len(work(w))
      <4>1. t.seq = txn[w].seq + 1 /\ t.done = txn[w].done + 1 /\ txn[w].seq = seqInfo[Kind(w)] + txn[w].done
        BY <2>2, <1>6
      <4>2. txn[w].done \in Nat /\ seqInfo[Kind(w)] \in Nat /\ Len(work(w)) \in Nat
        BY <1>5
      <4> QED
        BY <4>1, <4>2
    <3>5. t.at \in Working
      BY <1>3 DEF Working
    <3> QED
      BY <2>2, <3>2, <3>3, <3>4, <3>5, <1>5 DEF Counted
  <2> QED
    BY <2>1, <2>2, <1>2 DEF Advances
<1>8. NumberOK(Kind(w), t, p)
  BY <1>4, <1>7 DEF NumberOK
<1> QED
  BY <1>2, <1>3, <1>8, NumberStep

LEMMA LookupNumbers ==
  ASSUME OneInv, NEW w \in Writers, Lookup(w)
  PROVE  \A v \in Writers : NumberInv(v)'
<1>1. Advances(w)
  BY LookupIds DEF OneInv
<1>2. txn[w].at \in {"lookup", "select", "create"} /\ txn[w].done < Len(work(w))
      /\ UNCHANGED dbVars /\ pend' = pend
  BY DEF Lookup
<1> QED
  BY <1>1, <1>2, AdvanceNumbers

LEMMA FetchNumbers ==
  ASSUME OneInv, NEW w \in Writers, Fetch(w)
  PROVE  \A v \in Writers : NumberInv(v)'
<1>1. Advances(w)
  BY FetchIds DEF OneInv
<1>2. txn[w].at = "select" /\ UNCHANGED dbVars /\ pend' = pend
  BY DEF Fetch
<1>3. txn[w].at \in {"lookup", "select", "create"} /\ txn[w].done < Len(work(w))
  BY <1>2, OneTypes DEF PlaceInv
<1> QED
  BY <1>1, <1>2, <1>3, AdvanceNumbers

LEMMA CreateNumbers ==
  ASSUME OneInv, NEW w \in Writers, Create(w)
  PROVE  \A v \in Writers : NumberInv(v)'
<1>1. Advances(w)
  BY CreateIds DEF OneInv
<1>2. txn[w].at = "create" /\ UNCHANGED dbVars /\ \E d : pend' = [pend EXCEPT ![w].dict = d]
  BY DEF Create
<1>3. txn[w].at \in {"lookup", "select", "create"} /\ txn[w].done < Len(work(w))
  BY <1>2, OneTypes DEF PlaceInv
<1>4. pend'[w].block = pend[w].block /\ \A v \in Writers : v # w => pend'[v] = pend[v]
  <2>1. pend \in [Writers -> PendRecs] /\ pend[w] \in PendRecs
    BY OneTypes
  <2> QED
    BY <2>1, <1>2 DEF PendRecs
<1> QED
  BY <1>1, <1>2, <1>3, <1>4, AdvanceNumbers

LEMMA InsertRowsNumbers ==
  ASSUME OneInv, NEW w \in Writers, InsertRows(w)
  PROVE  \A v \in Writers : NumberInv(v)'
<1> DEFINE new == {r \in ToSet(txn[w].rows) : seqOf[r.entry] = 0}
           es  == rowEdges(ToSet(txn[w].rows)) \ edges[Kind(w)]
           t   == [txn[w] EXCEPT !.at = "seqinfo"]
           p   == [pend[w] EXCEPT !.rows = new, !.edges = es]
<1>1. TypeOK /\ PlaceInv /\ NumberOK(Kind(w), txn[w], pend[w])
      /\ txn \in [Writers -> TxnRecs] /\ pend \in [Writers -> PendRecs]
      /\ txn[w] \in TxnRecs /\ pend[w] \in PendRecs /\ Kind(w) \in {"tx", "itx"}
  BY OneTypes
<1>2. UNCHANGED dbVars /\ txn[w].at = "lookup" /\ txn[w].done = Len(work(w))
  BY DEF InsertRows
<1>3. txn'[w] = t /\ pend'[w] = p /\ \A v \in Writers : v # w => txn'[v] = txn[v] /\ pend'[v] = pend[v]
  BY <1>1 DEF InsertRows
<1>4. t.at = "seqinfo" /\ t.height = txn[w].height /\ t.done = txn[w].done /\ t.rows = txn[w].rows
      /\ t.seq = txn[w].seq
  BY <1>1 DEF TxnRecs
<1>5. p.block = pend[w].block /\ p.rows = new /\ p.edges = es
  BY <1>1 DEF PendRecs
<1>6. new = ToSet(txn[w].rows)
  <2>1. ASSUME NEW r \in ToSet(txn[w].rows)
        PROVE  seqOf[r.entry] = 0
    <3>1. txn[w].height \in Heights /\ txn[w].height \in Nat /\ work(w) = Work[Kind(w)][txn[w].height]
      BY <1>1, <1>2 DEF PlaceInv, TxnRecs, work
    <3>2. DOMAIN txn[w].rows = 1 .. txn[w].done /\ DOMAIN work(w) = 1 .. txn[w].done
      BY <1>1, <1>2, WorkTypes DEF NumberOK, Counted, Working, TxnRecs
    <3>3. PICK i \in 1 .. txn[w].done : r = txn[w].rows[i]
      BY <3>2 DEF ToSet
    <3>4. r.entry = work(w)[i]
      BY <3>1, <3>3, <1>1, <1>2 DEF NumberOK, Counted, Working
    <3>5. r.entry \in ToSet(Work[Kind(w)][txn[w].height])
      BY <3>1, <3>2, <3>3, <3>4 DEF ToSet
    <3>6. seqOf[r.entry] # 0 => txn[w].height < txn[w].height
      BY <3>1, <3>5, <1>1 DEF NumberOK, Above
    <3> QED
      BY <3>1, <3>6
  <2> QED
    BY <2>1
<1> HIDE DEF t, p, new
<1>7. Above(Kind(w), t, p)
  BY <1>1, <1>2, <1>4, <1>5 DEF NumberOK, Above, Working
<1>8. Counted(Kind(w), t)
  BY <1>1, <1>2, <1>4 DEF NumberOK, Counted, Working
<1>9. WillWrite(Kind(w), t, p)
  BY <1>2, <1>4, <1>5, <1>6 DEF WillWrite, work
<1>10. NumberOK(Kind(w), t, p)
  BY <1>7, <1>8, <1>9 DEF NumberOK
<1> QED
  BY <1>2, <1>3, <1>10, NumberStep

LEMMA UpdateSeqInfoNumbers ==
  ASSUME OneInv, NEW w \in Writers, UpdateSeqInfo(w)
  PROVE  \A v \in Writers : NumberInv(v)'
<1> DEFINE t == [txn[w] EXCEPT !.at = "commit"]
           p == [pend[w] EXCEPT !.seq = txn[w].seq]
<1>1. NumberOK(Kind(w), txn[w], pend[w]) /\ txn \in [Writers -> TxnRecs] /\ pend \in [Writers -> PendRecs]
      /\ txn[w] \in TxnRecs /\ pend[w] \in PendRecs
  BY OneTypes
<1>2. UNCHANGED dbVars /\ txn[w].at = "seqinfo"
  BY DEF UpdateSeqInfo
<1>3. txn'[w] = t /\ pend'[w] = p /\ \A v \in Writers : v # w => txn'[v] = txn[v] /\ pend'[v] = pend[v]
  BY <1>1 DEF UpdateSeqInfo
<1>4. t.at = "commit" /\ t.height = txn[w].height /\ t.done = txn[w].done /\ t.rows = txn[w].rows
      /\ t.seq = txn[w].seq
  BY <1>1 DEF TxnRecs
<1>5. p.block = pend[w].block /\ p.rows = pend[w].rows /\ p.edges = pend[w].edges /\ p.seq = txn[w].seq
  BY <1>1 DEF PendRecs
<1> HIDE DEF t, p
<1>6. NumberOK(Kind(w), t, p)
  BY <1>1, <1>2, <1>4, <1>5 DEF NumberOK, Above, Counted, WillWrite, Working
<1> QED
  BY <1>2, <1>3, <1>6, NumberStep

LEMMA ConsumeFailNumbers ==
  ASSUME OneInv, NEW w \in Writers, ConsumeFail(w)
  PROVE  \A v \in Writers : NumberInv(v)'
<1>1. NumberOK(Kind(w), txn[w], pend[w]) /\ txn \in [Writers -> TxnRecs] /\ pend \in [Writers -> PendRecs]
      /\ txn[w] \in TxnRecs
  BY OneTypes
<1>2. UNCHANGED dbVars /\ Kind(w) = "itx"
  BY DEF ConsumeFail
<1>3. txn'[w] = idle(txn[w].height + 1) /\ pend'[w] = noWrites
      /\ \A v \in Writers : v # w => txn'[v] = txn[v] /\ pend'[v] = pend[v]
  BY <1>1 DEF ConsumeFail
<1>4. PICK n \in Nat : n = txn[w].height
  BY <1>1 DEF TxnRecs
<1>5. Heights \subseteq Nat
  BY Constants
<1>6. \A g \in Heights : g < n => g < n + 1
  BY <1>5
<1>7. \A g \in Heights : \A e \in ToSet(Work[Kind(w)][g]) : seqOf[e] # 0 => g < n + 1
  BY <1>1, <1>4, <1>6 DEF NumberOK, Above
<1>8. ~ noWrites.block
  BY DEF noWrites
<1>9. NumberOK(Kind(w), idle(n + 1), noWrites)
  BY <1>2, <1>7, <1>8, IdleOK
<1> QED
  BY <1>2, <1>3, <1>4, <1>9, NumberStep

(* Where a process that starts again goes on, all rows are below.          *)
LEMMA RestartAbove ==
  ASSUME OneInv, NEW v \in Writers
  PROVE  NumberOK(Kind(v), restart(v), noWrites)
<1> DEFINE S == {g \in Heights : \E e \in ToSet(Work["itx"][g]) : seqOf[e] # 0}
<1>1. MaxHeight \in Nat /\ blocks \subseteq Heights /\ S \subseteq Heights
  BY Constants, OneTypes DEF TypeOK
<1>2. \A h \in Heights : h \in Nat /\ h <= MaxHeight
  BY <1>1 DEF Heights
<1>3. \A h \in Heights : \A e \in ToSet(Work["itx"][h]) : seqOf[e] # 0 => h \in S
  OBVIOUS
<1>4. \A h \in Heights : \A e \in ToSet(Work["tx"][h]) : seqOf[e] # 0 => h \in blocks
  BY DEF OneInv, BlockInv
<1>5. restart(v) = idle(1 + IF Kind(v) = "tx" THEN Highest(blocks) ELSE Highest(S))
  BY DEF restart
<1> HIDE DEF S
<1>6. ~ noWrites.block
  BY DEF noWrites
<1>7. Highest(blocks) \in Nat /\ \A h \in blocks : h < 1 + Highest(blocks)
  <2>1. blocks \in SUBSET Nat /\ \A h \in blocks : h <= MaxHeight
    BY <1>1, <1>2
  <2>2. Highest(blocks) \in Nat /\ \A h \in blocks : h <= Highest(blocks)
    BY <2>1, <1>1, HighestOf
  <2> QED
    BY <2>1, <2>2
<1>8. Highest(S) \in Nat /\ \A h \in S : h < 1 + Highest(S)
  <2>1. S \in SUBSET Nat /\ \A h \in S : h <= MaxHeight
    BY <1>1, <1>2
  <2>2. Highest(S) \in Nat /\ \A h \in S : h <= Highest(S)
    BY <2>1, <1>1, HighestOf
  <2> QED
    BY <2>1, <2>2
<1>9. CASE Kind(v) = "tx"
  <2>1. restart(v) = idle(1 + Highest(blocks))
    BY <1>5, <1>9
  <2>2. \A h \in Heights : \A e \in ToSet(Work["tx"][h]) : seqOf[e] # 0 => h < 1 + Highest(blocks)
    BY <1>4, <1>7
  <2> QED
    BY <2>1, <2>2, <1>7, <1>9, IdleOK
<1>10. CASE Kind(v) = "itx"
  <2>1. restart(v) = idle(1 + Highest(S))
    BY <1>5, <1>10
  <2>2. \A h \in Heights : \A e \in ToSet(Work["itx"][h]) : seqOf[e] # 0 => h < 1 + Highest(S)
    BY <1>3, <1>8
  <2> QED
    BY <2>1, <2>2, <1>6, <1>10, IdleOK
<1> QED
  BY <1>9, <1>10, OneTypes

LEMMA CollectFailNumbers ==
  ASSUME OneIndexer, OneInv, NEW w \in Writers, CollectFail(w)
  PROVE  \A v \in Writers : NumberInv(v)'
<1>1. UNCHANGED dbVars /\ \A v \in Writers : v[1] = w[1]
  BY OneWriter DEF CollectFail
<1>2. \A v \in Writers : txn'[v] = restart(v) /\ pend'[v] = noWrites
  BY <1>1 DEF CollectFail
<1>3. ASSUME NEW v \in Writers
      PROVE  NumberInv(v)'
  <2>1. PICK t, p : t = restart(v) /\ p = noWrites
    OBVIOUS
  <2>2. NumberOK(Kind(v), t, p)
    BY <2>1, RestartAbove
  <2>3. NumberOK(Kind(v), t, p)'
    BY <2>2, <1>1, SameTables
  <2>4. txn'[v] = t /\ pend'[v] = p
    BY <2>1, <1>2
  <2> QED
    BY <2>3, <2>4 DEF NumberInv
<1> QED
  BY <1>3
-----------------------------------------------------------------------------
(* An entry has one place in the work.                                     *)
LEMMA DistinctWork ==
  \A k, l \in Kinds, g, h \in Heights :
    \A i \in DOMAIN Work[k][g], j \in DOMAIN Work[l][h] :
      Work[k][g][i] = Work[l][h][j] => k = l /\ g = h /\ i = j
  BY TxCollectAssumption, Zenon

LEMMA OnePlace ==
  ASSUME NEW k \in Kinds, NEW l \in Kinds, NEW g \in Heights, NEW h \in Heights,
         NEW e \in ToSet(Work[k][g]), e \in ToSet(Work[l][h])
  PROVE  k = l /\ g = h
<1>1. PICK i \in DOMAIN Work[k][g] : e = Work[k][g][i]
  BY DEF ToSet
<1>2. PICK j \in DOMAIN Work[l][h] : e = Work[l][h][j]
  BY DEF ToSet
<1>3. Work[k][g][i] = Work[l][h][j]
  BY <1>1, <1>2
<1>4. k = l /\ g = h /\ i = j
  BY <1>3, DistinctWork
<1> QED
  BY <1>4

LEMMA OneIndex ==
  ASSUME NEW k \in Kinds, NEW h \in Heights, NEW i \in DOMAIN Work[k][h], NEW j \in DOMAIN Work[k][h],
         Work[k][h][i] = Work[k][h][j]
  PROVE  i = j
  BY DistinctWork

(* What a commit writes: the entries of the height, numbered from the last *)
(* sequence on.                                                            *)
LEMMA CommitRows ==
  ASSUME OneInv, NEW w \in Writers, Commit(w)
  PROVE  /\ txn[w].height \in Heights /\ work(w) = Work[Kind(w)][txn[w].height]
         /\ Len(work(w)) \in Nat /\ DOMAIN work(w) = 1 .. Len(work(w)) /\ seqInfo[Kind(w)] \in Nat
         /\ ToSet(work(w)) = {work(w)[i] : i \in 1 .. Len(work(w))} /\ ToSet(work(w)) \subseteq Entries
         /\ ToSet(txn[w].rows) = {txn[w].rows[i] : i \in 1 .. Len(work(w))}
         /\ \A i \in 1 .. Len(work(w)) :
              /\ txn[w].rows[i] \in RowRecs
              /\ txn[w].rows[i].entry = work(w)[i] /\ txn[w].rows[i].seq = seqInfo[Kind(w)] + i
              /\ seqOf[work(w)[i]] = 0
              /\ seqOf'[work(w)[i]] = seqInfo[Kind(w)] + i
         /\ \A i, j \in 1 .. Len(work(w)) : work(w)[i] = work(w)[j] => i = j
         /\ \A e \in Entries : e \notin ToSet(work(w)) => seqOf'[e] = seqOf[e]
<1> DEFINE k == Kind(w)
           n == Len(work(w))
           h == txn[w].height
<1>1. TypeOK /\ PlaceInv /\ NumberOK(k, txn[w], pend[w]) /\ txn[w] \in TxnRecs /\ k \in Kinds
      /\ txn[w].at = "commit"
  BY OneTypes, WriterTypes DEF Commit
<1>2. h \in Heights /\ h \in Nat /\ work(w) = Work[k][h]
  BY <1>1 DEF PlaceInv, TxnRecs, work
<1>3. work(w) \in Seq(Entries) /\ n \in Nat /\ DOMAIN work(w) = 1 .. n /\ seqInfo[k] \in Nat
  <2>1. work(w) \in Seq(Entries) /\ n \in Nat
    BY <1>1, WorkTypes
  <2>2. seqInfo[k] \in Nat
    BY <1>1 DEF TypeOK
  <2> QED
    BY <2>1, <2>2
<1>4. txn[w].done = n /\ Len(txn[w].rows) = n /\ pend[w].rows = ToSet(txn[w].rows)
      /\ \A i \in 1 .. n : txn[w].rows[i].entry = work(w)[i] /\ txn[w].rows[i].seq = seqInfo[k] + i
  BY <1>1, <1>2 DEF NumberOK, Counted, WillWrite, Working
<1>5. DOMAIN txn[w].rows = 1 .. n /\ \A i \in 1 .. n : txn[w].rows[i] \in RowRecs
  BY <1>1, <1>4 DEF TxnRecs
<1>6. ToSet(work(w)) = {work(w)[i] : i \in 1 .. n} /\ ToSet(work(w)) \subseteq Entries
  BY <1>3 DEF ToSet
<1>7. ToSet(txn[w].rows) = {txn[w].rows[i] : i \in 1 .. n}
  BY <1>5 DEF ToSet
<1>8. \A i, j \in 1 .. n : work(w)[i] = work(w)[j] => i = j
  <2>1. k \in Kinds /\ h \in Heights /\ DOMAIN Work[k][h] = 1 .. n
    BY <1>1, <1>2, <1>3
  <2> HIDE DEF k, h, n
  <2>2. \A i, j \in DOMAIN Work[k][h] : Work[k][h][i] = Work[k][h][j] => i = j
    <3>1. PICK l \in Kinds, g \in Heights : l = k /\ g = h
      BY <2>1
    <3>2. \A i, j \in DOMAIN Work[l][g] : Work[l][g][i] = Work[l][g][j] => i = j
      BY OneIndex
    <3> QED
      BY <3>1, <3>2
  <2> QED
    BY <2>1, <2>2, <1>2
<1> HIDE DEF n, h
<1>9. ASSUME NEW i \in 1 .. n
      PROVE  seqOf[work(w)[i]] = 0
  <2>1. work(w)[i] \in ToSet(Work[k][h])
    BY <1>2, <1>6
  <2>2. seqOf[work(w)[i]] # 0 => h < h
    BY <2>1, <1>1, <1>2 DEF NumberOK, Above, h
  <2> QED
    BY <2>2, <1>2
<1>10. pendingRows(w) = ToSet(work(w))
  <2>1. pendingRows(w) = {txn[w].rows[i].entry : i \in 1 .. n}
    BY <1>4, <1>7 DEF pendingRows
  <2> QED
    BY <2>1, <1>4, <1>6
<1>11. \A e \in Entries : e \notin ToSet(work(w)) => seqOf'[e] = seqOf[e]
  BY <1>10 DEF Commit
<1>12. ASSUME NEW i \in 1 .. n
       PROVE  seqOf'[work(w)[i]] = seqInfo[k] + i
  <2> DEFINE r == CHOOSE q \in pend[w].rows : q.entry = work(w)[i]
  <2>1. work(w)[i] \in ToSet(work(w)) /\ work(w)[i] \in Entries
    BY <1>6
  <2>2. seqOf'[work(w)[i]] = r.seq
    BY <2>1, <1>10 DEF Commit
  <2>3. txn[w].rows[i] \in pend[w].rows /\ txn[w].rows[i].entry = work(w)[i]
    BY <1>4, <1>7
  <2>4. r \in pend[w].rows /\ r.entry = work(w)[i]
    BY <2>3
  <2> HIDE DEF r
  <2>5. PICK j \in 1 .. n : r = txn[w].rows[j]
    BY <2>4, <1>4, <1>7
  <2>6. work(w)[j] = work(w)[i]
    BY <2>4, <2>5, <1>4
  <2>7. j = i
    BY <2>6, <1>8
  <2> QED
    BY <2>2, <2>5, <2>7, <1>4
<1> QED
  BY <1>2, <1>3, <1>4, <1>5, <1>6, <1>7, <1>8, <1>9, <1>11, <1>12 DEF n, h

LEMMA CommitTables ==
  ASSUME OneInv, NEW w \in Writers, Commit(w)
  PROVE  /\ seqInfo'[Kind(w)] = seqInfo[Kind(w)] + Len(work(w))
         /\ edges'[Kind(w)] = edges[Kind(w)] \union rowEdges(ToSet(txn[w].rows))
         /\ \A l \in Kinds : l # Kind(w) => seqInfo'[l] = seqInfo[l] /\ edges'[l] = edges[l]
         /\ Kind(w) = "tx" => blocks' = blocks \union {txn[w].height}
         /\ Kind(w) = "itx" => blocks' = blocks
<1>1. TypeOK /\ NumberOK(Kind(w), txn[w], pend[w]) /\ Kind(w) \in Kinds /\ txn[w].at = "commit"
  BY OneTypes, WriterTypes DEF Commit
<1>2. seqInfo \in [Kinds -> Nat] /\ edges \in [Kinds -> SUBSET (Nat \X Nat)]
  BY <1>1 DEF TypeOK
<1>3. pend[w].seq = seqInfo[Kind(w)] + Len(work(w))
      /\ pend[w].edges = rowEdges(ToSet(txn[w].rows)) \ edges[Kind(w)]
  BY <1>1 DEF NumberOK, Counted, WillWrite, Working, work
<1>4. (Kind(w) = "tx" => pend[w].block) /\ (Kind(w) = "itx" => ~ pend[w].block)
  BY <1>1 DEF NumberOK, Above, Working
<1>5. /\ seqInfo'[Kind(w)] = pend[w].seq
      /\ edges'[Kind(w)] = edges[Kind(w)] \union pend[w].edges
      /\ \A l \in Kinds : l # Kind(w) => seqInfo'[l] = seqInfo[l] /\ edges'[l] = edges[l]
  BY <1>1, <1>2 DEF Commit
<1>6. edges'[Kind(w)] = edges[Kind(w)] \union rowEdges(ToSet(txn[w].rows))
  BY <1>3, <1>5
<1>7. (Kind(w) = "tx" => blocks' = blocks \union {txn[w].height}) /\ (Kind(w) = "itx" => blocks' = blocks)
  BY <1>4 DEF Commit
<1> QED
  BY <1>3, <1>5, <1>6, <1>7

LEMMA CommitRowsOf ==
  ASSUME OneInv, NEW w \in Writers, Commit(w)
  PROVE  /\ rowsOf(Kind(w))' = rowsOf(Kind(w)) \union ToSet(work(w))
         /\ \A l \in Kinds : l # Kind(w) =>
              /\ rowsOf(l)' = rowsOf(l)
              /\ \A h \in Heights : \A e \in ToSet(Work[l][h]) : seqOf'[e] = seqOf[e]
         /\ \A e \in rowsOf(Kind(w)) : e \notin ToSet(work(w)) /\ seqOf'[e] = seqOf[e]
<1> DEFINE k == Kind(w)
           N == ToSet(work(w))
<1>1. /\ txn[w].height \in Heights /\ work(w) = Work[k][txn[w].height] /\ seqInfo[k] \in Nat
      /\ N = {work(w)[i] : i \in 1 .. Len(work(w))} /\ N \subseteq Entries
      /\ \A i \in 1 .. Len(work(w)) : seqOf[work(w)[i]] = 0 /\ seqOf'[work(w)[i]] = seqInfo[k] + i
      /\ \A e \in Entries : e \notin N => seqOf'[e] = seqOf[e]
      /\ Len(work(w)) \in Nat
  BY CommitRows
<1>2. k \in Kinds
  BY WriterTypes
<1>3. \A e \in N : seqOf[e] = 0 /\ seqOf'[e] # 0
  BY <1>1
<1>4. N = ToSet(Work[k][txn[w].height])
  BY <1>1
<1> HIDE DEF N, k
<1>5. \A l \in Kinds, h \in Heights : \A e \in ToSet(Work[l][h]) : e \in Entries
  <2> TAKE l \in Kinds, h \in Heights
  <2>1. Work[l][h] \in Seq(Entries)
    BY Constants
  <2> QED
    BY <2>1 DEF ToSet
<1>6. ASSUME NEW l \in Kinds, l # k, NEW h \in Heights, NEW e \in ToSet(Work[l][h])
      PROVE  e \notin N /\ seqOf'[e] = seqOf[e]
  <2>1. e \notin N
    BY <1>1, <1>2, <1>4, <1>6, OnePlace
  <2> QED
    BY <2>1, <1>1, <1>5
<1>7. \A e \in rowsOf(k) : e \notin N /\ seqOf'[e] = seqOf[e]
  BY <1>1, <1>3 DEF rowsOf
<1>8. rowsOf(k)' = rowsOf(k) \union N
  <2>1. ASSUME NEW e \in rowsOf(k)'
        PROVE  e \in rowsOf(k) \union N
    BY <1>1 DEF rowsOf
  <2>2. ASSUME NEW e \in rowsOf(k) \union N
        PROVE  e \in rowsOf(k)'
    BY <1>1, <1>3, <1>4, <1>7 DEF rowsOf
  <2> QED
    BY <2>1, <2>2
<1>9. ASSUME NEW l \in Kinds, l # k
      PROVE  rowsOf(l)' = rowsOf(l)
  BY <1>6, <1>9 DEF rowsOf
<1> QED
  BY <1>6, <1>7, <1>8, <1>9 DEF N, k

LEMMA CommitNumbers ==
  ASSUME OneIndexer, OneInv, NEW w \in Writers, Commit(w)
  PROVE  \A v \in Writers : NumberInv(v)'
<1>1. txn \in [Writers -> TxnRecs] /\ pend \in [Writers -> PendRecs] /\ txn[w] \in TxnRecs
      /\ Kind(w) \in {"tx", "itx"} /\ NumberOK(Kind(w), txn[w], pend[w])
  BY OneTypes
<1>2. txn'[w] = idle(txn[w].height + 1) /\ pend'[w] = noWrites
      /\ \A v \in Writers : v # w => txn'[v] = txn[v] /\ pend'[v] = pend[v]
  BY <1>1 DEF Commit
<1>3. ASSUME NEW v \in Writers, v # w
      PROVE  NumberInv(v)'
  <2>1. Kind(v) # Kind(w) /\ Kind(v) \in Kinds /\ Kind(v) \in {"tx", "itx"}
    BY <1>3, OneWriter, WriterTypes, OneTypes
  <2>2. /\ \A h \in Heights : \A e \in ToSet(Work[Kind(v)][h]) : seqOf'[e] = seqOf[e]
        /\ seqInfo'[Kind(v)] = seqInfo[Kind(v)] /\ edges'[Kind(v)] = edges[Kind(v)]
        /\ Kind(v) = "tx" => blocks' = blocks
    BY <2>1, <1>1, CommitTables, CommitRowsOf
  <2>3. PICK t, p, l : t = txn[v] /\ p = pend[v] /\ l = Kind(v)
    OBVIOUS
  <2>4. NumberOK(l, t, p)
    BY <2>3, OneTypes
  <2>5. Above(l, t, p)'
    BY <2>2, <2>3, <2>4 DEF NumberOK, Above
  <2>6. Counted(l, t)' /\ WillWrite(l, t, p)'
    BY <2>2, <2>3, <2>4 DEF NumberOK, Counted, WillWrite
  <2>7. txn'[v] = t /\ pend'[v] = p
    BY <2>3, <1>2, <1>3
  <2> QED
    BY <2>3, <2>5, <2>6, <2>7 DEF NumberInv, NumberOK
<1>4. NumberInv(w)'
  <2>1. PICK n \in Nat : n = txn[w].height
    BY <1>1 DEF TxnRecs
  <2>2. PICK t, p : t = idle(n + 1) /\ p = noWrites
    OBVIOUS
  <2>3. t.at = "idle" /\ t.height = n + 1 /\ t.done = 0 /\ t.rows = <<>> /\ ~ p.block
    BY <2>2 DEF idle, noWrites
  <2>4. Counted(Kind(w), t)' /\ WillWrite(Kind(w), t, p)'
    BY <2>3 DEF Counted, WillWrite, Working
  <2>5. n \in Heights /\ Heights \subseteq Nat /\ work(w) = Work[Kind(w)][n]
    BY <2>1, Constants, CommitRows
  <2>6. \A h \in Heights : h < n => h < n + 1
    BY <2>5
  <2>7. ASSUME NEW h \in Heights, NEW e \in ToSet(Work[Kind(w)][h]), seqOf'[e] # 0
        PROVE  h < n + 1
    <3>1. Kind(w) \in Kinds
      BY WriterTypes
    <3>2. CASE e \in ToSet(work(w))
      <4>1. h = n
        BY <3>1, <3>2, <2>5, OnePlace
      <4> QED
        BY <4>1
    <3>3. CASE e \notin ToSet(work(w))
      <4>1. e \in Entries
        <5>1. Work[Kind(w)][h] \in Seq(Entries)
          BY <3>1, Constants
        <5> QED
          BY <5>1 DEF ToSet
      <4>2. seqOf'[e] = seqOf[e]
        BY <4>1, <3>3, CommitRows
      <4>3. h < n
        BY <4>2, <2>1, <2>7, <1>1 DEF NumberOK, Above
      <4> QED
        BY <4>3, <2>6
    <3> QED
      BY <3>2, <3>3
  <2>8. Kind(w) = "tx" => \A h \in blocks' : h < n + 1
    <3>1. Kind(w) = "tx" => blocks' = blocks \union {n} /\ \A h \in blocks : h < n
      BY <2>1, <1>1, CommitTables DEF NumberOK, Above
    <3>2. blocks \subseteq Heights
      BY OneTypes DEF TypeOK
    <3>3. n < n + 1
      OBVIOUS
    <3> QED
      BY <3>1, <3>2, <3>3, <2>6
  <2>9. Above(Kind(w), t, p)'
    BY <2>3, <2>7, <2>8 DEF Above, Working
  <2>10. txn'[w] = t /\ pend'[w] = p
    BY <2>1, <2>2, <1>2
  <2> QED
    BY <2>4, <2>9, <2>10 DEF NumberInv, NumberOK
<1> QED
  BY <1>3, <1>4

LEMMA CommitBlocks ==
  ASSUME OneInv, NEW w \in Writers, Commit(w)
  PROVE  BlockInv'
<1> SUFFICES ASSUME NEW h \in Heights, NEW e \in ToSet(Work["tx"][h]), seqOf'[e] # 0
             PROVE  h \in blocks'
  BY DEF BlockInv
<1>1. Kind(w) \in Kinds /\ Kind(w) \in {"tx", "itx"} /\ "tx" \in Kinds
  BY WriterTypes, OneTypes DEF Kinds
<1>2. blocks \subseteq blocks' /\ (Kind(w) = "tx" => txn[w].height \in blocks')
  BY <1>1, CommitTables
<1>3. CASE e \in ToSet(work(w))
  <2>0. txn[w].height \in Heights /\ e \in ToSet(Work[Kind(w)][txn[w].height])
    BY <1>3, CommitRows
  <2>1. Kind(w) = "tx" /\ h = txn[w].height
    BY <2>0, <1>1, OnePlace
  <2> QED
    BY <2>1, <1>2
<1>4. CASE e \notin ToSet(work(w))
  <2>1. e \in Entries
    <3>1. Work["tx"][h] \in Seq(Entries)
      BY <1>1, Constants
    <3> QED
      BY <3>1 DEF ToSet
  <2>2. seqOf[e] # 0
    BY <2>1, <1>4, CommitRows
  <2> QED
    BY <2>2, <1>2 DEF OneInv, BlockInv
<1> QED
  BY <1>3, <1>4

(* The numbers of a commit follow those that are there.                    *)
LEMMA CommitSeqs ==
  ASSUME OneInv, NEW w \in Writers, Commit(w)
  PROVE  \A l \in Kinds : SeqInv(l)'
<1>1. PICK k \in Kinds, m \in Nat, n \in Nat, c \in Heights, W \in {work(w)} :
        /\ k = Kind(w) /\ m = seqInfo[k] /\ n = Len(work(w)) /\ c = txn[w].height /\ W = work(w)
        /\ W = Work[k][c]
  BY WriterTypes, CommitRows
<1>2. /\ ToSet(W) = {W[i] : i \in 1 .. n}
      /\ \A i \in 1 .. n : seqOf'[W[i]] = m + i
      /\ \A i, j \in 1 .. n : W[i] = W[j] => i = j
  <2>1. /\ ToSet(work(w)) = {work(w)[i] : i \in 1 .. Len(work(w))}
        /\ \A i \in 1 .. Len(work(w)) : seqOf'[work(w)[i]] = seqInfo[Kind(w)] + i
        /\ \A i, j \in 1 .. Len(work(w)) : work(w)[i] = work(w)[j] => i = j
    BY CommitRows
  <2>2. W = work(w) /\ n = Len(work(w)) /\ m = seqInfo[Kind(w)]
    BY <1>1
  <2> QED
    BY <2>1, <2>2
<1>3. /\ rowsOf(k)' = rowsOf(k) \union ToSet(W)
      /\ \A e \in rowsOf(k) : e \notin ToSet(W) /\ seqOf'[e] = seqOf[e]
  BY <1>1, CommitRowsOf
<1>4. seqInfo'[k] = m + n
  BY <1>1, CommitTables
<1>5. SeqInv(k)
  BY DEF OneInv
<1>6. \A e \in rowsOf(k) : seqOf[e] \in 1 .. m
  BY <1>1, <1>5 DEF SeqInv
<1>7. {seqOf'[e] : e \in rowsOf(k)'} = 1 .. seqInfo'[k]
  <2>1. ASSUME NEW e \in rowsOf(k)'
        PROVE  seqOf'[e] \in 1 .. m + n
    <3>1. CASE e \in rowsOf(k)
      BY <3>1, <1>3, <1>6
    <3>2. CASE e \in ToSet(W)
      BY <3>2, <1>2
    <3> QED
      BY <3>1, <3>2, <1>3
  <2>2. ASSUME NEW j \in 1 .. m + n
        PROVE  \E e \in rowsOf(k)' : seqOf'[e] = j
    <3>1. CASE j <= m
      <4>1. j \in {seqOf[e] : e \in rowsOf(k)}
        BY <3>1, <1>1, <1>5 DEF SeqInv
      <4> QED
        BY <4>1, <1>3
    <3>2. CASE j > m
      <4>1. PICK i \in 1 .. n : j = m + i
        <5>1. j - m \in 1 .. n /\ j = m + (j - m)
          BY <3>2
        <5> QED
          BY <5>1
      <4>2. W[i] \in rowsOf(k)' /\ seqOf'[W[i]] = j
        BY <4>1, <1>2, <1>3
      <4> QED
        BY <4>2
    <3> QED
      BY <3>1, <3>2
  <2> QED
    BY <2>1, <2>2, <1>4
<1>8. ASSUME NEW d \in rowsOf(k)', NEW e \in rowsOf(k)', seqOf'[d] = seqOf'[e]
      PROVE  d = e
  <2>1. CASE d \in rowsOf(k) /\ e \in rowsOf(k)
    BY <2>1, <1>3, <1>5, <1>8 DEF SeqInv
  <2>2. \A x \in rowsOf(k) : seqOf'[x] \in 1 .. m
    BY <1>3, <1>6
  <2>3. \A x \in ToSet(W) : seqOf'[x] \in m + 1 .. m + n
    BY <1>2
  <2>4. CASE d \in ToSet(W) /\ e \in ToSet(W)
    <3>1. PICK i \in 1 .. n, j \in 1 .. n : d = W[i] /\ e = W[j]
      BY <2>4, <1>2
    <3>2. m + i = m + j
      BY <3>1, <1>2, <1>8
    <3>3. i = j
      BY <3>2
    <3> QED
      BY <3>1, <3>3
  <2>5. CASE d \in rowsOf(k) /\ e \in ToSet(W)
    BY <2>2, <2>3, <2>5, <1>8
  <2>6. CASE d \in ToSet(W) /\ e \in rowsOf(k)
    BY <2>2, <2>3, <2>6, <1>8
  <2> QED
    BY <2>1, <2>4, <2>5, <2>6, <1>3
<1>9. ASSUME NEW g \in Heights, NEW h \in Heights, g < h,
             NEW d \in ToSet(Work[k][g]) \intersect rowsOf(k)', NEW e \in ToSet(Work[k][h]) \intersect rowsOf(k)'
      PROVE  seqOf'[d] < seqOf'[e]
  <2>0. \A x \in ToSet(W), f \in Heights : x \in ToSet(Work[k][f]) => f = c
    BY <1>1, OnePlace, ZenonT(40)
  <2>1. g \in Nat /\ h \in Nat /\ c \in Nat
    BY Constants
  <2>2. CASE d \in rowsOf(k) /\ e \in rowsOf(k)
    BY <2>2, <1>3, <1>5, <1>9 DEF SeqInv
  <2>3. CASE d \in rowsOf(k) /\ e \in ToSet(W)
    <3>1. PICK i \in 1 .. n : seqOf'[e] = m + i
      BY <2>3, <1>2
    <3>2. seqOf'[d] \in 1 .. m
      BY <2>3, <1>3, <1>6
    <3> QED
      BY <3>1, <3>2
  <2>4. CASE d \in ToSet(W) /\ e \in rowsOf(k)
    <3>1. g = c
      BY <2>0, <2>4
    <3>2. seqOf[e] # 0
      BY <2>4 DEF rowsOf
    <3>3. h < c
      BY <3>2, <1>1, OneTypes DEF NumberOK, Above
    <3> QED
      BY <3>1, <3>3, <2>1, <1>9
  <2>5. CASE d \in ToSet(W) /\ e \in ToSet(W)
    BY <2>0, <2>1, <2>5, <1>9
  <2> QED
    BY <2>2, <2>3, <2>4, <2>5, <1>3
<1>10. ASSUME NEW x \in edges'[k]
       PROVE  x[2] \in 1 .. seqInfo'[k]
  <2>1. CASE x \in edges[k]
    BY <2>1, <1>1, <1>4, <1>5 DEF SeqInv
  <2>2. CASE x \in rowEdges(ToSet(txn[w].rows))
    <3>1. PICK r \in ToSet(txn[w].rows) : \E i \in r.ids : x = <<i, r.seq>>
      BY <2>2 DEF rowEdges
    <3>2. /\ ToSet(txn[w].rows) = {txn[w].rows[i] : i \in 1 .. Len(work(w))}
          /\ \A i \in 1 .. Len(work(w)) : txn[w].rows[i].seq = seqInfo[Kind(w)] + i
      BY CommitRows
    <3>3. PICK i \in 1 .. n : r.seq = m + i
      BY <3>1, <3>2, <1>1
    <3> QED
      BY <3>1, <3>3, <1>4
  <2> QED
    BY <2>1, <2>2, <1>1, CommitTables
<1>11. SeqInv(k)'
  BY <1>7, <1>8, <1>9, <1>10 DEF SeqInv
<1>12. ASSUME NEW l \in Kinds, l # k
       PROVE  SeqInv(l)'
  <2>1. /\ rowsOf(l)' = rowsOf(l) /\ \A h \in Heights : \A e \in ToSet(Work[l][h]) : seqOf'[e] = seqOf[e]
        /\ seqInfo'[l] = seqInfo[l] /\ edges'[l] = edges[l]
    BY <1>1, <1>12, CommitRowsOf, CommitTables
  <2>2. \A e \in rowsOf(l) : seqOf'[e] = seqOf[e]
    BY <2>1 DEF rowsOf
  <2>3. SeqInv(l)
    BY DEF OneInv
  <2> QED
    BY <2>1, <2>2, <2>3 DEF SeqInv
<1> QED
  BY <1>11, <1>12

LEMMA CommitEdges ==
  ASSUME OneInv, NEW w \in Writers, Commit(w)
  PROVE  EdgesRight'
<1>1. PICK k \in Kinds, m \in Nat, n \in Nat, W \in {work(w)} :
        k = Kind(w) /\ m = seqInfo[k] /\ n = Len(work(w)) /\ W = work(w)
  BY WriterTypes, CommitRows
<1>2. /\ ToSet(W) = {W[i] : i \in 1 .. n} /\ ToSet(W) \subseteq Entries
      /\ ToSet(txn[w].rows) = {txn[w].rows[i] : i \in 1 .. n}
      /\ \A i \in 1 .. n : /\ txn[w].rows[i] \in RowRecs
                           /\ txn[w].rows[i].entry = W[i] /\ txn[w].rows[i].seq = m + i
                           /\ seqOf'[W[i]] = m + i
  <2>1. /\ ToSet(work(w)) = {work(w)[i] : i \in 1 .. Len(work(w))} /\ ToSet(work(w)) \subseteq Entries
        /\ ToSet(txn[w].rows) = {txn[w].rows[i] : i \in 1 .. Len(work(w))}
        /\ \A i \in 1 .. Len(work(w)) :
             /\ txn[w].rows[i] \in RowRecs
             /\ txn[w].rows[i].entry = work(w)[i] /\ txn[w].rows[i].seq = seqInfo[Kind(w)] + i
             /\ seqOf'[work(w)[i]] = seqInfo[Kind(w)] + i
    BY CommitRows, ZenonT(40)
  <2> QED
    BY <2>1, <1>1
<1>3. /\ rowsOf(k)' = rowsOf(k) \union ToSet(W)
      /\ \A e \in rowsOf(k) : seqOf'[e] = seqOf[e]
      /\ edges'[k] = edges[k] \union rowEdges(ToSet(txn[w].rows))
  BY <1>1, CommitRowsOf, CommitTables
<1>4. /\ \A e \in rowsOf(k) : seqOf[e] \in 1 .. m
      /\ \A x \in edges[k] : x[2] \in 1 .. m
  BY <1>1 DEF OneInv, SeqInv
<1>5. Keeps /\ TypeOK /\ EdgesRight /\ IdInv
  BY CommitIds DEF OneInv, IdInv
<1>6. \A x \in rowEdges(ToSet(txn[w].rows)) : \E i \in 1 .. n : x[2] = m + i /\ x[1] \in txn[w].rows[i].ids
  <2> TAKE x \in rowEdges(ToSet(txn[w].rows))
  <2>1. PICK r \in ToSet(txn[w].rows) : \E a \in r.ids : x = <<a, r.seq>>
    BY DEF rowEdges
  <2>2. PICK i \in 1 .. n : r = txn[w].rows[i]
    BY <2>1, <1>2
  <2> QED
    BY <2>1, <2>2, <1>2
<1>7. ASSUME NEW e \in rowsOf(k)
      PROVE  RightIds(e, EdgeIds(k, e))'
  <2>1. \A x \in rowEdges(ToSet(txn[w].rows)) : x[2] # seqOf[e]
    <3> TAKE x \in rowEdges(ToSet(txn[w].rows))
    <3>1. PICK i \in 1 .. n : x[2] = m + i
      BY <1>6
    <3>2. seqOf[e] \in 1 .. m
      BY <1>4
    <3> QED
      BY <3>1, <3>2
  <2>2. EdgeIds(k, e)' = EdgeIds(k, e)
    BY <2>1, <1>3 DEF EdgeIds
  <2> QED
    BY <2>2, <1>5, EdgesOfRowKept
<1>8. ASSUME NEW e \in ToSet(W)
      PROVE  RightIds(e, EdgeIds(k, e))'
  <2>1. PICK i \in 1 .. n : e = W[i]
    BY <1>2
  <2>2. PICK ids \in SUBSET Nat : ids = txn[w].rows[i].ids
    BY <1>2 DEF RowRecs
  <2>3. RightIds(e, ids)
    <3>1. i \in DOMAIN txn[w].rows /\ RowsInv(w)
      <4>1. Len(txn[w].rows) = n /\ txn[w].rows \in Seq(RowRecs)
        BY <1>1, OneTypes DEF Commit, NumberOK, Counted, WillWrite, Working, TxnRecs, work
      <4> QED
        BY <4>1, <1>5 DEF IdInv
    <3> QED
      BY <3>1, <2>1, <2>2, <1>2 DEF RowsInv
  <2>4. e \in Entries
    BY <1>2
  <2>5. RightIds(e, ids)'
    BY <2>3, <2>4, <1>5, RightIdsKept
  <2>6. EdgeIds(k, e)' = ids
    <3>1. seqOf'[e] = m + i
      BY <2>1, <1>2
    <3>2. ASSUME NEW a \in EdgeIds(k, e)'
          PROVE  a \in ids
      <4>1. PICK x \in edges'[k] : x[2] = m + i /\ a = x[1]
        BY <3>1, <3>2 DEF EdgeIds
      <4>2. x \notin edges[k]
        BY <4>1, <1>4
      <4>3. PICK j \in 1 .. n : x[2] = m + j /\ x[1] \in txn[w].rows[j].ids
        BY <4>1, <4>2, <1>3, <1>6
      <4>4. j = i
        BY <4>1, <4>3
      <4> QED
        BY <4>1, <4>3, <4>4, <2>2
    <3>3. ASSUME NEW a \in ids
          PROVE  a \in EdgeIds(k, e)'
      <4>1. txn[w].rows[i] \in ToSet(txn[w].rows) /\ txn[w].rows[i].seq = m + i /\ a \in txn[w].rows[i].ids
        BY <1>2, <2>2
      <4>2. <<a, m + i>> \in rowEdges(ToSet(txn[w].rows))
        BY <4>1 DEF rowEdges
      <4>3. <<a, m + i>> \in edges'[k]
        BY <4>2, <1>3
      <4> QED
        BY <4>3, <3>1 DEF EdgeIds
    <3> QED
      BY <3>2, <3>3
  <2> QED
    BY <2>5, <2>6
<1>9. ASSUME NEW l \in Kinds, l # k, NEW e \in rowsOf(l)'
      PROVE  RightIds(e, EdgeIds(l, e))'
  <2>1. /\ rowsOf(l)' = rowsOf(l) /\ \A h \in Heights : \A d \in ToSet(Work[l][h]) : seqOf'[d] = seqOf[d]
        /\ edges'[l] = edges[l]
    BY <1>1, <1>9, CommitRowsOf, CommitTables
  <2>2. e \in rowsOf(l) /\ seqOf'[e] = seqOf[e]
    BY <2>1 DEF rowsOf
  <2>3. EdgeIds(l, e)' = EdgeIds(l, e)
    BY <2>1, <2>2 DEF EdgeIds
  <2> QED
    BY <2>2, <2>3, <1>5, EdgesOfRowKept
<1>10. \A l \in Kinds : \A e \in rowsOf(l)' : RightIds(e, EdgeIds(l, e))'
  BY <1>3, <1>7, <1>8, <1>9
<1> QED
  BY <1>10 DEF EdgesRight, RightIds, EdgeIds
-----------------------------------------------------------------------------
LEMMA InitOne == Init => OneInv
<1> SUFFICES ASSUME Init PROVE OneInv
  OBVIOUS
<1>1. IdInv
  BY InitIds
<1>2. blocks = {} /\ \A k \in Kinds : edges[k] = {} /\ seqInfo[k] = 0
  BY DEF Init
<1>3. \A k \in Kinds, h \in Heights : \A e \in ToSet(Work[k][h]) : seqOf[e] = 0
  <2> TAKE k \in Kinds, h \in Heights
  <2>1. Work[k][h] \in Seq(Entries)
    BY Constants
  <2>2. \A e \in ToSet(Work[k][h]) : e \in Entries
    BY <2>1 DEF ToSet
  <2> QED
    BY <2>2 DEF Init
<1>4. ASSUME NEW w \in Writers
      PROVE  NumberInv(w)
  <2>1. txn[w] = idle(1) /\ pend[w] = noWrites /\ ~ noWrites.block
    BY DEF Init, noWrites
  <2>2. Kind(w) \in Kinds /\ Kind(w) \in {"tx", "itx"}
    BY WriterTypes DEF Kinds
  <2>3. NumberOK(Kind(w), idle(1), noWrites)
    BY <2>1, <2>2, <1>2, <1>3, IdleOK
  <2> QED
    BY <2>1, <2>3 DEF NumberInv
<1>5. ASSUME NEW k \in Kinds
      PROVE  rowsOf(k) = {} /\ SeqInv(k)
  <2>1. rowsOf(k) = {}
    BY <1>3 DEF rowsOf
  <2>2. 1 .. seqInfo[k] = {}
    BY <1>2
  <2> QED
    BY <2>1, <2>2, <1>2 DEF SeqInv
<1>6. BlockInv
  BY <1>3 DEF BlockInv, Kinds
<1>7. EdgesRight
  BY <1>5 DEF EdgesRight
<1> QED
  BY <1>1, <1>4, <1>5, <1>6, <1>7 DEF OneInv

(* A step that leaves the tables alone.                                    *)
LEMMA QuietStep ==
  ASSUME OneInv, IdInv', Keeps, UNCHANGED dbVars, \A v \in Writers : NumberInv(v)'
  PROVE  OneInv'
<1>1. (\A k \in Kinds : SeqInv(k)') /\ BlockInv'
  BY SameTables DEF OneInv
<1>2. EdgesRight'
  BY EdgesKept DEF OneInv, IdInv
<1> QED
  BY <1>1, <1>2 DEF OneInv

LEMMA StepOne ==
  ASSUME OneIndexer, OneInv, [Next]_vars
  PROVE  OneInv'
<1>1. IdInv' /\ Keeps
  BY StepIds DEF OneInv
<1>2. ASSUME NEW w \in Writers, Write(w)
      PROVE  OneInv'
  <2>1. CASE CollectBegin(w)
    BY <2>1, <1>1, CollectBeginNumbers, QuietStep DEF CollectBegin
  <2>2. CASE InsertBlock(w)
    BY <2>2, <1>1, InsertBlockNumbers, QuietStep DEF InsertBlock
  <2>3. CASE ConsumeBegin(w)
    BY <2>3, <1>1, ConsumeBeginNumbers, QuietStep DEF ConsumeBegin
  <2>4. CASE GetSeqInfo(w)
    BY <2>4, <1>1, GetSeqInfoNumbers, QuietStep DEF GetSeqInfo
  <2>5. CASE Lookup(w)
    BY <2>5, <1>1, LookupNumbers, QuietStep DEF Lookup
  <2>6. CASE Fetch(w)
    BY <2>6, <1>1, FetchNumbers, QuietStep DEF Fetch
  <2>7. CASE Create(w)
    BY <2>7, <1>1, CreateNumbers, QuietStep DEF Create
  <2>8. CASE InsertRows(w)
    BY <2>8, <1>1, InsertRowsNumbers, QuietStep DEF InsertRows
  <2>9. CASE UpdateSeqInfo(w)
    BY <2>9, <1>1, UpdateSeqInfoNumbers, QuietStep DEF UpdateSeqInfo
  <2>10. CASE Commit(w)
    BY <2>10, <1>1, CommitNumbers, CommitBlocks, CommitSeqs, CommitEdges DEF OneInv
  <2>11. CASE ConsumeFail(w)
    BY <2>11, <1>1, ConsumeFailNumbers, QuietStep DEF ConsumeFail
  <2>12. CASE CollectFail(w)
    BY <2>12, <1>1, CollectFailNumbers, QuietStep DEF CollectFail
  <2> QED
    BY <1>2, <2>1, <2>2, <2>3, <2>4, <2>5, <2>6, <2>7, <2>8, <2>9, <2>10, <2>11, <2>12 DEF Write
<1>3. ASSUME UNCHANGED <<dbVars, txn, pend>>
      PROVE  OneInv'
  <2>1. UNCHANGED dbVars /\ txn' = txn /\ pend' = pend
    BY <1>3
  <2>2. ASSUME NEW v \in Writers
        PROVE  NumberInv(v)'
    <3>1. NumberOK(Kind(v), txn[v], pend[v])
      BY OneTypes
    <3>2. txn'[v] = txn[v] /\ pend'[v] = pend[v] /\ \A u \in Writers : u # v => txn'[u] = txn[u] /\ pend'[u] = pend[u]
      BY <2>1
    <3> QED
      BY <2>1, <3>1, <3>2, NumberStep
  <2> QED
    BY <2>1, <2>2, <1>1, QuietStep
<1>4. ASSUME NEW p \in Processes, NEW a \in Accounts, Evict(p, a)
      PROVE  OneInv'
  BY <1>3, <1>4 DEF Evict
<1>5. CASE UNCHANGED vars
  BY <1>3, <1>5 DEF vars
<1> QED
  BY <1>2, <1>4, <1>5 DEF Next

LEMMA OneIsRight ==
  ASSUME OneIndexer
  PROVE  Spec => []OneInv
<1>1. OneInv /\ [Next]_vars => OneInv'
  BY StepOne
<1> QED
  BY InitOne, <1>1, PTL DEF Spec

(* As many rows as the last sequence says.                                 *)
LEMMA RowsAreCounted ==
  ASSUME TypeOK, NEW k \in Kinds, SeqInv(k)
  PROVE  Cardinality(rowsOf(k)) = seqInfo[k]
<1> DEFINE n == seqInfo[k]
           f == [e \in rowsOf(k) |-> seqOf[e]]
<1>1. n \in Nat /\ {seqOf[e] : e \in rowsOf(k)} = 1 .. n
  BY DEF TypeOK, SeqInv
<1>2. f \in [rowsOf(k) -> 1 .. n]
  BY <1>1
<1>3. \A d, e \in rowsOf(k) : f[d] = f[e] => d = e
  BY DEF SeqInv
<1>4. \A i \in 1 .. n : \E e \in rowsOf(k) : f[e] = i
  BY <1>1
<1>5. IsFiniteSet(1 .. n) /\ Cardinality(1 .. n) = n
  <2>1. 1 \in Int /\ n \in Int /\ (IF 1 > n THEN 0 ELSE n - 1 + 1) = n
    BY <1>1
  <2> QED
    BY <2>1, FS_Interval
<1> HIDE DEF f, n
<1>6. f \in Injection(rowsOf(k), 1 .. n) /\ f \in Surjection(rowsOf(k), 1 .. n)
  BY <1>2, <1>3, <1>4 DEF Injection, Surjection, IsInjective
<1>7. Cardinality(rowsOf(k)) = Cardinality(1 .. n)
  BY <1>5, <1>6, FS_Injection
<1> QED
  BY <1>5, <1>7 DEF n

(* The rows of a kind are numbered from 1 on without a gap, each once and  *)
(* in the order of the chain, whatever fails and wherever the process      *)
(* starts again (TxSubmodule.collect, CollectInternalTxs).                 *)
THEOREM RowsAreConsecutive ==
  ASSUME OneIndexer
  PROVE  Spec => []Consecutive
<1>1. OneInv => Consecutive
  <2> SUFFICES ASSUME OneInv, NEW k \in Kinds
               PROVE  /\ Cardinality(rowsOf(k)) = seqInfo[k]
                      /\ {seqOf[e] : e \in rowsOf(k)} = 1 .. seqInfo[k]
                      /\ \A g, h \in Heights : g < h =>
                           \A d \in ToSet(Work[k][g]) \intersect rowsOf(k),
                              e \in ToSet(Work[k][h]) \intersect rowsOf(k) : seqOf[d] < seqOf[e]
    BY DEF Consecutive
  <2>1. SeqInv(k) /\ TypeOK
    BY DEF OneInv, IdInv
  <2>2. Cardinality(rowsOf(k)) = seqInfo[k]
    BY <2>1, RowsAreCounted
  <2> QED
    BY <2>1, <2>2 DEF SeqInv
<1> QED
  BY OneIsRight, <1>1, PTL

(* The edges of a committed row are the ids of its accounts and no others, *)
(* unless an insert raced (GetOrCreateAccountIds, TxSubmodule.collect).    *)
THEOREM EdgesAreRight ==
  ASSUME OneIndexer
  PROVE  Spec => []EdgesRight
<1>1. OneInv => EdgesRight
  BY DEF OneInv
<1> QED
  BY OneIsRight, <1>1, PTL

(* There is no edge for a sequence that no row has.                        *)
THEOREM EdgesHaveRows ==
  ASSUME OneIndexer
  PROVE  Spec => []NoOrphanEdges
<1>1. OneInv => NoOrphanEdges
  <2> SUFFICES ASSUME OneInv, NEW k \in Kinds, NEW x \in edges[k]
               PROVE  \E e \in rowsOf(k) : seqOf[e] = x[2]
    BY DEF NoOrphanEdges
  <2>1. x[2] \in 1 .. seqInfo[k] /\ {seqOf[e] : e \in rowsOf(k)} = 1 .. seqInfo[k]
    BY DEF OneInv, SeqInv
  <2> QED
    BY <2>1
<1> QED
  BY OneIsRight, <1>1, PTL
=============================================================================
