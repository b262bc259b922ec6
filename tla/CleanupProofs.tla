--------------------------- MODULE CleanupProofs ---------------------------
(***************************************************************************)
(* Proofs about the two cleanup extensions: whatever batches are repeated  *)
(* and however their steps interleave with each other and the collector,   *)
(* each leaves what its status row claims, and neither takes away a row    *)
(* that belongs there.                                                     *)
(***************************************************************************)
EXTENDS Cleanup, FiniteSetTheorems, WellFoundedInduction, TLAPS

(* No row is left for an account that occurs in `ret` only.                *)
RetClear(s) ==
  \A a \in FindRetOnlyAddresses(s) \ {Signer[s]} : txAccounts[s][a] = "none"

(* The rows of s are those of the collector, up to accounts without an id. *)
Good(s) ==
  \A a \in Accounts :
    \/ txAccounts[s][a] = RowFor(s, a)
    \/ txAccounts[s][a] = "none" /\ <<s, a>> \in unresolved

(* Rows are those of indexed transactions, and of accounts with an id; the *)
(* signers of indexed transactions have one.                               *)
DictInv ==
  /\ \A s \in Seqs, a \in Accounts : txAccounts[s][a] # "none" => s \in txs /\ a \in dict
  /\ \A s \in txs : Signer[s] \in dict

(* evmret goes on from its status row, never beyond the collector, and has *)
(* cleared what it has taken from its batch.                               *)
RetInv ==
  /\ retStatus.height <= height
  /\ ret.at # "off" => ret.current = retStatus.height + 1
  /\ ret.at = "batch" =>
       /\ ret.end <= height
       /\ ret.todo \subseteq txs
       /\ \A s \in Seqs : Height[s] <= ret.end /\ s \notin ret.todo => RetClear(s)

(* A row that txaccountcleanup has read is still there, or the other       *)
(* extension has deleted it and it does not belong there.                  *)
ReadInv ==
  tac.at = "batch" =>
    \A s \in tac.todo, a \in Accounts :
      \/ txAccounts[s][a] = tac.actual[s][a]
      \/ txAccounts[s][a] = "none" /\ RowFor(s, a) = "none"

(* txaccountcleanup goes on from its status row; what is above it, and     *)
(* what it has taken from its batch, is good.                              *)
TacInv ==
  /\ tac.at = "first" => tacStatus.sequence = -1 /\ \A s \in txs : s > tac.current => Good(s)
  /\ tac.at \in {"next", "batch"} => tac.current = tacStatus.sequence
  /\ tac.at = "batch" =>
       /\ 1 <= tac.start
       /\ tac.start <= tac.current
       /\ tac.todo \subseteq txs \intersect (tac.start .. tac.current)
       /\ \A s \in txs : s >= tac.start /\ s \notin tac.todo => Good(s)

(* What is in the status rows, and what will be added to them, has been    *)
(* deleted.                                                                *)
CountsInv == retStatus.corrected + ret.deleted + tacStatus.deleted + tac.deleted <= removed

CleanupInv ==
  /\ TypeOK
  /\ DictInv
  /\ RetInv
  /\ RetOnlyGone
  /\ ReadInv
  /\ TacInv
  /\ Repaired
  /\ CountsInv
-----------------------------------------------------------------------------
(* A set of naturals has a least element, and a bounded one a greatest.    *)
LEMMA LeastNat ==
  ASSUME NEW S \in SUBSET Nat, S # {}
  PROVE  \E m \in S : \A k \in S : m <= k
<1> DEFINE R == OpToRel(<, Nat)
<1>1. IsWellFoundedOn(R, Nat)
  BY NatLessThanWellFounded, Zenon
<1>2. \A x, y \in Nat : <<y, x>> \in R <=> y < x
  BY DEF OpToRel
<1> HIDE DEF R
<1>3. \E x \in S : \A y \in S : ~ (<<y, x>> \in R)
  BY <1>1, WFMin
<1>4. PICK x \in S : \A y \in S : ~ (<<y, x>> \in R)
  BY <1>3
<1>5. ASSUME NEW y \in S
      PROVE  x <= y
  <2>1. x \in Nat /\ y \in Nat
    OBVIOUS
  <2>2. ~ (y < x)
    BY <1>2, <1>4, <2>1, Zenon
  <2> QED
    BY <2>1, <2>2
<1> QED
  BY <1>5

LEMMA GreatestNat ==
  ASSUME NEW S \in SUBSET Nat, S # {}, NEW n \in Nat, \A k \in S : k <= n
  PROVE  \E m \in S : \A k \in S : k <= m
<1> DEFINE U == {m \in Nat : \A k \in S : k <= m}
<1>1. U \in SUBSET Nat /\ U # {}
  OBVIOUS
<1>2. PICK m \in U : \A k \in U : m <= k
  <2> HIDE DEF U
  <2> QED
    BY <1>1, LeastNat
<1>3. m \in Nat /\ \A k \in S : k <= m
  BY <1>2
<1>4. CASE m \in S
  BY <1>3, <1>4
<1>5. CASE m \notin S
  <2>1. \A k \in S : k <= m - 1 /\ k >= 0
    BY <1>3, <1>5
  <2>0. PICK k \in S : TRUE
    OBVIOUS
  <2>2. m - 1 \in Nat
    BY <2>0, <2>1, <1>3
  <2>3. m - 1 \in U
    BY <2>1, <2>2
  <2> QED
    BY <2>3, <1>2, <1>3
<1> QED
  BY <1>4, <1>5

LEMMA HighestOf ==
  ASSUME NEW S \in SUBSET Nat, NEW n \in Nat, \A k \in S : k <= n
  PROVE  Highest(S) \in Nat /\ Highest(S) <= n /\ \A k \in S : k <= Highest(S)
<1>1. CASE S = {}
  BY <1>1 DEF Highest
<1>2. CASE S # {}
  <2>1. \E m \in S : \A k \in S : k <= m
    BY <1>2, GreatestNat
  <2>2. Highest(S) = CHOOSE x \in S : \A y \in S : y <= x
    BY <1>2 DEF Highest
  <2>3. Highest(S) \in S /\ \A k \in S : k <= Highest(S)
    BY <2>1, <2>2
  <2> QED
    BY <2>3
<1> QED
  BY <1>1, <1>2
-----------------------------------------------------------------------------
LEMMA Constants ==
  /\ MaxSeq \in Nat
  /\ Seqs \subseteq Nat \ {0}
  /\ \A s \in Seqs : Height[s] \in Nat \ {0}
  /\ \A s \in Seqs : Signer[s] \in Accounts
  /\ \A s \in Seqs : Named[s] \subseteq Accounts
  /\ \A s \in Seqs : Ret[s] \subseteq Accounts
  /\ IsFiniteSet(Accounts)
  /\ LegacyHeight \in Nat
  /\ BatchSize \in Nat /\ BatchSize > 0
  /\ MaxKills \in Nat
  BY CleanupAssumption DEF Seqs

(* What the extensions read of the tx table.                               *)
LEMMA TableHeight ==
  ASSUME TypeOK
  PROVE  LET m == Highest({Height[s] : s \in txs})
         IN  m \in Nat /\ m <= height /\ \A s \in txs : Height[s] <= m
<1> DEFINE S == {Height[s] : s \in txs}
<1>1. S \in SUBSET Nat /\ \A k \in S : k <= height
  BY Constants DEF txs
<1>2. height \in Nat
  BY DEF TypeOK
<1>3. Highest(S) \in Nat /\ Highest(S) <= height /\ \A k \in S : k <= Highest(S)
  <2> HIDE DEF S
  <2> QED
    BY <1>1, <1>2, HighestOf
<1> QED
  BY <1>3

LEMMA TableSequence ==
  ASSUME TypeOK
  PROVE  Highest(txs) \in Nat /\ \A s \in txs : s <= Highest(txs)
<1>1. txs \in SUBSET Nat /\ \A s \in txs : s <= MaxSeq
  BY Constants DEF txs, Seqs
<1> QED
  BY <1>1, Constants, HighestOf

LEMMA RowsCounted ==
  ASSUME NEW s \in Seqs, NEW S \in SUBSET Accounts
  PROVE  RowsAffected(s, S) \in Nat
<1>1. IsFiniteSet({a \in S : txAccounts[s][a] # "none"})
  BY Constants, FS_Subset
<1> QED
  BY <1>1, FS_CardinalityType DEF RowsAffected

LEMMA RowForKinds ==
  ASSUME NEW s \in Seqs, NEW a \in Accounts
  PROVE  /\ RowFor(s, a) \in RowKinds
         /\ RowFor(s, a) = "none" <=> a # Signer[s] /\ a \notin Named[s]
  BY DEF RowFor, RowKinds

(* An account that evmret deletes has no row by rights.                    *)
LEMMA RetOnlyHasNoRow ==
  ASSUME NEW s \in Seqs, NEW a \in FindRetOnlyAddresses(s) \ {Signer[s]}
  PROVE  a \in Accounts /\ RowFor(s, a) = "none"
  BY Constants DEF FindRetOnlyAddresses, RowFor
-----------------------------------------------------------------------------
(* The side of an extension is kept by a step that leaves it alone, spoils *)
(* no transaction and adds only good ones.                                 *)
LEMMA RetSide ==
  ASSUME TypeOK, RetInv, RetOnlyGone, UNCHANGED <<ret, retStatus>>,
         height' \in Nat, height <= height',
         \A s \in Seqs : s \in txs => s \in txs',
         \A s \in Seqs : RetClear(s) => RetClear(s)'
  PROVE  RetInv' /\ RetOnlyGone'
<1>1. \A s \in Seqs : Height[s] <= retStatus.height => RetClear(s)
  BY DEF RetOnlyGone, RetClear
<1>2. \A s \in Seqs : Height[s] <= retStatus'.height => RetClear(s)'
  BY <1>1
<1>3. RetOnlyGone'
  BY <1>2 DEF RetOnlyGone, RetClear
<1>4. retStatus.height \in Nat /\ ret.end \in Nat /\ height \in Nat /\ ret.todo \subseteq Seqs
  BY DEF TypeOK
<1>5. RetInv'
  BY <1>4 DEF RetInv
<1> QED
  BY <1>3, <1>5

LEMMA TacSide ==
  ASSUME TacInv, Repaired, UNCHANGED <<tac, tacStatus>>,
         \A s \in Seqs : s \in txs => s \in txs',
         \A s \in txs : Good(s) => Good(s)',
         \A s \in Seqs : s \in txs' /\ s \notin txs => Good(s)'
  PROVE  TacInv' /\ Repaired'
<1>1. txs \subseteq Seqs /\ txs' \subseteq Seqs
  BY DEF txs
<1>2. TacInv'
  BY <1>1 DEF TacInv
<1>3. tacStatus.sequence >= 0 => \A s \in txs : s > tacStatus.sequence => Good(s)
  BY DEF Repaired, Good
<1>4. tacStatus'.sequence >= 0 => \A s \in txs' : s > tacStatus'.sequence => Good(s)'
  BY <1>1, <1>3
<1>5. Repaired'
  BY <1>4 DEF Repaired, Good
<1> QED
  BY <1>2, <1>5

(* A step that leaves the tables alone.                                    *)
LEMMA TablesSame ==
  ASSUME UNCHANGED <<height, dict, txAccounts, unresolved>>
  PROVE  /\ txs' = txs
         /\ DictInv => DictInv'
         /\ \A s \in Seqs : RetClear(s)' = RetClear(s) /\ Good(s)' = Good(s)
  BY DEF txs, DictInv, RetClear, Good, FindRetOnlyAddresses, RowFor
-----------------------------------------------------------------------------
LEMMA InitHolds ==
  ASSUME Init
  PROVE  CleanupInv
<1>1. TypeOK
  <2>1. noRows \in [Accounts -> RowKinds]
    BY DEF noRows, RowKinds
  <2>2. tac.actual \in Rows
    BY <2>1 DEF Init, tacOff, Rows
  <2>3. ret \in [at : {"off", "poll", "batch"}, current : Nat, end : Nat,
                 todo : SUBSET Seqs, deleted : Nat]
    BY DEF Init, retOff
  <2>4. tac \in [at : {"off", "first", "next", "batch", "done"}, current : Nat,
                 start : Nat, todo : SUBSET Seqs, deleted : Nat, inserted : Nat, actual : Rows]
    BY <2>2 DEF Init, tacOff
  <2>5. txAccounts \in Rows
    BY DEF Init, Rows
  <2>6. height \in Nat /\ dict \in SUBSET Accounts /\ kills \in Nat /\ removed \in Nat
    BY Constants DEF Init
  <2> QED
    BY <2>3, <2>4, <2>5, <2>6 DEF TypeOK, Init
<1>2. DictInv
  BY Constants DEF DictInv, Init, txs
<1>3. RetInv /\ ReadInv /\ TacInv /\ CountsInv
  BY Constants DEF Init, RetInv, ReadInv, TacInv, CountsInv, retOff, tacOff
<1>4. RetOnlyGone
  <2>1. \A s \in Seqs : ~ (Height[s] <= 0)
    BY Constants
  <2> QED
    BY <2>1 DEF Init, RetOnlyGone
<1>5. Repaired
  BY DEF Init, Repaired
<1> QED
  BY <1>1, <1>2, <1>3, <1>4, <1>5 DEF CleanupInv

LEMMA StutterKeeps ==
  ASSUME CleanupInv, UNCHANGED vars
  PROVE  CleanupInv'
<1> USE DEF vars
<1>1. TypeOK'
  BY DEF CleanupInv, TypeOK
<1>2. DictInv' /\ \A s \in Seqs : RetClear(s)' = RetClear(s) /\ Good(s)' = Good(s)
  BY TablesSame DEF CleanupInv
<1>3. txs' = txs
  BY TablesSame
<1>4. RetInv' /\ RetOnlyGone'
  BY <1>2, <1>3, RetSide DEF CleanupInv, TypeOK
<1>5. TacInv' /\ Repaired'
  BY <1>2, <1>3, TacSide DEF CleanupInv, txs
<1>6. ReadInv' /\ CountsInv'
  BY DEF CleanupInv, ReadInv, CountsInv, RowFor
<1> QED
  BY <1>1, <1>2, <1>4, <1>5, <1>6 DEF CleanupInv

(* The rows of a new block are those of the collector.                     *)
LEMMA BlockCommitKeeps ==
  ASSUME CleanupInv, BlockCommit
  PROVE  CleanupInv'
<1> DEFINE new == {s \in Seqs : Height[s] = height + 1}
<1>1. /\ height' = height + 1
      /\ txAccounts' = [s \in Seqs |-> IF s \in new THEN [a \in Accounts |-> RowFor(s, a)]
                                       ELSE txAccounts[s]]
      /\ dict' = dict \union UNION {Named[s] \union {Signer[s]} : s \in new}
      /\ UNCHANGED <<retStatus, ret, tacStatus, tac, unresolved, removed, kills>>
  BY DEF BlockCommit
<1>2. TypeOK
  BY DEF CleanupInv
<1>3. \A s \in Seqs, a \in Accounts :
        txAccounts'[s][a] = IF s \in new THEN RowFor(s, a) ELSE txAccounts[s][a]
  BY <1>1
<1>4. \A s \in Seqs : s \in txs' <=> s \in txs \/ s \in new
  BY <1>1, <1>2, Constants DEF txs, TypeOK
<1>5. \A s \in new : s \notin txs
  BY <1>2, Constants DEF txs, TypeOK
<1>6. TypeOK'
  <2>1. txAccounts' \in Rows
    BY <1>1, <1>2, RowForKinds DEF TypeOK, Rows
  <2>2. dict' \in SUBSET Accounts
    <3>1. \A s \in new : Named[s] \union {Signer[s]} \subseteq Accounts
      BY Constants
    <3>2. dict \subseteq Accounts
      BY <1>2 DEF TypeOK
    <3> HIDE DEF new
    <3> QED
      BY <1>1, <3>1, <3>2
  <2>3. height' \in Nat
    BY <1>1, <1>2 DEF TypeOK
  <2> QED
    BY <2>1, <2>2, <2>3, <1>1, <1>2 DEF TypeOK
<1> HIDE DEF new
<1>7. DictInv'
  <2>1. \A s \in new : Named[s] \subseteq dict' /\ Signer[s] \in dict'
    BY <1>1
  <2>2. dict \subseteq dict'
    BY <1>1
  <2>3. ASSUME NEW s \in Seqs, NEW a \in Accounts, txAccounts'[s][a] # "none"
        PROVE  s \in txs' /\ a \in dict'
    <3>1. CASE s \in new
      <4>1. a = Signer[s] \/ a \in Named[s]
        BY <1>3, <2>3, <3>1, RowForKinds
      <4> QED
        BY <4>1, <3>1, <1>4, <2>1
    <3>2. CASE s \notin new
      BY <3>2, <2>3, <2>2, <1>3, <1>4 DEF CleanupInv, DictInv
    <3> QED
      BY <3>1, <3>2
  <2>4. \A s \in Seqs : s \in txs' => Signer[s] \in dict'
    BY <2>1, <2>2, <1>4 DEF CleanupInv, DictInv
  <2>5. txs' \subseteq Seqs
    BY DEF txs
  <2> QED
    BY <2>3, <2>4, <2>5 DEF DictInv
<1>8. ASSUME NEW s \in Seqs, RetClear(s)
      PROVE  RetClear(s)'
  <2>1. \A a \in FindRetOnlyAddresses(s) \ {Signer[s]} :
          txAccounts'[s][a] = "none"
    BY <1>3, <1>8, RetOnlyHasNoRow DEF RetClear
  <2> QED
    BY <2>1 DEF RetClear, FindRetOnlyAddresses
<1>9. RetInv' /\ RetOnlyGone'
  <2>1. height' \in Nat /\ height <= height'
    BY <1>1, <1>2 DEF TypeOK
  <2> QED
    BY <2>1, <1>1, <1>4, <1>8, RetSide DEF CleanupInv
<1>10. \A s \in txs : Good(s) => Good(s)'
  BY <1>1, <1>3, <1>5 DEF Good, txs, RowFor
<1>11. \A s \in new : s \in Seqs => Good(s)'
  BY <1>3 DEF Good, RowFor
<1>12. TacInv' /\ Repaired'
  BY <1>1, <1>4, <1>10, <1>11, TacSide DEF CleanupInv
<1>13. ReadInv'
  <2>1. tac.at = "batch" => tac.todo \subseteq txs
    BY DEF CleanupInv, TacInv
  <2> QED
    BY <2>1, <1>1, <1>3, <1>5 DEF CleanupInv, ReadInv, txs, RowFor
<1>14. CountsInv'
  BY <1>1 DEF CleanupInv, CountsInv
<1> QED
  BY <1>6, <1>7, <1>9, <1>12, <1>13, <1>14 DEF CleanupInv

LEMMA KillKeeps ==
  ASSUME CleanupInv, Kill
  PROVE  CleanupInv'
<1> USE DEF Kill
<1>1. TypeOK
  BY DEF CleanupInv
<1>2. TypeOK'
  <2>1. ret' \in [at : {"off", "poll", "batch"}, current : Nat, end : Nat,
                  todo : SUBSET Seqs, deleted : Nat]
    BY DEF retOff
  <2>2. tacOff.actual \in Rows
    BY DEF tacOff, Rows, noRows, RowKinds
  <2>3. tac' \in [at : {"off", "first", "next", "batch", "done"}, current : Nat,
                  start : Nat, todo : SUBSET Seqs, deleted : Nat, inserted : Nat, actual : Rows]
    BY <2>2 DEF tacOff
  <2>4. kills' \in Nat
    BY <1>1 DEF TypeOK
  <2> QED
    BY <2>1, <2>3, <2>4, <1>1 DEF TypeOK
<1>3. DictInv' /\ txs' = txs /\ \A s \in Seqs : RetClear(s)' = RetClear(s) /\ Good(s)' = Good(s)
  BY TablesSame DEF CleanupInv
<1>4. RetInv' /\ ReadInv' /\ TacInv'
  BY DEF CleanupInv, RetInv, ReadInv, TacInv, retOff, tacOff
<1>5. RetOnlyGone'
  BY DEF CleanupInv, RetOnlyGone, FindRetOnlyAddresses
<1>6. Repaired'
  BY <1>3 DEF CleanupInv, Repaired, Good
<1>7. CountsInv'
  <2>1. ret'.deleted = 0 /\ tac'.deleted = 0
    BY DEF retOff, tacOff
  <2> QED
    BY <2>1, <1>1 DEF CleanupInv, CountsInv, TypeOK
<1> QED
  BY <1>2, <1>3, <1>4, <1>5, <1>6, <1>7 DEF CleanupInv
-----------------------------------------------------------------------------
LEMMA RetStartKeeps ==
  ASSUME CleanupInv, RetStart
  PROVE  CleanupInv'
<1> USE DEF RetStart
<1>1. TypeOK
  BY DEF CleanupInv
<1>2. ret'.at = "poll" /\ ret'.current = retStatus.height + 1 /\ ret'.deleted = ret.deleted
  BY <1>1 DEF TypeOK
<1>3. TypeOK'
  <2>1. retStatus.height + 1 \in Nat
    BY <1>1 DEF TypeOK
  <2>2. ret' \in [at : {"off", "poll", "batch"}, current : Nat, end : Nat,
                  todo : SUBSET Seqs, deleted : Nat]
    BY <2>1, <1>1 DEF TypeOK
  <2> QED
    BY <2>2, <1>1 DEF TypeOK
<1>4. DictInv' /\ txs' = txs /\ \A s \in Seqs : RetClear(s)' = RetClear(s) /\ Good(s)' = Good(s)
  BY TablesSame DEF CleanupInv
<1>5. RetInv' /\ RetOnlyGone'
  BY <1>2 DEF CleanupInv, RetInv, RetOnlyGone, FindRetOnlyAddresses
<1>6. TacInv' /\ Repaired'
  BY <1>4, TacSide DEF CleanupInv, txs
<1>7. ReadInv' /\ CountsInv'
  BY <1>2 DEF CleanupInv, ReadInv, CountsInv, RowFor
<1> QED
  BY <1>3, <1>4, <1>5, <1>6, <1>7 DEF CleanupInv

(* What is not in the new batch is above it or was cleared before it.      *)
LEMMA RetPollKeeps ==
  ASSUME CleanupInv, RetPoll
  PROVE  CleanupInv'
<1> DEFINE maxHeight == Highest({Height[s] : s \in txs})
           endHeight == MinOf(ret.current + BatchSize - 1, maxHeight)
<1>1. TypeOK
  BY DEF CleanupInv
<1>2. maxHeight \in Nat /\ maxHeight <= height /\ \A s \in txs : Height[s] <= maxHeight
  BY <1>1, TableHeight
<1>3. /\ ret.at = "poll"
      /\ ret.current <= maxHeight
      /\ ret' = [ret EXCEPT !.at = "batch", !.end = endHeight,
                            !.todo = {s \in txs : ret.current <= Height[s] /\ Height[s] <= endHeight}]
      /\ UNCHANGED <<height, dict, txAccounts, retStatus, tacStatus, tac,
                     unresolved, removed, kills>>
  BY DEF RetPoll
<1> HIDE DEF maxHeight
<1>4. endHeight \in Nat /\ endHeight <= height
  <2>1. ret.current \in Nat /\ height \in Nat
    BY <1>1 DEF TypeOK
  <2>2. ret.current + BatchSize - 1 \in Nat
    BY <2>1, Constants
  <2> QED
    BY <2>1, <2>2, <1>2 DEF MinOf
<1> HIDE DEF endHeight
<1>5. /\ ret'.at = "batch" /\ ret'.current = ret.current /\ ret'.end = endHeight
      /\ ret'.todo = {s \in txs : ret.current <= Height[s] /\ Height[s] <= endHeight}
      /\ ret'.deleted = ret.deleted
  BY <1>1, <1>3 DEF TypeOK
<1>6. TypeOK'
  <2>1. ret'.todo \in SUBSET Seqs
    BY <1>5 DEF txs
  <2>2. ret' \in [at : {"off", "poll", "batch"}, current : Nat, end : Nat,
                  todo : SUBSET Seqs, deleted : Nat]
    BY <2>1, <1>1, <1>3, <1>4, <1>5 DEF TypeOK
  <2> QED
    BY <2>2, <1>1, <1>3 DEF TypeOK
<1>7. DictInv' /\ txs' = txs /\ \A s \in Seqs : RetClear(s)' = RetClear(s) /\ Good(s)' = Good(s)
  BY <1>3, TablesSame DEF CleanupInv
<1>8. RetOnlyGone'
  BY <1>3 DEF CleanupInv, RetOnlyGone, FindRetOnlyAddresses
<1>9. RetInv'
  <2>1. ASSUME NEW s \in Seqs, Height[s] <= endHeight, s \notin ret'.todo
        PROVE  RetClear(s)
    <3>1. Height[s] \in Nat /\ height \in Nat /\ ret.current \in Nat /\ retStatus.height \in Nat
      BY <1>1, Constants DEF TypeOK
    <3>2. s \in txs
      BY <2>1, <3>1, <1>4 DEF txs
    <3>3. ~ (ret.current <= Height[s])
      BY <3>2, <2>1, <1>5
    <3>4. ret.current = retStatus.height + 1
      BY <1>3 DEF CleanupInv, RetInv
    <3>5. Height[s] <= retStatus.height
      BY <3>1, <3>3, <3>4
    <3> QED
      BY <3>5 DEF CleanupInv, RetOnlyGone, RetClear
  <2>2. ret'.todo \subseteq txs'
    BY <1>5, <1>7
  <2>3. \A s \in Seqs : Height[s] <= ret'.end /\ s \notin ret'.todo => RetClear(s)'
    BY <2>1, <1>5, <1>7
  <2>4. retStatus'.height <= height' /\ ret'.current = retStatus'.height + 1 /\ ret'.end <= height'
    BY <1>3, <1>4, <1>5 DEF CleanupInv, RetInv
  <2> QED
    BY <2>2, <2>3, <2>4 DEF RetInv
<1>10. TacInv' /\ Repaired'
  BY <1>3, <1>7, TacSide DEF CleanupInv, txs
<1>11. ReadInv' /\ CountsInv'
  BY <1>3, <1>5 DEF CleanupInv, ReadInv, CountsInv, RowFor
<1> QED
  BY <1>6, <1>7, <1>8, <1>9, <1>10, <1>11 DEF CleanupInv

(* What RetTx does to each row: an account with a row has an id, so that   *)
(* none is left.                                                           *)
LEMMA RetTxRows ==
  ASSUME TypeOK, DictInv, NEW s \in Seqs, RetTx(s)
  PROVE  /\ txAccounts' \in Rows
         /\ \A t \in Seqs, a \in Accounts :
              txAccounts'[t][a] = IF t = s /\ a \in FindRetOnlyAddresses(s) \ {Signer[s]}
                                  THEN "none" ELSE txAccounts[t][a]
<1> DEFINE ids == FilterNonSigners(FindRetOnlyAddresses(s) \intersect dict, s)
<1>1. txAccounts' = [txAccounts EXCEPT ![s] = [a \in Accounts |-> IF a \in ids THEN "none"
                                                                  ELSE txAccounts[s][a]]]
  BY DEF RetTx
<1>2. txAccounts \in [Seqs -> [Accounts -> RowKinds]] /\ "none" \in RowKinds
  BY DEF TypeOK, Rows, RowKinds
<1>3. ids = (FindRetOnlyAddresses(s) \intersect dict) \ {Signer[s]}
  BY DEF FilterNonSigners
<1> HIDE DEF ids
<1>4. [a \in Accounts |-> IF a \in ids THEN "none" ELSE txAccounts[s][a]] \in [Accounts -> RowKinds]
  BY <1>2
<1>5. txAccounts' \in Rows
  BY <1>1, <1>2, <1>4 DEF Rows
<1>6. \A t \in Seqs, a \in Accounts :
        txAccounts'[t][a] = IF t = s /\ a \in ids THEN "none" ELSE txAccounts[t][a]
  BY <1>1, <1>2
<1>7. \A a \in Accounts : a \notin dict => txAccounts[s][a] = "none"
  BY DEF DictInv
<1> QED
  BY <1>3, <1>5, <1>6, <1>7

LEMMA RetTxKeeps ==
  ASSUME CleanupInv, NEW s \in Seqs, RetTx(s)
  PROVE  CleanupInv'
<1> DEFINE ids == FilterNonSigners(FindRetOnlyAddresses(s) \intersect dict, s)
           n   == RowsAffected(s, ids)
<1>1. TypeOK /\ DictInv
  BY DEF CleanupInv
<1>2. /\ ret.at = "batch"
      /\ ret' = [ret EXCEPT !.todo = @ \ {s}, !.deleted = @ + n]
      /\ removed' = removed + n
      /\ UNCHANGED <<height, dict, retStatus, tacStatus, tac, unresolved, kills>>
  BY DEF RetTx
<1>3. n \in Nat
  <2>1. ids \in SUBSET Accounts
    BY Constants DEF FilterNonSigners, FindRetOnlyAddresses
  <2> HIDE DEF ids
  <2> QED
    BY <2>1, RowsCounted
<1> HIDE DEF n, ids
<1>4. /\ ret'.at = "batch" /\ ret'.current = ret.current /\ ret'.end = ret.end
      /\ ret'.todo = ret.todo \ {s} /\ ret'.deleted = ret.deleted + n
  BY <1>1, <1>2 DEF TypeOK
<1>5. /\ txAccounts' \in Rows
      /\ \A t \in Seqs, a \in Accounts :
           txAccounts'[t][a] = IF t = s /\ a \in FindRetOnlyAddresses(s) \ {Signer[s]}
                               THEN "none" ELSE txAccounts[t][a]
  BY <1>1, RetTxRows
<1>6. txs' = txs
  BY <1>2 DEF txs
<1>7. TypeOK'
  <2>1. ret.deleted + n \in Nat /\ removed + n \in Nat
    BY <1>1, <1>3 DEF TypeOK
  <2>2. ret' \in [at : {"off", "poll", "batch"}, current : Nat, end : Nat,
                  todo : SUBSET Seqs, deleted : Nat]
    BY <2>1, <1>1, <1>2, <1>4 DEF TypeOK
  <2> QED
    BY <2>1, <2>2, <1>1, <1>2, <1>5 DEF TypeOK
<1>8. DictInv'
  BY <1>1, <1>2, <1>5, <1>6 DEF DictInv
<1>9. \A t \in Seqs : RetClear(t) \/ t = s => RetClear(t)'
  <2>1. ASSUME NEW t \in Seqs, RetClear(t) \/ t = s,
               NEW a \in FindRetOnlyAddresses(t) \ {Signer[t]}
        PROVE  txAccounts'[t][a] = "none"
    BY <2>1, <1>5, RetOnlyHasNoRow DEF RetClear
  <2> QED
    BY <2>1 DEF RetClear, FindRetOnlyAddresses
<1>10. \A t \in Seqs : Good(t) => Good(t)'
  <2>1. ASSUME NEW t \in Seqs, Good(t), NEW a \in Accounts
        PROVE  \/ txAccounts'[t][a] = RowFor(t, a)
               \/ txAccounts'[t][a] = "none" /\ <<t, a>> \in unresolved
    BY <2>1, <1>5, RetOnlyHasNoRow DEF Good
  <2> QED
    BY <2>1, <1>2 DEF Good, RowFor
<1>11. RetOnlyGone'
  <2>1. \A t \in Seqs : Height[t] <= retStatus.height => RetClear(t)
    BY DEF CleanupInv, RetOnlyGone, RetClear
  <2>2. \A t \in Seqs : Height[t] <= retStatus'.height => RetClear(t)'
    BY <2>1, <1>2, <1>9
  <2> QED
    BY <2>2 DEF RetOnlyGone, RetClear
<1>12. RetInv'
  BY <1>2, <1>4, <1>6, <1>9 DEF CleanupInv, RetInv
<1>13. TacInv' /\ Repaired'
  BY <1>2, <1>6, <1>10, TacSide DEF CleanupInv, txs
<1>14. ReadInv'
  <2>1. ASSUME NEW t \in tac.todo, NEW a \in Accounts, tac.at = "batch"
        PROVE  \/ txAccounts'[t][a] = tac.actual[t][a]
               \/ txAccounts'[t][a] = "none" /\ RowFor(t, a) = "none"
    <3>1. t \in Seqs
      BY <1>1 DEF TypeOK
    <3> QED
      BY <2>1, <3>1, <1>5, RetOnlyHasNoRow DEF CleanupInv, ReadInv
  <2> QED
    BY <2>1, <1>2 DEF ReadInv, RowFor
<1>15. CountsInv'
  <2>1. retStatus.corrected + ret.deleted + tacStatus.deleted + tac.deleted <= removed
    BY DEF CleanupInv, CountsInv
  <2>2. /\ retStatus.corrected \in Nat /\ ret.deleted \in Nat /\ tacStatus.deleted \in Nat
        /\ tac.deleted \in Nat /\ removed \in Nat
    BY <1>1 DEF TypeOK
  <2>3. retStatus.corrected + (ret.deleted + n) + tacStatus.deleted + tac.deleted <= removed + n
    BY <2>1, <2>2, <1>3
  <2> QED
    BY <2>3, <1>2, <1>4 DEF CountsInv
<1> QED
  BY <1>7, <1>8, <1>11, <1>12, <1>13, <1>14, <1>15 DEF CleanupInv

LEMMA RetUpdateStatusKeeps ==
  ASSUME CleanupInv, RetUpdateStatus
  PROVE  CleanupInv'
<1>1. TypeOK
  BY DEF CleanupInv
<1>2. /\ ret.at = "batch" /\ ret.todo = {}
      /\ retStatus'.height = ret.end
      /\ retStatus'.corrected = retStatus.corrected + ret.deleted
      /\ ret'.at = "poll" /\ ret'.current = ret.end + 1 /\ ret'.deleted = 0
      /\ UNCHANGED <<height, dict, txAccounts, tacStatus, tac, unresolved, removed, kills>>
  BY DEF RetUpdateStatus, retOff
<1>3. TypeOK'
  <2>1. ret.end + 1 \in Nat /\ ret.end \in Nat /\ retStatus.corrected + ret.deleted \in Nat
    BY <1>1 DEF TypeOK
  <2>2. ret' = [at |-> "poll", current |-> ret.end + 1, end |-> 0, todo |-> {}, deleted |-> 0]
    BY DEF RetUpdateStatus, retOff
  <2>3. ret' \in [at : {"off", "poll", "batch"}, current : Nat, end : Nat,
                  todo : SUBSET Seqs, deleted : Nat]
    BY <2>1, <2>2
  <2>4. retStatus' \in [height : Nat, corrected : Nat]
    BY <2>1 DEF RetUpdateStatus
  <2> QED
    BY <2>3, <2>4, <1>1, <1>2 DEF TypeOK
<1>4. DictInv' /\ txs' = txs /\ \A s \in Seqs : RetClear(s)' = RetClear(s) /\ Good(s)' = Good(s)
  BY <1>2, TablesSame DEF CleanupInv
<1>5. RetOnlyGone'
  <2>1. \A s \in Seqs : Height[s] <= retStatus'.height => RetClear(s)'
    BY <1>2, <1>4 DEF CleanupInv, RetInv
  <2> QED
    BY <2>1 DEF RetOnlyGone, RetClear
<1>6. RetInv'
  BY <1>2 DEF CleanupInv, RetInv
<1>7. TacInv' /\ Repaired'
  BY <1>2, <1>4, TacSide DEF CleanupInv, txs
<1>8. ReadInv'
  BY <1>2 DEF CleanupInv, ReadInv, RowFor
<1>9. CountsInv'
  <2>1. /\ retStatus.corrected \in Nat /\ ret.deleted \in Nat /\ tacStatus.deleted \in Nat
        /\ tac.deleted \in Nat /\ removed \in Nat
    BY <1>1 DEF TypeOK
  <2> QED
    BY <2>1, <1>2 DEF CleanupInv, CountsInv
<1> QED
  BY <1>3, <1>4, <1>5, <1>6, <1>7, <1>8, <1>9 DEF CleanupInv
-----------------------------------------------------------------------------
TacTypes == [at : {"off", "first", "next", "batch", "done"}, current : Nat, start : Nat,
             todo : SUBSET Seqs, deleted : Nat, inserted : Nat, actual : Rows]

(* On the first run everything above the highest sequence is still to be   *)
(* written, by the collector.                                              *)
LEMMA TacStartKeeps ==
  ASSUME CleanupInv, TacStart
  PROVE  CleanupInv'
<1> DEFINE place == IF tacStatus.sequence < 0 THEN "first" ELSE "next"
           from  == IF tacStatus.sequence < 0 THEN Highest(txs) ELSE tacStatus.sequence
<1>1. TypeOK
  BY DEF CleanupInv
<1>2. /\ tac' = [tac EXCEPT !.at = place, !.current = from]
      /\ UNCHANGED <<height, dict, txAccounts, retStatus, ret, tacStatus, unresolved,
                     removed, kills>>
  BY DEF TacStart
<1>3. tacStatus.sequence \in Nat \union {-1}
  BY <1>1 DEF TypeOK
<1>4. Highest(txs) \in Nat /\ \A s \in txs : s <= Highest(txs)
  BY <1>1, TableSequence
<1>5. from \in Nat /\ place \in {"first", "next"}
  BY <1>3, <1>4
<1>6. place = "first" => tacStatus.sequence = -1 /\ \A s \in txs : ~ (s > from)
  <2>1. \A s \in txs : s \in Nat
    BY Constants DEF txs
  <2> QED
    BY <1>3, <1>4, <2>1
<1>7. place = "next" => from = tacStatus.sequence
  BY <1>3
<1> HIDE DEF place, from
<1>8. tac'.at = place /\ tac'.current = from /\ tac'.deleted = tac.deleted
  BY <1>1, <1>2 DEF TypeOK
<1>9. TypeOK'
  <2>1. tac' \in TacTypes
    BY <1>1, <1>2, <1>5 DEF TypeOK, TacTypes
  <2> QED
    BY <2>1, <1>1, <1>2 DEF TypeOK, TacTypes
<1>10. DictInv' /\ txs' = txs /\ \A s \in Seqs : RetClear(s)' = RetClear(s) /\ Good(s)' = Good(s)
  BY <1>2, TablesSame DEF CleanupInv
<1>11. RetInv' /\ RetOnlyGone'
  BY <1>1, <1>2, <1>10, RetSide DEF CleanupInv, TypeOK
<1>12. Repaired'
  BY <1>2, <1>10 DEF CleanupInv, Repaired, RowFor
<1>13. TacInv' /\ ReadInv'
  BY <1>2, <1>5, <1>6, <1>7, <1>8, <1>10 DEF TacInv, ReadInv
<1>14. CountsInv'
  BY <1>2, <1>8 DEF CleanupInv, CountsInv
<1> QED
  BY <1>9, <1>10, <1>11, <1>12, <1>13, <1>14 DEF CleanupInv

LEMMA TacFirstKeeps ==
  ASSUME CleanupInv, TacFirst
  PROVE  CleanupInv'
<1>1. TypeOK
  BY DEF CleanupInv
<1>2. /\ tac.at = "first" /\ tac'.at = "next" /\ tac'.current = tac.current
      /\ tac'.deleted = tac.deleted
      /\ tacStatus'.sequence = tac.current /\ tacStatus'.deleted = tacStatus.deleted
      /\ UNCHANGED <<height, dict, txAccounts, retStatus, ret, unresolved, removed, kills>>
  BY <1>1 DEF TypeOK, TacFirst
<1>3. TypeOK'
  <2>1. tac' \in TacTypes
    BY <1>1 DEF TypeOK, TacTypes, TacFirst
  <2>2. tacStatus' \in [sequence : Nat \union {-1}, deleted : Nat, inserted : Nat]
    BY <1>1 DEF TypeOK, TacFirst
  <2> QED
    BY <2>1, <2>2, <1>1, <1>2 DEF TypeOK, TacTypes
<1>4. DictInv' /\ txs' = txs /\ \A s \in Seqs : RetClear(s)' = RetClear(s) /\ Good(s)' = Good(s)
  BY <1>2, TablesSame DEF CleanupInv
<1>5. RetInv' /\ RetOnlyGone'
  BY <1>1, <1>2, <1>4, RetSide DEF CleanupInv, TypeOK
<1>6. Repaired'
  <2>1. \A s \in txs : s > tac.current => Good(s)
    BY <1>2 DEF CleanupInv, TacInv
  <2>2. txs \subseteq Seqs
    BY DEF txs
  <2>3. \A s \in txs' : s > tacStatus'.sequence => Good(s)'
    BY <2>1, <2>2, <1>2, <1>4
  <2> QED
    BY <2>3 DEF Repaired, Good
<1>7. TacInv' /\ ReadInv' /\ CountsInv'
  BY <1>2 DEF CleanupInv, TacInv, ReadInv, CountsInv
<1> QED
  BY <1>3, <1>4, <1>5, <1>6, <1>7 DEF CleanupInv

LEMMA TacBatchKeeps ==
  ASSUME CleanupInv, TacBatch
  PROVE  CleanupInv'
<1> DEFINE startSeq == MaxOf(tac.current - BatchSize + 1, 1)
           todo == txs \intersect (startSeq .. tac.current)
           read == [s \in Seqs |-> IF s \in startSeq .. tac.current THEN txAccounts[s] ELSE noRows]
<1>1. TypeOK
  BY DEF CleanupInv
<1>2. /\ tac.at = "next" /\ tac.current > 0
      /\ tac' = [tac EXCEPT !.at = "batch", !.start = startSeq, !.todo = todo, !.actual = read]
      /\ UNCHANGED <<height, dict, txAccounts, retStatus, ret, tacStatus,
                     unresolved, removed, kills>>
  BY DEF TacBatch
<1>3. startSeq \in Nat /\ 1 <= startSeq /\ startSeq <= tac.current
  <2>1. tac.current \in Nat
    BY <1>1 DEF TypeOK
  <2> QED
    BY <2>1, <1>2, Constants DEF MaxOf
<1>4. read \in Rows /\ \A s \in Seqs : s \in startSeq .. tac.current => read[s] = txAccounts[s]
  <2>1. noRows \in [Accounts -> RowKinds]
    BY DEF noRows, RowKinds
  <2> QED
    BY <2>1, <1>1 DEF TypeOK, Rows
<1>5. todo \in SUBSET Seqs /\ \A s \in Seqs : s \in todo <=> s \in txs /\ s \in startSeq .. tac.current
  BY DEF txs
<1>6. todo \subseteq txs \intersect (startSeq .. tac.current)
  OBVIOUS
<1> HIDE DEF startSeq, todo, read
<1>7. /\ tac'.at = "batch" /\ tac'.current = tac.current /\ tac'.start = startSeq
      /\ tac'.todo = todo /\ tac'.actual = read /\ tac'.deleted = tac.deleted
  BY <1>1, <1>2 DEF TypeOK
<1>8. TypeOK'
  <2>1. tac' \in TacTypes
    BY <1>1, <1>2, <1>3, <1>4, <1>5 DEF TypeOK, TacTypes
  <2> QED
    BY <2>1, <1>1, <1>2 DEF TypeOK, TacTypes
<1>9. DictInv' /\ txs' = txs /\ \A s \in Seqs : RetClear(s)' = RetClear(s) /\ Good(s)' = Good(s)
  BY <1>2, TablesSame DEF CleanupInv
<1>10. RetInv' /\ RetOnlyGone'
  BY <1>1, <1>2, <1>9, RetSide DEF CleanupInv, TypeOK
<1>11. Repaired'
  BY <1>2, <1>9 DEF CleanupInv, Repaired, RowFor
<1>12. TacInv'
  <2>1. tac.current = tacStatus.sequence
    BY <1>2 DEF CleanupInv, TacInv
  <2>2. ASSUME NEW s \in txs, s >= startSeq, s \notin todo
        PROVE  Good(s)
    <3>1. s \in Seqs /\ s \in Nat /\ tac.current \in Nat
      BY <1>1, Constants DEF txs, TypeOK
    <3>2. s > tac.current
      BY <2>2, <3>1, <1>3, <1>5
    <3>3. tacStatus.sequence >= 0
      BY <2>1, <3>1
    <3> QED
      BY <2>1, <3>2, <3>3 DEF CleanupInv, Repaired, Good
  <2>3. \A s \in txs' : s >= startSeq /\ s \notin todo => Good(s)'
    BY <2>2, <1>9 DEF txs
  <2> QED
    BY <2>1, <2>3, <1>2, <1>3, <1>6, <1>7, <1>9 DEF TacInv
<1>13. ReadInv'
  BY <1>2, <1>4, <1>5, <1>7 DEF ReadInv
<1>14. CountsInv'
  BY <1>2, <1>7 DEF CleanupInv, CountsInv
<1> QED
  BY <1>8, <1>9, <1>10, <1>11, <1>12, <1>13, <1>14 DEF CleanupInv

LEMMA TacUpdateStatusKeeps ==
  ASSUME CleanupInv, TacUpdateStatus
  PROVE  CleanupInv'
<1>1. TypeOK
  BY DEF CleanupInv
<1>2. /\ tac.at = "batch" /\ tac.todo = {}
      /\ tac'.at = "next" /\ tac'.current = tac.start - 1 /\ tac'.deleted = 0
      /\ tacStatus'.sequence = tac.start - 1
      /\ tacStatus'.deleted = tacStatus.deleted + tac.deleted
      /\ UNCHANGED <<height, dict, txAccounts, retStatus, ret, unresolved, removed, kills>>
  BY DEF TacUpdateStatus, TacNext, tacOff
<1>3. tac.start - 1 \in Nat /\ tac.start \in Nat
  BY <1>1, <1>2 DEF CleanupInv, TacInv, TypeOK
<1>4. TypeOK'
  <2>1. tacOff.actual \in Rows
    BY DEF tacOff, Rows, noRows, RowKinds
  <2>2. tac' = [at |-> "next", current |-> tac.start - 1, start |-> 0, todo |-> {}, deleted |-> 0,
                inserted |-> 0, actual |-> tacOff.actual]
    BY DEF TacUpdateStatus, TacNext, tacOff
  <2>3. tac' \in TacTypes
    BY <2>1, <2>2, <1>3 DEF TacTypes
  <2>4. tacStatus.deleted + tac.deleted \in Nat /\ tacStatus.inserted + tac.inserted \in Nat
    BY <1>1 DEF TypeOK
  <2>5. tacStatus' \in [sequence : Nat \union {-1}, deleted : Nat, inserted : Nat]
    BY <2>4, <1>3 DEF TacUpdateStatus, TacNext
  <2> QED
    BY <2>3, <2>5, <1>1, <1>2 DEF TypeOK, TacTypes
<1>5. DictInv' /\ txs' = txs /\ \A s \in Seqs : RetClear(s)' = RetClear(s) /\ Good(s)' = Good(s)
  BY <1>2, TablesSame DEF CleanupInv
<1>6. RetInv' /\ RetOnlyGone'
  BY <1>1, <1>2, <1>5, RetSide DEF CleanupInv, TypeOK
<1>7. Repaired'
  <2>1. \A s \in txs : s >= tac.start => Good(s)
    BY <1>2 DEF CleanupInv, TacInv
  <2>2. \A s \in txs : s \in Seqs /\ s \in Nat
    BY Constants DEF txs
  <2>3. \A s \in txs : s > tac.start - 1 => Good(s)
    BY <2>1, <2>2, <1>3
  <2>4. \A s \in txs' : s > tacStatus'.sequence => Good(s)'
    BY <2>2, <2>3, <1>2, <1>5
  <2> QED
    BY <2>4 DEF Repaired, Good
<1>8. TacInv' /\ ReadInv'
  BY <1>2 DEF TacInv, ReadInv
<1>9. CountsInv'
  <2>1. /\ retStatus.corrected \in Nat /\ ret.deleted \in Nat /\ tacStatus.deleted \in Nat
        /\ tac.deleted \in Nat /\ removed \in Nat
    BY <1>1 DEF TypeOK
  <2> QED
    BY <2>1, <1>2 DEF CleanupInv, CountsInv
<1> QED
  BY <1>4, <1>5, <1>6, <1>7, <1>8, <1>9 DEF CleanupInv

LEMMA TacDoneKeeps ==
  ASSUME CleanupInv, TacDone
  PROVE  CleanupInv'
<1>1. TypeOK
  BY DEF CleanupInv
<1>2. /\ tac'.at = "done" /\ tac'.deleted = tac.deleted
      /\ UNCHANGED <<height, dict, txAccounts, retStatus, ret, tacStatus, unresolved, removed, kills>>
  BY <1>1 DEF TypeOK, TacDone
<1>3. TypeOK'
  <2>1. tac' \in TacTypes
    BY <1>1 DEF TypeOK, TacTypes, TacDone
  <2> QED
    BY <2>1, <1>1, <1>2 DEF TypeOK, TacTypes
<1>4. DictInv' /\ txs' = txs /\ \A s \in Seqs : RetClear(s)' = RetClear(s) /\ Good(s)' = Good(s)
  BY <1>2, TablesSame DEF CleanupInv
<1>5. RetInv' /\ RetOnlyGone'
  BY <1>1, <1>2, <1>4, RetSide DEF CleanupInv, TypeOK
<1>6. Repaired'
  BY <1>2, <1>4 DEF CleanupInv, Repaired, RowFor
<1>7. TacInv' /\ ReadInv' /\ CountsInv'
  BY <1>2 DEF CleanupInv, TacInv, ReadInv, CountsInv
<1> QED
  BY <1>3, <1>4, <1>5, <1>6, <1>7 DEF CleanupInv
-----------------------------------------------------------------------------
(* What reconcileTx leaves of a row, which may have been deleted since it  *)
(* was read: what the collector would write, unless the account has no id, *)
(* and then it had no row.                                                 *)
LEMMA ReconciledRow ==
  ASSUME CleanupInv, tac.at = "batch", NEW s \in tac.todo, NEW a \in Accounts
  PROVE  /\ Reconciled(s, a) \in RowKinds
         /\ \/ Reconciled(s, a) = RowFor(s, a)
            \/ /\ Reconciled(s, a) = "none" /\ txAccounts[s][a] = "none"
               /\ a \in Named[s] \ Expected(s)
         /\ Reconciled(s, a) # "none" => a \in dict
<1>1. s \in Seqs /\ s \in txs
  BY DEF CleanupInv, TacInv, TypeOK, txs
<1> DEFINE read == tac.actual[s][a]
           row  == txAccounts[s][a]
           want == IF a \in Expected(s) THEN RowFor(s, a) ELSE "none"
<1>2. Reconciled(s, a) = IF read = want THEN row
                         ELSE IF want = "none" THEN "none"
                         ELSE IF read = "none" THEN (IF row = "none" THEN want ELSE row)
                         ELSE IF row = "none" THEN "none" ELSE want
  BY DEF Reconciled
<1>3. row = read \/ (row = "none" /\ RowFor(s, a) = "none")
  BY DEF CleanupInv, ReadInv
<1>4. row # "none" => a \in dict
  BY <1>1 DEF CleanupInv, DictInv
<1>5. RowFor(s, a) \in RowKinds /\ (RowFor(s, a) = "none" <=> a # Signer[s] /\ a \notin Named[s])
  BY <1>1, RowForKinds
<1>6. row \in RowKinds /\ "none" \in RowKinds
  BY <1>1 DEF CleanupInv, TypeOK, Rows, RowKinds
<1>7. a \in Expected(s) <=> (a \in Named[s] /\ a \in dict) \/ a = Signer[s]
  BY DEF Expected
<1>8. Signer[s] \in dict
  BY <1>1 DEF CleanupInv, DictInv
<1> HIDE DEF read, row
<1>9. CASE a \in Expected(s)
  <2>1. want = RowFor(s, a) /\ RowFor(s, a) # "none" /\ a \in dict /\ row = read
    BY <1>3, <1>5, <1>7, <1>8, <1>9
  <2>2. Reconciled(s, a) = RowFor(s, a)
    <3> HIDE DEF want
    <3> QED
      BY <1>2, <2>1
  <2> QED
    BY <2>1, <2>2, <1>5
<1>10. CASE a \notin Expected(s)
  <2>1. want = "none" /\ a # Signer[s]
    BY <1>7, <1>10
  <2>2. row = "none" \/ row = read
    BY <1>3
  <2>3. Reconciled(s, a) = "none"
    <3> HIDE DEF want
    <3> QED
      BY <1>2, <2>1, <2>2
  <2>4. CASE a \in Named[s]
    <3>1. row = "none"
      BY <1>4, <1>7, <1>10, <2>4
    <3> QED
      BY <2>3, <2>4, <3>1, <1>6, <1>10 DEF row
  <2>5. CASE a \notin Named[s]
    BY <2>1, <2>3, <2>5, <1>5, <1>6
  <2> QED
    BY <2>4, <2>5
<1> QED
  BY <1>9, <1>10

LEMMA TacTxRows ==
  ASSUME CleanupInv, NEW s \in Seqs, TacTx(s)
  PROVE  /\ txAccounts' \in Rows
         /\ \A t \in Seqs, a \in Accounts :
              txAccounts'[t][a] = IF t = s THEN Reconciled(s, a) ELSE txAccounts[t][a]
<1>1. txAccounts' = [txAccounts EXCEPT ![s] = [a \in Accounts |-> Reconciled(s, a)]]
  BY DEF TacTx
<1>2. [a \in Accounts |-> Reconciled(s, a)] \in [Accounts -> RowKinds]
  BY ReconciledRow DEF TacTx
<1>3. txAccounts \in [Seqs -> [Accounts -> RowKinds]]
  BY DEF CleanupInv, TypeOK, Rows
<1>4. txAccounts' \in Rows
  BY <1>1, <1>2, <1>3 DEF Rows
<1>5. \A t \in Seqs, a \in Accounts :
        txAccounts'[t][a] = IF t = s THEN Reconciled(s, a) ELSE txAccounts[t][a]
  BY <1>1, <1>3
<1> QED
  BY <1>4, <1>5

LEMMA TacTxKeeps ==
  ASSUME CleanupInv, NEW s \in Seqs, TacTx(s)
  PROVE  CleanupInv'
<1> DEFINE extra == {a \in Accounts : tac.actual[s][a] # "none" /\ a \notin Expected(s)}
           missing == {a \in Expected(s) : tac.actual[s][a] = "none" /\ txAccounts[s][a] = "none"}
           n == RowsAffected(s, extra)
           m == Cardinality(missing)
<1>1. TypeOK
  BY DEF CleanupInv
<1>2. /\ tac.at = "batch" /\ s \in tac.todo
      /\ tac' = [tac EXCEPT !.todo = @ \ {s}, !.actual[s] = noRows,
                            !.deleted = @ + n, !.inserted = @ + m]
      /\ removed' = removed + n
      /\ unresolved' = unresolved \union {<<s, a>> : a \in Named[s] \ Expected(s)}
      /\ UNCHANGED <<height, dict, retStatus, ret, tacStatus, kills>>
  BY DEF TacTx
<1>3. n \in Nat /\ m \in Nat
  <2>1. n \in Nat
    <3>1. extra \in SUBSET Accounts
      OBVIOUS
    <3> HIDE DEF extra
    <3> QED
      BY <3>1, RowsCounted
  <2>2. Expected(s) \subseteq Accounts
    BY Constants, <1>1 DEF Expected, TypeOK
  <2>3. IsFiniteSet(missing)
    BY <2>2, Constants, FS_Subset
  <2> QED
    BY <2>1, <2>3, FS_CardinalityType
<1> HIDE DEF n, m, extra, missing
<1>4. /\ tac'.at = "batch" /\ tac'.current = tac.current /\ tac'.start = tac.start
      /\ tac'.todo = tac.todo \ {s} /\ tac'.deleted = tac.deleted + n
      /\ tac'.inserted = tac.inserted + m
      /\ tac'.actual = [tac.actual EXCEPT ![s] = noRows]
  BY <1>1, <1>2 DEF TypeOK
<1>5. /\ txAccounts' \in Rows
      /\ \A t \in Seqs, a \in Accounts :
           txAccounts'[t][a] = IF t = s THEN Reconciled(s, a) ELSE txAccounts[t][a]
  BY TacTxRows
<1>6. txs' = txs /\ s \in txs /\ txs \subseteq Seqs
  BY <1>2 DEF txs, CleanupInv, TacInv
<1>7. TypeOK'
  <2>1. tac.deleted + n \in Nat /\ tac.inserted + m \in Nat /\ removed + n \in Nat
    BY <1>1, <1>3 DEF TypeOK
  <2>2. tac'.actual \in Rows
    <3>1. noRows \in [Accounts -> RowKinds]
      BY DEF noRows, RowKinds
    <3>2. tac.actual \in [Seqs -> [Accounts -> RowKinds]]
      BY <1>1 DEF TypeOK, Rows
    <3> QED
      BY <3>1, <3>2, <1>4 DEF Rows
  <2>3. tac' = [tac EXCEPT !.todo = tac'.todo, !.actual = tac'.actual,
                           !.deleted = tac'.deleted, !.inserted = tac'.inserted]
    BY <1>1, <1>2, <1>4 DEF TypeOK
  <2>4. tac'.todo \in SUBSET Seqs
    BY <1>1, <1>4 DEF TypeOK
  <2>5. tac' \in TacTypes
    BY <2>1, <2>2, <2>3, <2>4, <1>1, <1>4 DEF TypeOK, TacTypes
  <2>6. unresolved' \in SUBSET (Seqs \X Accounts)
    <3>1. Named[s] \ Expected(s) \subseteq Accounts
      BY Constants
    <3> QED
      BY <3>1, <1>1, <1>2 DEF TypeOK
  <2> QED
    BY <2>1, <2>5, <2>6, <1>1, <1>2, <1>5 DEF TypeOK, TacTypes
<1>8. DictInv'
  <2>1. ASSUME NEW t \in Seqs, NEW a \in Accounts, txAccounts'[t][a] # "none"
        PROVE  t \in txs /\ a \in dict
    <3>1. CASE t = s
      BY <2>1, <3>1, <1>2, <1>5, <1>6, ReconciledRow
    <3>2. CASE t # s
      BY <2>1, <3>2, <1>5 DEF CleanupInv, DictInv
    <3> QED
      BY <3>1, <3>2
  <2> QED
    BY <2>1, <1>2, <1>6 DEF CleanupInv, DictInv
<1>9. \A t \in Seqs : RetClear(t) => RetClear(t)'
  <2>1. ASSUME NEW t \in Seqs, RetClear(t), NEW a \in FindRetOnlyAddresses(t) \ {Signer[t]}
        PROVE  txAccounts'[t][a] = "none"
    <3>1. a \in Accounts /\ RowFor(t, a) = "none"
      BY RetOnlyHasNoRow
    <3>2. CASE t = s
      BY <3>1, <3>2, <1>2, <1>5, ReconciledRow
    <3>3. CASE t # s
      BY <2>1, <3>1, <3>3, <1>5 DEF RetClear
    <3> QED
      BY <3>2, <3>3
  <2> QED
    BY <2>1 DEF RetClear, FindRetOnlyAddresses
<1>10. RetInv' /\ RetOnlyGone'
  <2>1. height' \in Nat /\ height <= height'
    BY <1>1, <1>2 DEF TypeOK
  <2> QED
    BY <2>1, <1>1, <1>2, <1>6, <1>9, RetSide DEF CleanupInv
<1>11. \A t \in Seqs : Good(t) \/ t = s => Good(t)'
  <2>1. ASSUME NEW t \in Seqs, Good(t) \/ t = s, NEW a \in Accounts
        PROVE  \/ txAccounts'[t][a] = RowFor(t, a)
               \/ txAccounts'[t][a] = "none" /\ <<t, a>> \in unresolved'
    <3>1. CASE t = s
      <4>1. \/ Reconciled(s, a) = RowFor(s, a)
            \/ Reconciled(s, a) = "none" /\ a \in Named[s] \ Expected(s)
        BY <1>2, ReconciledRow
      <4> QED
        BY <4>1, <3>1, <1>2, <1>5
    <3>2. CASE t # s
      BY <2>1, <3>2, <1>2, <1>5 DEF Good
    <3> QED
      BY <3>1, <3>2
  <2> QED
    BY <2>1 DEF Good, RowFor
<1>12. Repaired'
  <2>1. tacStatus.sequence >= 0 => \A t \in txs : t > tacStatus.sequence => Good(t)
    BY DEF CleanupInv, Repaired, Good
  <2>2. tacStatus'.sequence >= 0 => \A t \in txs' : t > tacStatus'.sequence => Good(t)'
    BY <2>1, <1>2, <1>6, <1>11
  <2> QED
    BY <2>2 DEF Repaired, Good
<1>13. TacInv'
  <2>1. \A t \in txs : t >= tac.start /\ t \notin tac.todo => Good(t)
    BY <1>2 DEF CleanupInv, TacInv
  <2>2. \A t \in txs' : t >= tac'.start /\ t \notin tac'.todo => Good(t)'
    BY <2>1, <1>4, <1>6, <1>11
  <2> QED
    BY <2>2, <1>2, <1>4, <1>6 DEF CleanupInv, TacInv
<1>14. ReadInv'
  <2>1. ASSUME NEW t \in tac'.todo, NEW a \in Accounts
        PROVE  \/ txAccounts'[t][a] = tac'.actual[t][a]
               \/ txAccounts'[t][a] = "none" /\ RowFor(t, a) = "none"
    <3>1. t \in Seqs /\ t \in tac.todo /\ t # s
      BY <1>1, <1>4 DEF TypeOK
    <3>2. tac'.actual[t] = tac.actual[t]
      BY <3>1, <1>1, <1>4 DEF TypeOK, Rows
    <3> QED
      BY <3>1, <3>2, <1>2, <1>5 DEF CleanupInv, ReadInv
  <2> QED
    BY <2>1 DEF ReadInv, RowFor
<1>15. CountsInv'
  <2>1. retStatus.corrected + ret.deleted + tacStatus.deleted + tac.deleted <= removed
    BY DEF CleanupInv, CountsInv
  <2>2. /\ retStatus.corrected \in Nat /\ ret.deleted \in Nat /\ tacStatus.deleted \in Nat
        /\ tac.deleted \in Nat /\ removed \in Nat
    BY <1>1 DEF TypeOK
  <2>3. retStatus.corrected + ret.deleted + tacStatus.deleted + (tac.deleted + n) <= removed + n
    BY <2>1, <2>2, <1>3
  <2> QED
    BY <2>3, <1>2, <1>4 DEF CountsInv
<1> QED
  BY <1>7, <1>8, <1>10, <1>12, <1>13, <1>14, <1>15 DEF CleanupInv
-----------------------------------------------------------------------------
LEMMA StepKeeps ==
  ASSUME CleanupInv, [Next]_vars
  PROVE  CleanupInv'
<1>1. CASE BlockCommit
  BY <1>1, BlockCommitKeeps
<1>2. CASE Kill
  BY <1>2, KillKeeps
<1>3. CASE RetStep
  BY <1>3, RetStartKeeps, RetPollKeeps, RetTxKeeps, RetUpdateStatusKeeps DEF RetStep
<1>4. CASE TacStep
  BY <1>4, TacStartKeeps, TacFirstKeeps, TacBatchKeeps, TacTxKeeps, TacUpdateStatusKeeps,
     TacDoneKeeps DEF TacStep
<1>5. CASE UNCHANGED vars
  BY <1>5, StutterKeeps
<1> QED
  BY <1>1, <1>2, <1>3, <1>4, <1>5 DEF Next

LEMMA CleanupInvHolds == Spec => []CleanupInv
<1>1. Init => CleanupInv
  BY InitHolds
<1>2. CleanupInv /\ [Next]_vars => CleanupInv'
  BY StepKeeps
<1> QED
  BY <1>1, <1>2, PTL DEF Spec

(* The variables of the collector and the two extensions keep their types. *)
THEOREM CleanupTypes == Spec => []TypeOK
<1>1. CleanupInv => TypeOK
  BY DEF CleanupInv
<1> QED
  BY <1>1, CleanupInvHolds, PTL

(* Up to the height of its status row, evmret has left no row of a         *)
(* ret-only account.                                                       *)
THEOREM RetOnlyRowsAreGone == Spec => []RetOnlyGone
<1>1. CleanupInv => RetOnlyGone
  BY DEF CleanupInv
<1> QED
  BY <1>1, CleanupInvHolds, PTL

(* Above the sequence of its status row, txaccountcleanup has left the     *)
(* rows the collector would write.                                         *)
THEOREM RowsAreRepaired == Spec => []Repaired
<1>1. CleanupInv => Repaired
  BY DEF CleanupInv
<1> QED
  BY <1>1, CleanupInvHolds, PTL

(* The status rows count no deleted row twice, whatever batches are        *)
(* repeated.                                                               *)
THEOREM CountsAreHonest == Spec => []CountsHonest
<1>1. CleanupInv => CountsHonest
  BY DEF CleanupInv, CountsInv, CountsHonest, TypeOK
<1> QED
  BY <1>1, CleanupInvHolds, PTL

(* No step takes away a row that the collector would write, or adds one it *)
(* would not.                                                              *)
THEOREM GoodRowsAreKept == Spec => KeepsGoodRows
<1> DEFINE Keeps == \A s \in txs : \A a \in Accounts :
                      txAccounts[s][a] = RowFor(s, a) => txAccounts'[s][a] = RowFor(s, a)
<1>1. ASSUME CleanupInv, Next
      PROVE  Keeps
  <2> SUFFICES ASSUME NEW s \in txs, NEW a \in Accounts, txAccounts[s][a] = RowFor(s, a)
               PROVE  txAccounts'[s][a] = RowFor(s, a)
    OBVIOUS
  <2>1. s \in Seqs /\ Height[s] <= height
    BY DEF txs
  <2>2. CASE BlockCommit
    <3>1. ~ (Height[s] = height + 1)
      BY <2>1, <1>1, Constants DEF CleanupInv, TypeOK
    <3> QED
      BY <2>1, <2>2, <3>1 DEF BlockCommit
  <2>3. ASSUME NEW t \in Seqs, RetTx(t)
        PROVE  txAccounts'[s][a] = RowFor(s, a)
    BY <2>1, <2>3, <1>1, RetTxRows, RetOnlyHasNoRow DEF CleanupInv
  <2>4. ASSUME NEW t \in Seqs, TacTx(t)
        PROVE  txAccounts'[s][a] = RowFor(s, a)
    <3>1. CASE s = t
      <4>1. txAccounts'[s][a] = Reconciled(s, a)
        BY <2>1, <2>4, <3>1, <1>1, TacTxRows
      <4>2. \/ Reconciled(s, a) = RowFor(s, a)
            \/ Reconciled(s, a) = "none" /\ txAccounts[s][a] = "none"
        BY <2>4, <3>1, <1>1, ReconciledRow DEF TacTx
      <4> QED
        BY <4>1, <4>2
    <3>2. CASE s # t
      BY <2>1, <2>4, <3>2, <1>1, TacTxRows
    <3> QED
      BY <3>1, <3>2
  <2>5. CASE UNCHANGED txAccounts
    BY <2>5
  <2> QED
    BY <1>1, <2>2, <2>3, <2>4, <2>5
    DEF Next, RetStep, TacStep, Kill, RetStart, RetPoll, RetUpdateStatus, TacStart, TacFirst,
        TacBatch, TacUpdateStatus, TacDone
<1>2. CleanupInv /\ [Next]_vars => [Keeps]_vars
  BY <1>1
<1> QED
  BY <1>2, CleanupInvHolds, PTL DEF Spec, KeepsGoodRows
-----------------------------------------------------------------------------
(* What CatchesUp rests on, apart from fairness.                           *)

(* A batch is not empty and has at most BatchSize blocks or transactions.  *)
BatchInv ==
  /\ ret.at = "batch" => ret.current <= ret.end /\ ret.end < ret.current + BatchSize
  /\ tac.at = "batch" => tac.start <= tac.current /\ tac.current < tac.start + BatchSize

(* A status row that changes moves on, over no more than the batch that    *)
(* was just done: evmret goes up and stays with the collector;             *)
(* txaccountcleanup is set once and then goes down to zero.  No restart    *)
(* takes either back, so that a batch is repeated only until its status is *)
(* written (ProcessBatch and Run of both extensions).                      *)
StatusesMoveOn ==
  /\ \/ retStatus' = retStatus
     \/ /\ retStatus.height < retStatus'.height
        /\ retStatus'.height <= retStatus.height + BatchSize
        /\ retStatus'.height <= height
  /\ \/ tacStatus' = tacStatus
     \/ tacStatus.sequence = -1 /\ tacStatus'.sequence \in Nat
     \/ /\ tacStatus'.sequence \in Nat
        /\ tacStatus'.sequence < tacStatus.sequence
        /\ tacStatus.sequence <= tacStatus'.sequence + BatchSize

LEMMA BatchInvStep ==
  ASSUME CleanupInv, BatchInv, [Next]_vars
  PROVE  BatchInv'
<1>1. /\ TypeOK
      /\ BatchSize \in Nat /\ BatchSize > 0
      /\ ret.current \in Nat /\ tac.current \in Nat
  BY Constants DEF CleanupInv, TypeOK
<1>2. CASE UNCHANGED <<ret, tac>>
  BY <1>2 DEF BatchInv
<1>3. CASE Kill
  <2>1. ret'.at = "off" /\ tac'.at = "off"
    BY <1>3 DEF Kill, retOff, tacOff
  <2> QED
    BY <2>1 DEF BatchInv
<1>4. ASSUME UNCHANGED tac, ret'.at # "batch"
      PROVE  BatchInv'
  BY <1>4 DEF BatchInv
<1>5. ASSUME UNCHANGED ret, tac'.at # "batch"
      PROVE  BatchInv'
  BY <1>5 DEF BatchInv
<1>6. CASE RetPoll
  <2> DEFINE maxHeight == Highest({Height[s] : s \in txs})
             endHeight == MinOf(ret.current + BatchSize - 1, maxHeight)
  <2>1. maxHeight \in Nat
    BY <1>1, TableHeight
  <2>2. ret.current <= maxHeight /\ UNCHANGED tac
    BY <1>6 DEF RetPoll
  <2>3. ret'.current = ret.current /\ ret'.end = endHeight
    BY <1>1, <1>6 DEF RetPoll, TypeOK
  <2> HIDE DEF maxHeight
  <2>4. ret.current <= endHeight /\ endHeight < ret.current + BatchSize
    BY <1>1, <2>1, <2>2 DEF MinOf
  <2> HIDE DEF endHeight
  <2> QED
    BY <2>2, <2>3, <2>4 DEF BatchInv
<1>7. CASE TacBatch
  <2> DEFINE startSeq == MaxOf(tac.current - BatchSize + 1, 1)
  <2>1. tac.current > 0 /\ UNCHANGED ret
    BY <1>7 DEF TacBatch
  <2>2. tac'.current = tac.current /\ tac'.start = startSeq
    BY <1>1, <1>7 DEF TacBatch, TypeOK
  <2>3. startSeq <= tac.current /\ tac.current < startSeq + BatchSize
    BY <1>1, <2>1 DEF MaxOf
  <2> HIDE DEF startSeq
  <2> QED
    BY <2>1, <2>2, <2>3 DEF BatchInv
<1>8. ASSUME NEW s \in Seqs, RetTx(s)
      PROVE  BatchInv'
  <2>1. ret'.current = ret.current /\ ret'.end = ret.end /\ ret.at = "batch" /\ UNCHANGED tac
    BY <1>1, <1>8 DEF RetTx, TypeOK
  <2> QED
    BY <2>1 DEF BatchInv
<1>9. ASSUME NEW s \in Seqs, TacTx(s)
      PROVE  BatchInv'
  <2>1. tac'.current = tac.current /\ tac'.start = tac.start /\ tac.at = "batch" /\ UNCHANGED ret
    BY <1>1, <1>9 DEF TacTx, TypeOK
  <2> QED
    BY <2>1 DEF BatchInv
<1>10. CASE BlockCommit
  BY <1>2, <1>10 DEF BlockCommit
<1>11. CASE RetStart
  <2>1. ret'.at # "batch" /\ UNCHANGED tac
    BY <1>1, <1>11 DEF RetStart, TypeOK
  <2> QED
    BY <2>1, <1>4
<1>12. CASE RetUpdateStatus
  <2>1. ret'.at # "batch" /\ UNCHANGED tac
    BY <1>12 DEF RetUpdateStatus, retOff
  <2> QED
    BY <2>1, <1>4
<1>13. CASE TacStart \/ TacFirst \/ TacDone
  <2>1. tac'.at # "batch" /\ UNCHANGED ret
    BY <1>1, <1>13 DEF TacStart, TacFirst, TacDone, TypeOK
  <2> QED
    BY <2>1, <1>5
<1>14. CASE TacUpdateStatus
  <2>1. tac'.at # "batch" /\ UNCHANGED ret
    BY <1>14 DEF TacUpdateStatus, tacOff
  <2> QED
    BY <2>1, <1>5
<1>15. CASE UNCHANGED vars
  BY <1>2, <1>15 DEF vars
<1> QED
  BY <1>3, <1>6, <1>7, <1>8, <1>9, <1>10, <1>11, <1>12, <1>13, <1>14, <1>15
  DEF Next, RetStep, TacStep

LEMMA StatusesMoveOnStep ==
  ASSUME CleanupInv, BatchInv, [Next]_vars
  PROVE  StatusesMoveOn
<1>1. /\ retStatus.height \in Nat /\ ret.end \in Nat /\ height \in Nat
      /\ tac.start \in Nat /\ tac.current \in Nat /\ BatchSize \in Nat
  BY Constants DEF CleanupInv, TypeOK
<1>2. CASE UNCHANGED <<retStatus, tacStatus>>
  BY <1>2 DEF StatusesMoveOn
<1>3. CASE RetUpdateStatus
  <2>1. ret.at = "batch" /\ retStatus'.height = ret.end /\ tacStatus' = tacStatus
    BY <1>3 DEF RetUpdateStatus
  <2>2. /\ ret.current = retStatus.height + 1 /\ ret.end <= height
        /\ ret.current <= ret.end /\ ret.end < ret.current + BatchSize
    BY <2>1 DEF CleanupInv, RetInv, BatchInv
  <2>3. retStatus.height < ret.end /\ ret.end <= retStatus.height + BatchSize
    BY <2>2, <1>1
  <2> QED
    BY <2>1, <2>2, <2>3 DEF StatusesMoveOn
<1>4. CASE TacFirst
  <2>1. tac.at = "first" /\ tacStatus'.sequence = tac.current /\ retStatus' = retStatus
    BY <1>4 DEF TacFirst, CleanupInv, TypeOK
  <2>2. tacStatus.sequence = -1
    BY <2>1 DEF CleanupInv, TacInv
  <2> QED
    BY <2>1, <2>2, <1>1 DEF StatusesMoveOn
<1>5. CASE TacUpdateStatus
  <2>1. tac.at = "batch" /\ tacStatus'.sequence = tac.start - 1 /\ retStatus' = retStatus
    BY <1>5 DEF TacUpdateStatus, TacNext
  <2>2. /\ tac.current = tacStatus.sequence /\ 1 <= tac.start
        /\ tac.start <= tac.current /\ tac.current < tac.start + BatchSize
    BY <2>1 DEF CleanupInv, TacInv, BatchInv
  <2>3. /\ tac.start - 1 \in Nat
        /\ tac.start - 1 < tac.current
        /\ tac.current <= (tac.start - 1) + BatchSize
    BY <2>2, <1>1
  <2> QED
    BY <2>1, <2>2, <2>3 DEF StatusesMoveOn
<1> QED
  BY <1>2, <1>3, <1>4, <1>5
  DEF Next, RetStep, TacStep, BlockCommit, Kill, RetStart, RetPoll, RetTx, TacStart, TacBatch,
      TacTx, TacDone, vars

(* The two status rows only move on, at most a batch at a time, whatever   *)
(* is killed and repeated.                                                 *)
THEOREM StatusRowsMoveOn == Spec => [][StatusesMoveOn]_vars
<1>1. Init => BatchInv
  <2>1. Init => ret.at = "off" /\ tac.at = "off"
    BY DEF Init, retOff, tacOff
  <2> QED
    BY <2>1 DEF BatchInv
<1>2. CleanupInv /\ BatchInv /\ [Next]_vars => BatchInv'
  BY BatchInvStep
<1>3. CleanupInv /\ BatchInv /\ [Next]_vars => [StatusesMoveOn]_vars
  BY StatusesMoveOnStep
<1> QED
  BY <1>1, <1>2, <1>3, CleanupInvHolds, PTL DEF Spec
=============================================================================
