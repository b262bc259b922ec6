-------------------------- MODULE InternalTxProofs -------------------------
(***************************************************************************)
(* Proofs about InternalTx for every chain, every number of calls, every   *)
(* batch and queue size and any number of kills.                           *)
(***************************************************************************)
EXTENDS InternalTx, FiniteSetTheorems, SequenceTheorems, TLAPS

USE InternalTxAssumption

(* Type correctness, with what a restart needs: a highest row.             *)
TypeInv == TypeOK /\ HasLastItx

(* A restart's first height.                                               *)
LEMMA LastItxBounds ==
  ASSUME TypeOK, HasLastItx
  PROVE  /\ lastItx \in 0 .. MaxHeight
         /\ \A g \in indexed : g <= lastItx
         /\ indexed # {} => lastItx \in indexed
<1>1. indexed \subseteq Heights
  BY DEF TypeOK, indexed
<1>2. CASE indexed = {}
  BY <1>2 DEF lastItx
<1>3. CASE indexed # {}
  <2>1. \E h \in indexed : \A g \in indexed : g <= h
    BY <1>3 DEF HasLastItx
  <2>2. lastItx \in indexed /\ \A g \in indexed : g <= lastItx
    BY <1>3, <2>1 DEF lastItx
  <2> QED  BY <1>1, <2>2 DEF Heights
<1> QED  BY <1>2, <1>3

(* What a commit adds to the indexed heights.                              *)
LEMMA IndexedAfterCommit ==
  ASSUME TypeOK, ConsumeCommit
  PROVE  /\ work \in Heights
         /\ \A h : h \in indexed' => h \in indexed \/ h = work
         /\ \A h : h \in indexed => h \in indexed'
         /\ Calls[work] > 0 => work \in indexed'
         /\ rows \subseteq rows'
<1>1. work \in Heights /\ Calls[work] \in Nat /\ seqInfo \in Nat
  BY DEF TypeOK, ConsumeCommit, Heights
<1>2. rows \subseteq rows'
  BY DEF ConsumeCommit
<1>3. \A h : h \in indexed' => h \in indexed \/ h = work
  BY DEF ConsumeCommit, indexed
<1>4. \A h : h \in indexed => h \in indexed'
  BY <1>2 DEF indexed
<1>5. ASSUME Calls[work] > 0 PROVE work \in indexed'
  <2>1. CASE work \in indexed
    BY <2>1, <1>4
  <2>2. CASE work \notin indexed
    <3>1. seqInfo + 1 \in newSeqs(work)
      BY <1>1, <1>5 DEF newSeqs
    <3>2. [height |-> work, sequence |-> seqInfo + 1] \in rows'
      BY <2>2, <3>1 DEF ConsumeCommit
    <3> QED  BY <3>2 DEF indexed
  <2> QED  BY <2>1, <2>2
<1> QED  BY <1>1, <1>2, <1>3, <1>4, <1>5

LEMMA TypeInit == Init => TypeInv
<1> SUFFICES ASSUME Init PROVE TypeInv
  OBVIOUS
<1>1. TypeOK
  BY DEF Init, TypeOK
<1>2. HasLastItx
  BY DEF Init, HasLastItx, indexed
<1> QED  BY <1>1, <1>2 DEF TypeInv

LEMMA TypeStep == TypeInv /\ [Next]_vars => TypeInv'
<1> SUFFICES ASSUME TypeInv, [Next]_vars PROVE TypeInv'
  OBVIOUS
<1> USE DEF TypeInv
<1>0. ASSUME UNCHANGED rows PROVE indexed' = indexed /\ HasLastItx'
  <2>1. indexed' = indexed
    BY <1>0 DEF indexed
  <2> QED  BY <2>1 DEF HasLastItx
<1>1. CASE BlockCommit
  BY <1>1, <1>0 DEF BlockCommit, extVars, tableVars, TypeOK
<1>2. CASE Start
  <2>1. lastItx \in Nat
    BY LastItxBounds
  <2> QED  BY <1>2, <1>0, <2>1 DEF Start, tableVars, TypeOK
<1>3. CASE StartSkipped
  BY <1>3, <1>0 DEF StartSkipped, tableVars, TypeOK
<1>4. CASE Kill
  BY <1>4, <1>0 DEF Kill, tableVars, TypeOK
<1>5. CASE ProduceStart
  <2>1. candidates \subseteq Heights
    BY DEF candidates, Heights
  <2>2. batch' \in SUBSET Heights
    BY <1>5, <2>1 DEF ProduceStart
  <2> QED  BY <1>5, <1>0, <2>2 DEF ProduceStart, tableVars, TypeOK
<1>6. CASE ScrapeDone
  BY <1>6, <1>0 DEF ScrapeDone, tableVars, TypeOK
<1>7. CASE ScrapeFail
  BY <1>7, <1>0 DEF ScrapeFail, tableVars, TypeOK
<1>8. ASSUME NEW h \in batch, Push(h) PROVE TypeInv'
  <2>1. h \in Heights
    BY DEF TypeOK
  <2>2. workQueue' \in Seq(Heights)
    BY <1>8, <2>1, AppendProperties DEF Push, TypeOK
  <2>3. lastProducedHeight' \in Nat /\ producer' \in {"idle", "scrape", "push"}
    BY <1>8, <2>1 DEF Push, TypeOK, Heights
  <2> QED  BY <1>8, <1>0, <2>2, <2>3 DEF Push, tableVars, TypeOK
<1>9. CASE Pop
  <2>1. Head(workQueue) \in Heights /\ Tail(workQueue) \in Seq(Heights)
    BY <1>9, HeadTailProperties DEF Pop, TypeOK
  <2> QED  BY <1>9, <1>0, <2>1 DEF Pop, tableVars, TypeOK, Heights
<1>10. CASE ConsumeCommit
  <2>1. work \in Heights /\ Calls[work] \in Nat /\ seqInfo \in Nat
    BY <1>10 DEF TypeOK, ConsumeCommit, Heights
  <2>2. newSeqs(work) \subseteq Nat
    BY <2>1 DEF newSeqs
  <2>3. rows' \in SUBSET [height : Heights, sequence : Nat]
    <3>1. \A q \in newSeqs(work) :
            [height |-> work, sequence |-> q] \in [height : Heights, sequence : Nat]
      BY <2>1, <2>2
    <3>2. rows' \subseteq rows \union {[height |-> work, sequence |-> q] : q \in newSeqs(work)}
      BY <1>10 DEF ConsumeCommit
    <3>3. rows \subseteq [height : Heights, sequence : Nat]
      BY DEF TypeOK
    <3> QED  BY <3>1, <3>2, <3>3
  <2>4. TypeOK'
    <3>1. edges' \in SUBSET Nat /\ seqInfo' \in Nat /\ work' \in 0 .. MaxHeight
      <4>1. edges' = edges \union newSeqs(work) /\ seqInfo' = seqInfo + Calls[work] /\ work' = 0
        BY <1>10 DEF ConsumeCommit
      <4>2. edges \in SUBSET Nat
        BY DEF TypeOK
      <4>3. edges' \in SUBSET Nat
        BY <2>2, <4>1, <4>2
      <4>4. seqInfo' \in Nat /\ work' \in 0 .. MaxHeight
        BY <2>1, <4>1
      <4> QED  BY <4>3, <4>4
    <3>2. UNCHANGED <<blocks, run, lastProducedHeight, producer, batch, workQueue, dropped, kills>>
      BY <1>10 DEF ConsumeCommit
    <3> QED  BY <2>3, <3>1, <3>2 DEF TypeOK
  <2>5. HasLastItx'
    <3>0. indexed \subseteq Heights /\ indexed' \subseteq indexed \union {work} /\ indexed \subseteq indexed'
      BY <1>10, IndexedAfterCommit DEF TypeOK, indexed
    <3>1. CASE indexed' = indexed
      BY <3>1 DEF HasLastItx
    <3>2. CASE indexed' # indexed
      <4>1. indexed' = indexed \union {work}
        BY <3>0, <3>2
      <4>2. CASE indexed = {}
        BY <4>1, <4>2, <2>1 DEF HasLastItx, Heights
      <4>3. CASE indexed # {}
        <5>1. PICK mx \in indexed : \A g \in indexed : g <= mx
          BY <4>3 DEF HasLastItx
        <5>2. CASE work <= mx
          BY <5>1, <5>2, <4>1 DEF HasLastItx
        <5>3. CASE mx < work
          BY <5>1, <5>3, <4>1, <3>0, <2>1 DEF HasLastItx, Heights
        <5> QED  BY <5>1, <5>2, <5>3, <3>0, <2>1 DEF Heights
      <4> QED  BY <4>2, <4>3
    <3> QED  BY <3>1, <3>2
  <2> QED  BY <2>4, <2>5
<1>11. CASE ConsumeFail
  BY <1>11, <1>0 DEF ConsumeFail, tableVars, TypeOK, Heights
<1>12. CASE UNCHANGED vars
  BY <1>12, <1>0 DEF vars, extVars, tableVars, TypeOK
<1> QED
  BY <1>1, <1>2, <1>3, <1>4, <1>5, <1>6, <1>7, <1>8, <1>9, <1>10, <1>11, <1>12
  DEF Next, Producer, Consumer

(* Every state of the extension is well typed, and a restart always finds  *)
(* a height to resume at.                                                  *)
THEOREM TypeCorrect == Spec => []TypeOK
<1>1. TypeInv => TypeOK
  BY DEF TypeInv
<1> QED  BY <1>1, TypeInit, TypeStep, PTL DEF Spec
-----------------------------------------------------------------------------
(***************************************************************************)
(* The inductive invariant.  Running ties the goroutines' variables to the *)
(* run; FlowInOrder, that heights only grow from the table over the        *)
(* consumer and the queue to the batch, makes a height's rows unique;      *)
(* Cover, that nothing is missing between them, makes NothingSkipped       *)
(* survive a restart, which resumes after the highest row.                 *)
(***************************************************************************)
Inv ==
  /\ TypeInv
  /\ Running
  /\ FlowInOrder
  /\ PushHasRoom
  /\ NumberedInOrder
  /\ Cover
  /\ NothingSkipped

(* The queue after the two operations on it.                               *)
LEMMA QueueAfterPush ==
  ASSUME TypeOK, NEW h \in batch, Push(h)
  PROVE  /\ Len(workQueue) \in Nat
         /\ Len(workQueue') = Len(workQueue) + 1
         /\ \A k \in 1 .. Len(workQueue) : workQueue'[k] = workQueue[k]
         /\ workQueue'[Len(workQueue) + 1] = h
<1>1. workQueue \in Seq(Heights) /\ h \in Heights
  BY DEF TypeOK
<1>2. workQueue' = Append(workQueue, h)
  BY DEF Push
<1> QED  BY <1>1, <1>2, AppendProperties, LenProperties

LEMMA QueueAfterPop ==
  ASSUME TypeOK, Pop
  PROVE  /\ Len(workQueue) \in Nat \ {0}
         /\ Len(workQueue') = Len(workQueue) - 1
         /\ \A k \in 1 .. Len(workQueue') : workQueue'[k] = workQueue[k + 1]
         /\ work' = workQueue[1]
         /\ work' # 0
<1>1. workQueue \in Seq(Heights) /\ workQueue # <<>>
  BY DEF TypeOK, Pop
<1>2. workQueue' = Tail(workQueue) /\ work' = Head(workQueue)
  BY DEF Pop
<1>3. Len(workQueue) \in Nat \ {0}
  BY <1>1
<1>4. work' = workQueue[1] /\ work' \in Heights
  BY <1>1, <1>2, <1>3
<1>5. Len(workQueue') = Len(workQueue) - 1
  BY <1>1, <1>2, <1>3
<1>6. \A k \in 1 .. Len(workQueue') : workQueue'[k] = workQueue[k + 1]
  BY <1>1, <1>2, <1>3, <1>5
<1> QED  BY <1>3, <1>4, <1>5, <1>6 DEF Heights

LEMMA RunningStep == TypeInv /\ Running /\ Next => Running'
<1> SUFFICES ASSUME TypeInv, Running, Next PROVE Running'
  OBVIOUS
<1> USE DEF Running
<1>1. CASE BlockCommit
  BY <1>1 DEF BlockCommit, extVars
<1>2. CASE Start
  BY <1>2 DEF Start
<1>3. CASE StartSkipped
  BY <1>3 DEF StartSkipped
<1>4. CASE Kill
  BY <1>4, FS_EmptySet DEF Kill
<1>5. CASE ProduceStart
  BY <1>5 DEF ProduceStart, IsBatch
<1>6. CASE ScrapeDone
  BY <1>6 DEF ScrapeDone
<1>7. CASE ScrapeFail
  BY <1>7, FS_EmptySet DEF ScrapeFail
<1>8. ASSUME NEW h \in batch, Push(h) PROVE Running'
  <2>1. IsFiniteSet(batch')
    BY <1>8, FS_RemoveElement DEF Push
  <2>2. run' = "on" /\ (batch' = {} <=> batch = {h})
    BY <1>8 DEF Push
  <2>3. producer' = "idle" <=> batch' = {}
    BY <1>8, <2>2 DEF Push
  <2> QED  BY <2>1, <2>2, <2>3
<1>9. CASE Pop
  BY <1>9 DEF Pop
<1>10. CASE ConsumeCommit
  BY <1>10 DEF ConsumeCommit
<1>11. CASE ConsumeFail
  BY <1>11 DEF ConsumeFail
<1> QED
  BY <1>1, <1>2, <1>3, <1>4, <1>5, <1>6, <1>7, <1>8, <1>9, <1>10, <1>11
  DEF Next, Producer, Consumer

(* Only ProduceStart and the two ends of the queue move the bound.         *)
LEMMA RoomStep == TypeInv /\ Running /\ PushHasRoom /\ Next => PushHasRoom'
<1> SUFFICES ASSUME TypeInv, Running, PushHasRoom, Next PROVE PushHasRoom'
  OBVIOUS
<1> USE DEF TypeInv
<1>0. Len(workQueue) \in Nat /\ Cardinality(batch) \in Nat
  BY FS_CardinalityType, LenProperties DEF TypeOK, Running
<1>1. CASE UNCHANGED <<batch, workQueue>>
  BY <1>1 DEF PushHasRoom
<1>2. ASSUME workQueue' = <<>>, batch' = {} PROVE PushHasRoom'
  BY <1>2, FS_EmptySet DEF PushHasRoom
<1>3. CASE ProduceStart
  <2>1. Cardinality(batch') <= batchLimit /\ workQueue' = workQueue
    BY <1>3 DEF ProduceStart, IsBatch
  <2>2. batchLimit \in Int /\ batchLimit <= QueueSize - Len(workQueue)
    BY <1>0 DEF batchLimit
  <2>3. Cardinality(batch') \in Nat
    BY <1>3, FS_CardinalityType DEF ProduceStart, IsBatch
  <2> QED  BY <2>1, <2>2, <2>3, <1>0 DEF PushHasRoom
<1>4. CASE ScrapeFail
  <2>1. Cardinality(batch') = 0 /\ workQueue' = workQueue
    BY <1>4, FS_EmptySet DEF ScrapeFail
  <2> QED  BY <2>1, <1>0 DEF PushHasRoom
<1>5. ASSUME NEW h \in batch, Push(h) PROVE PushHasRoom'
  <2>1. Cardinality(batch') = Cardinality(batch) - 1
    BY <1>5, FS_RemoveElement DEF Push, Running
  <2>2. Len(workQueue') = Len(workQueue) + 1
    BY <1>5, QueueAfterPush
  <2> QED  BY <2>1, <2>2, <1>0 DEF PushHasRoom
<1>6. CASE Pop
  <2>1. Len(workQueue') = Len(workQueue) - 1 /\ batch' = batch
    BY <1>6, QueueAfterPop DEF Pop
  <2> QED  BY <2>1, <1>0 DEF PushHasRoom
<1> QED
  BY <1>1, <1>2, <1>3, <1>4, <1>5, <1>6
  DEF Next, Producer, Consumer, BlockCommit, extVars, Start, StartSkipped, Kill,
      ScrapeDone, ConsumeCommit, ConsumeFail
-----------------------------------------------------------------------------
(* Beyond grows with its argument.                                         *)
LEMMA BeyondMore ==
  ASSUME TypeOK, NEW h \in Nat, NEW g \in Nat, Beyond(h), h <= g
  PROVE  Beyond(g)
<1>1. /\ \A k \in 1 .. Len(workQueue) : workQueue[k] \in Int
      /\ \A r \in rows : r.height \in Int
      /\ work \in Int
  BY DEF TypeOK, Heights
<1> QED  BY <1>1 DEF Beyond

LEMMA FlowStep == TypeInv /\ Running /\ FlowInOrder /\ Next => FlowInOrder'
<1> SUFFICES ASSUME TypeInv, Running, FlowInOrder, Next PROVE FlowInOrder'
  OBVIOUS
<1> USE DEF TypeInv
<1>0. TypeOK'
  BY TypeStep
<1>q. /\ \A k \in 1 .. Len(workQueue) : workQueue[k] \in Nat
      /\ \A r \in rows : r.height \in Nat
      /\ Len(workQueue) \in Nat
      /\ batch \subseteq Nat
      /\ work \in Nat
      /\ lastProducedHeight \in Nat
  BY LenProperties DEF TypeOK, Heights
<1>1. CASE BlockCommit
  BY <1>1 DEF BlockCommit, extVars, tableVars, FlowInOrder, Beyond
<1>2. CASE Start
  <2>1. /\ workQueue' = <<>> /\ work' = 0 /\ batch' = {} /\ rows' = rows
        /\ lastProducedHeight' = lastItx
    BY <1>2 DEF Start, Running, tableVars
  <2>2. \A r \in rows : r.height < lastItx + 1
    <3> SUFFICES ASSUME NEW r \in rows PROVE r.height < lastItx + 1
      OBVIOUS
    <3>1. r.height \in indexed
      BY DEF indexed
    <3> QED  BY <3>1, <1>q, LastItxBounds
  <2> QED  BY <2>1, <2>2 DEF FlowInOrder, Beyond
<1>3. CASE StartSkipped
  BY <1>3 DEF StartSkipped, tableVars, FlowInOrder, Beyond
<1>4. CASE Kill
  BY <1>4 DEF Kill, tableVars, FlowInOrder, Beyond
<1>5. CASE ProduceStart
  <2>1. /\ UNCHANGED <<workQueue, work, rows, lastProducedHeight, run>>
        /\ run = "on" /\ producer = "idle" /\ producer' = "scrape"
    BY <1>5 DEF ProduceStart, tableVars
  <2>2. ASSUME NEW h \in batch'
        PROVE  Beyond(h) /\ h > lastProducedHeight /\ h \in TxHeights
    <3>1. h \in TxHeights /\ lastProducedHeight < h /\ h \in Nat
      BY <1>5, <2>2 DEF ProduceStart, candidates
    <3>2. Beyond(lastProducedHeight + 1)
      BY <2>1 DEF FlowInOrder
    <3> QED  BY <3>1, <3>2, <1>q, BeyondMore
  <2> QED  BY <2>1, <2>2 DEF FlowInOrder, Beyond
<1>6. CASE ScrapeDone
  BY <1>6 DEF ScrapeDone, tableVars, FlowInOrder, Beyond
<1>7. CASE ScrapeFail
  BY <1>7 DEF ScrapeFail, tableVars, FlowInOrder, Beyond
<1>8. ASSUME NEW h \in batch, Push(h) PROVE FlowInOrder'
  <2>1. UNCHANGED <<work, rows, run>> /\ batch' = batch \ {h} /\ h \in Nat
    BY <1>8, <1>q DEF Push, tableVars
  <2>2. Beyond(h) /\ h > lastProducedHeight
    BY DEF FlowInOrder
  <2>q. /\ Len(workQueue') = Len(workQueue) + 1
        /\ \A k \in 1 .. Len(workQueue) : workQueue'[k] = workQueue[k]
        /\ workQueue'[Len(workQueue) + 1] = h
    BY <1>8, QueueAfterPush
  <2>3. ASSUME NEW k \in 1 .. Len(workQueue')
        PROVE  /\ work # 0 => work < workQueue'[k]
               /\ \A r \in rows : r.height < workQueue'[k]
               /\ \A j \in 1 .. k - 1 : workQueue'[j] < workQueue'[k]
    <3>1. CASE k \in 1 .. Len(workQueue)
      <4>1. workQueue'[k] = workQueue[k] /\ \A j \in 1 .. k - 1 : workQueue'[j] = workQueue[j]
        BY <3>1, <2>q, <1>q
      <4> QED  BY <3>1, <4>1 DEF FlowInOrder
    <3>2. CASE k = Len(workQueue) + 1
      BY <3>2, <2>2, <2>q, <1>q DEF Beyond
    <3> QED  BY <3>1, <3>2, <2>q, <1>q
  <2>4. ASSUME NEW g \in Nat, g > h, Beyond(g) PROVE Beyond(g)'
    <3>1. \A k \in 1 .. Len(workQueue') : workQueue'[k] < g
      <4> SUFFICES ASSUME NEW k \in 1 .. Len(workQueue') PROVE workQueue'[k] < g
        OBVIOUS
      <4>1. k \in 1 .. Len(workQueue) \/ k = Len(workQueue) + 1
        BY <2>q, <1>q
      <4> QED  BY <4>1, <2>1, <2>4, <2>q DEF Beyond
    <3> QED  BY <3>1, <2>1, <2>4 DEF Beyond
  <2>5. ASSUME NEW g \in batch'
        PROVE  Beyond(g)' /\ g > lastProducedHeight' /\ g \in TxHeights
    <3>1. g \in batch /\ g > h /\ g \in Nat
      BY <2>1, <1>8, <1>q DEF Push
    <3>2. batch # {h} /\ lastProducedHeight' = lastProducedHeight
      BY <3>1, <2>1, <1>8 DEF Push
    <3> QED  BY <3>1, <3>2, <2>4 DEF FlowInOrder
  <2>6. ASSUME producer' # "push" PROVE Beyond(lastProducedHeight + 1)'
    <3>1. lastProducedHeight' = h
      BY <2>6, <1>8 DEF Push
    <3>2. Beyond(h + 1)'
      <4>1. Beyond(h + 1)
        BY <2>1, <2>2, BeyondMore
      <4> QED  BY <4>1, <2>4, <2>1
    <3> QED  BY <3>1, <3>2 DEF Beyond
  <2> QED  BY <2>1, <2>2, <2>3, <2>5, <2>6 DEF FlowInOrder
<1>9. CASE Pop
  <2>1. UNCHANGED <<rows, batch, run, lastProducedHeight, producer>>
    BY <1>9 DEF Pop, tableVars
  <2>2. \A r \in rows : r.height < work'
    BY <1>9, <1>q, QueueAfterPop DEF FlowInOrder
  <2>3. ASSUME NEW k \in 1 .. Len(workQueue')
        PROVE  /\ work' < workQueue'[k]
               /\ \A r \in rows : r.height < workQueue'[k]
               /\ \A j \in 1 .. k - 1 : workQueue'[j] < workQueue'[k]
    <3>1. k + 1 \in 1 .. Len(workQueue) /\ workQueue'[k] = workQueue[k + 1]
      BY <1>9, <1>q, QueueAfterPop
    <3>2. \A j \in 1 .. k - 1 : workQueue'[j] = workQueue[j + 1] /\ j + 1 \in 1 .. (k + 1) - 1
      BY <1>9, <1>q, QueueAfterPop
    <3>3. \A r \in rows : r.height < workQueue'[k]
      BY <3>1 DEF FlowInOrder
    <3>4. work' = workQueue[1] /\ 1 \in 1 .. (k + 1) - 1
      BY <1>9, <1>q, QueueAfterPop
    <3>5. \A j \in 1 .. (k + 1) - 1 : workQueue[j] < workQueue[k + 1]
      BY <3>1 DEF FlowInOrder
    <3> QED  BY <3>1, <3>2, <3>3, <3>4, <3>5
  <2>4. ASSUME NEW g, Beyond(g) PROVE Beyond(g)'
    BY <2>1, <2>4, <1>9, <1>q, QueueAfterPop DEF Beyond
  <2> QED  BY <2>1, <2>2, <2>3, <2>4 DEF FlowInOrder
<1>10. CASE ConsumeCommit
  <2>1. /\ UNCHANGED <<workQueue, batch, run, lastProducedHeight, producer>>
        /\ work' = 0 /\ work # 0
    BY <1>10 DEF ConsumeCommit
  <2>2. ASSUME NEW r \in rows' PROVE r \in rows \/ r.height = work
    BY <1>10 DEF ConsumeCommit
  <2>3. ASSUME NEW g, Beyond(g) PROVE Beyond(g)'
    BY <2>1, <2>2, <2>3 DEF Beyond
  <2> QED  BY <2>1, <2>2, <2>3 DEF FlowInOrder
<1>11. CASE ConsumeFail
  BY <1>11 DEF ConsumeFail, tableVars, FlowInOrder, Beyond
<1> QED
  BY <1>1, <1>2, <1>3, <1>4, <1>5, <1>6, <1>7, <1>8, <1>9, <1>10, <1>11
  DEF Next, Producer, Consumer
-----------------------------------------------------------------------------
(* A commit gives the numbers after the counter to a height above all rows.*)
LEMMA NumberedStep ==
  TypeInv /\ FlowInOrder /\ NumberedInOrder /\ Next => NumberedInOrder'
<1> SUFFICES ASSUME TypeInv, FlowInOrder, NumberedInOrder, Next PROVE NumberedInOrder'
  OBVIOUS
<1>1. CASE UNCHANGED tableVars
  BY <1>1 DEF tableVars, NumberedInOrder
<1>2. CASE ConsumeCommit
  <2> DEFINE n == Calls[work]
             New == {[height |-> work, sequence |-> q] : q \in newSeqs(work)}
  <2>1. work \in Nat /\ n \in Nat /\ seqInfo \in Nat
    BY <1>2 DEF TypeInv, TypeOK, ConsumeCommit, Heights
  <2>2. \A r \in rows : r.height < work
    BY <1>2 DEF ConsumeCommit, FlowInOrder
  <2>3. work \notin indexed
    BY <2>1, <2>2 DEF indexed
  <2>4. rows' = rows \union New /\ edges' = edges \union newSeqs(work) /\ seqInfo' = seqInfo + n
    BY <1>2, <2>3 DEF ConsumeCommit
  <2>5. newSeqs(work) = seqInfo + 1 .. seqInfo + n
    BY DEF newSeqs
  <2>6. \A r \in rows : r.height \in Nat /\ r.sequence \in 1 .. seqInfo
    BY DEF TypeInv, TypeOK, Heights, NumberedInOrder
  <2>7. \A r \in New : r.height = work /\ r.sequence \in newSeqs(work)
    OBVIOUS
  <2> HIDE DEF n
  <2>8. (1 .. seqInfo) \union newSeqs(work) = 1 .. seqInfo'
    BY <2>1, <2>4, <2>5
  <2>9. {r.sequence : r \in rows'} = 1 .. seqInfo'
    <3>1. {r.sequence : r \in New} = newSeqs(work)
      <4>1. ASSUME NEW q \in newSeqs(work) PROVE \E r \in New : r.sequence = q
        <5>1. [height |-> work, sequence |-> q] \in New
          OBVIOUS
        <5> HIDE DEF New
        <5> QED  BY <5>1
      <4> HIDE DEF New
      <4> QED  BY <4>1, <2>7
    <3>2. {r.sequence : r \in rows'} = {r.sequence : r \in rows} \union {r.sequence : r \in New}
      BY <2>4
    <3> QED  BY <3>1, <3>2, <2>8 DEF NumberedInOrder
  <2>10. edges' = 1 .. seqInfo'
    BY <2>4, <2>8 DEF NumberedInOrder
  <2>11. ASSUME NEW r \in rows', NEW q \in rows', r.height < q.height
         PROVE  r.sequence < q.sequence
    <3> HIDE DEF New
    <3>1. CASE r \in rows /\ q \in rows
      BY <2>11, <3>1 DEF NumberedInOrder
    <3>2. CASE r \in rows /\ q \in New
      BY <3>2, <2>1, <2>5, <2>6, <2>7
    <3>3. CASE r \in New
      BY <3>3, <2>11, <2>1, <2>2, <2>4, <2>6, <2>7
    <3> QED  BY <3>1, <3>2, <3>3, <2>4
  <2>12. ASSUME NEW r \in rows', NEW q \in rows', r.sequence = q.sequence
         PROVE  r = q
    <3>1. CASE r \in rows /\ q \in rows
      BY <2>12, <3>1 DEF NumberedInOrder
    <3>2. CASE r \in New /\ q \in New
      BY <3>2, <2>12
    <3>3. ASSUME NEW x \in rows, NEW y \in New PROVE x.sequence # y.sequence
      <4> HIDE DEF New
      <4> QED  BY <2>1, <2>5, <2>6, <2>7
    <3> QED  BY <3>1, <3>2, <3>3, <2>4, <2>12
  <2> QED  BY <2>9, <2>10, <2>11, <2>12 DEF NumberedInOrder
<1> QED
  BY <1>1, <1>2
  DEF Next, Producer, Consumer, BlockCommit, extVars, tableVars, Start, StartSkipped,
      Kill, ProduceStart, ScrapeDone, ScrapeFail, Push, Pop, ConsumeFail
-----------------------------------------------------------------------------
(* The steps that only move heights along keep the accounts.               *)
LEMMA AccountedStep ==
  ASSUME TypeOK, Next, ~Kill, ~Start, NEW x \in TxHeights, Accounted(x)
  PROVE  Accounted(x)'
<1>0. x \in Nat \ {0} /\ Len(workQueue) \in Nat /\ Calls[x] \in Nat
  BY LenProperties DEF TypeOK
<1>1. CASE UNCHANGED <<rows, workQueue, work, dropped>>
  BY <1>1 DEF Accounted, indexed
<1>2. ASSUME NEW h \in batch, Push(h) PROVE Accounted(x)'
  <2>1. UNCHANGED <<work, rows, dropped>>
    BY <1>2 DEF Push, tableVars
  <2>2. \A k \in 1 .. Len(workQueue) : k \in 1 .. Len(workQueue') /\ workQueue'[k] = workQueue[k]
    BY <1>0, <1>2, QueueAfterPush
  <2>3. indexed' = indexed
    BY <2>1 DEF indexed
  <2> QED  BY <2>1, <2>2, <2>3 DEF Accounted
<1>3. CASE Pop
  <2>1. UNCHANGED <<rows, dropped>> /\ work = 0
    BY <1>3 DEF Pop, tableVars
  <2>2. ASSUME NEW k \in 1 .. Len(workQueue), workQueue[k] = x
        PROVE  x = work' \/ \E j \in 1 .. Len(workQueue') : workQueue'[j] = x
    <3>1. CASE k = 1
      BY <3>1, <2>2, <1>3, QueueAfterPop
    <3>2. CASE k # 1
      <4>1. k - 1 \in 1 .. Len(workQueue') /\ (k - 1) + 1 = k
        BY <3>2, <1>0, <1>3, QueueAfterPop
      <4>2. workQueue'[k - 1] = workQueue[(k - 1) + 1]
        BY <4>1, <1>3, QueueAfterPop
      <4> QED  BY <4>1, <4>2, <2>2
    <3> QED  BY <3>1, <3>2
  <2>3. indexed' = indexed
    BY <2>1 DEF indexed
  <2> QED  BY <1>0, <2>1, <2>2, <2>3 DEF Accounted
<1>4. CASE ConsumeCommit
  <2>1. UNCHANGED <<workQueue, dropped>>
    BY <1>4 DEF ConsumeCommit
  <2>2. CASE x = work
    BY <2>2, <1>0, <1>4, IndexedAfterCommit DEF Accounted
  <2>3. CASE x # work
    BY <2>1, <2>3, <1>4, IndexedAfterCommit DEF Accounted
  <2> QED  BY <2>2, <2>3
<1>5. CASE ConsumeFail
  <2>1. UNCHANGED <<workQueue, rows>> /\ dropped' = dropped \union {work}
    BY <1>5 DEF ConsumeFail, tableVars
  <2>2. indexed' = indexed
    BY <2>1 DEF indexed
  <2> QED  BY <2>1, <2>2 DEF Accounted
<1> QED
  BY <1>1, <1>2, <1>3, <1>4, <1>5
  DEF Next, Producer, Consumer, BlockCommit, extVars, tableVars, StartSkipped,
      ProduceStart, ScrapeDone, ScrapeFail

(* Nothing that has rows below it, or is produced, is forgotten.           *)
LEMMA CoverStep ==
  TypeInv /\ Running /\ FlowInOrder /\ Cover /\ NothingSkipped /\ Next
    => Cover' /\ NothingSkipped'
<1> SUFFICES ASSUME TypeInv, Running, FlowInOrder, Cover, NothingSkipped, Next
             PROVE  Cover' /\ NothingSkipped'
  OBVIOUS
<1> USE DEF TypeInv
<1>q. /\ \A k \in 1 .. Len(workQueue) : workQueue[k] \in Nat
      /\ \A r \in rows : r.height \in Nat
      /\ Len(workQueue) \in Nat
      /\ batch \subseteq Nat
      /\ work \in Nat
      /\ lastProducedHeight \in Nat
      /\ TxHeights \subseteq Nat \ {0}
  BY LenProperties DEF TypeOK, Heights
<1>r. ASSUME UNCHANGED rows PROVE indexed' = indexed
  BY <1>r DEF indexed
<1>1. CASE Start
  <2>1. /\ workQueue' = <<>> /\ work' = 0 /\ batch' = {} /\ rows' = rows
        /\ lastProducedHeight' = lastItx /\ dropped' = dropped
    BY <1>1 DEF Start, Running, tableVars
  <2>2. indexed' = indexed
    BY <2>1, <1>r
  <2>3. Cover'
    BY <2>1, <2>2 DEF Cover
  <2>4. ASSUME NEW h \in TxHeights, h <= lastItx PROVE Accounted(h)'
    <3>1. indexed # {} /\ lastItx \in indexed
      BY <2>4, <1>q, LastItxBounds DEF lastItx
    <3>2. PICK r \in rows : r.height = lastItx
      BY <3>1 DEF indexed
    <3>3. CASE h = lastItx
      BY <3>1, <3>3, <2>2 DEF Accounted
    <3>4. CASE h < lastItx
      BY <3>2, <3>4, <2>1, <2>2 DEF Cover, Accounted
    <3> QED  BY <3>2, <3>3, <3>4, <2>4, <1>q
  <2> QED  BY <2>1, <2>3, <2>4 DEF NothingSkipped
<1>2. CASE Kill
  <2>1. /\ workQueue' = <<>> /\ work' = 0 /\ batch' = {} /\ rows' = rows
        /\ lastProducedHeight' = 0 /\ dropped' = dropped
    BY <1>2 DEF Kill, tableVars
  <2>2. indexed' = indexed
    BY <2>1, <1>r
  <2> QED  BY <2>1, <2>2, <1>q DEF Cover, NothingSkipped
<1>3. CASE ProduceStart
  <2>1. /\ UNCHANGED <<workQueue, work, rows, lastProducedHeight, dropped>>
        /\ batch = {}
    BY <1>3 DEF ProduceStart, tableVars, Running
  <2>2. indexed' = indexed
    BY <2>1, <1>r
  <2>3. \A h : Accounted(h)' <=> Accounted(h)
    BY <2>1, <2>2 DEF Accounted
  <2>4. ASSUME NEW b \in batch' PROVE Covered(b)'
    <3>1. /\ batch' \subseteq candidates
          /\ \A y \in candidates \ batch' : b < y
      BY <1>3, <2>4 DEF ProduceStart, IsBatch
    <3>2. b \in Nat /\ b <= blocks /\ blocks \in Nat
      BY <3>1, <2>4, <1>q DEF candidates, TypeOK
    <3>3. ASSUME NEW h \in TxHeights, h < b PROVE Accounted(h)' \/ h \in batch'
      <4>1. CASE h <= lastProducedHeight
        BY <4>1, <2>3 DEF NothingSkipped
      <4>2. CASE lastProducedHeight < h
        <5>1. h \in candidates
          BY <4>2, <3>2, <3>3, <1>q DEF candidates
        <5> QED  BY <5>1, <3>1, <3>2, <3>3, <1>q
      <4> QED  BY <4>1, <4>2, <1>q
    <3> QED  BY <3>3 DEF Covered
  <2>5. ASSUME NEW y, Covered(y) PROVE Covered(y)'
    BY <2>1, <2>3, <2>5 DEF Covered
  <2>6. Cover'
    BY <2>1, <2>2, <2>4, <2>5 DEF Cover
  <2> QED  BY <2>1, <2>3, <2>6 DEF NothingSkipped
<1>4. CASE ScrapeFail
  <2>1. UNCHANGED <<workQueue, work, rows, lastProducedHeight, dropped>> /\ batch' = {}
    BY <1>4 DEF ScrapeFail, tableVars
  <2>2. indexed' = indexed
    BY <2>1, <1>r
  <2>3. \A h : Accounted(h)' <=> Accounted(h)
    BY <2>1, <2>2 DEF Accounted
  <2>4. ASSUME NEW y \in Nat, Covered(y), \A b \in batch : y < b PROVE Covered(y)'
    BY <2>3, <2>4, <1>q DEF Covered
  <2>5. /\ work # 0 => Covered(work)'
        /\ \A k \in 1 .. Len(workQueue) : Covered(workQueue[k])'
    <3>1. work # 0 => Covered(work) /\ \A b \in batch : work < b
      BY DEF Cover, FlowInOrder, Beyond
    <3>2. \A k \in 1 .. Len(workQueue) :
            Covered(workQueue[k]) /\ \A b \in batch : workQueue[k] < b
      BY DEF Cover, FlowInOrder, Beyond
    <3>3. work # 0 => Covered(work)'
      BY <3>1, <2>1, <2>3, <1>q DEF Covered
    <3>4. \A k \in 1 .. Len(workQueue) : Covered(workQueue[k])'
      BY <3>2, <2>1, <2>3, <1>q DEF Covered
    <3> QED  BY <3>3, <3>4
  <2>6. Cover'
    BY <2>1, <2>2, <2>5 DEF Cover
  <2> QED  BY <2>1, <2>3, <2>6 DEF NothingSkipped
<1>5. ASSUME NEW h \in batch, Push(h) PROVE Cover' /\ NothingSkipped'
  <2>1. UNCHANGED <<work, rows, dropped>> /\ batch' = batch \ {h} /\ h \in Nat
    BY <1>5, <1>q DEF Push, tableVars
  <2>2. /\ Len(workQueue') = Len(workQueue) + 1
        /\ \A k \in 1 .. Len(workQueue) : workQueue'[k] = workQueue[k]
        /\ workQueue'[Len(workQueue) + 1] = h
    BY <1>5, QueueAfterPush
  <2>3. indexed' = indexed
    BY <2>1, <1>r
  <2>4. \A x : x = h \/ Accounted(x) => Accounted(x)'
    <3>1. \A k \in 1 .. Len(workQueue) : k \in 1 .. Len(workQueue')
      BY <2>2, <1>q
    <3>2. Len(workQueue) + 1 \in 1 .. Len(workQueue')
      BY <2>2, <1>q
    <3> QED  BY <3>1, <3>2, <2>1, <2>2, <2>3 DEF Accounted
  <2>5. ASSUME NEW y, Covered(y) PROVE Covered(y)'
    BY <2>1, <2>4, <2>5 DEF Covered
  <2>6. (\A k \in 1 .. Len(workQueue) : Covered(workQueue[k]))'
    <3> SUFFICES ASSUME NEW k \in 1 .. Len(workQueue') PROVE Covered(workQueue[k])'
      OBVIOUS
    <3>1. k \in 1 .. Len(workQueue) \/ k = Len(workQueue) + 1
      BY <2>2, <1>q
    <3>2. PICK y : y = workQueue'[k] /\ Covered(y)
      BY <3>1, <2>2 DEF Cover
    <3>3. Covered(y)'
      BY <3>2, <2>5
    <3> QED  BY <3>2, <3>3 DEF Covered
  <2>7. Cover'
    BY <2>1, <2>3, <2>5, <2>6 DEF Cover
  <2>8. NothingSkipped'
    <3>1. CASE lastProducedHeight' = lastProducedHeight
      BY <3>1, <2>4 DEF NothingSkipped
    <3>2. CASE lastProducedHeight' = h /\ batch = {h}
      <4>1. Covered(h)
        BY DEF Cover
      <4>2. \A x \in TxHeights : x <= h => x = h \/ Accounted(x)
        BY <4>1, <3>2, <1>q DEF Covered
      <4> QED  BY <4>2, <3>2, <2>4 DEF NothingSkipped
    <3> QED  BY <3>1, <3>2, <1>5 DEF Push
  <2> QED  BY <2>7, <2>8
<1>6. CASE ConsumeCommit
  <2>1. /\ UNCHANGED <<workQueue, batch, lastProducedHeight, dropped>>
        /\ work' = 0 /\ work # 0
    BY <1>6 DEF ConsumeCommit
  <2>2. \A x \in TxHeights : Accounted(x) => Accounted(x)'
    BY <1>6, <2>1, AccountedStep DEF Kill, Start, ConsumeCommit
  <2>3. ASSUME NEW y, Covered(y) PROVE Covered(y)'
    BY <2>1, <2>2, <2>3 DEF Covered
  <2>4. ASSUME NEW r \in rows', NEW h \in TxHeights, h < r.height
        PROVE  h \in indexed' \/ Calls[h] = 0 \/ h \in dropped
    <3>1. CASE r \in rows
      BY <3>1, <2>4, <1>6, IndexedAfterCommit DEF Cover
    <3>2. CASE r \notin rows
      <4>1. r.height = work
        BY <3>2, <1>6 DEF ConsumeCommit
      <4>2. Accounted(h) \/ h \in batch
        BY <4>1, <2>1, <2>4 DEF Cover, Covered
      <4>3. /\ h \notin batch
            /\ h # work
            /\ \A k \in 1 .. Len(workQueue) : workQueue[k] # h
        BY <4>1, <2>1, <2>4, <1>q DEF FlowInOrder, Beyond
      <4> QED  BY <4>2, <4>3, <1>6, IndexedAfterCommit DEF Accounted
    <3> QED  BY <3>1, <3>2
  <2>5. Cover'
    BY <2>1, <2>3, <2>4 DEF Cover
  <2> QED  BY <2>1, <2>2, <2>5 DEF NothingSkipped
<1>7. CASE Pop
  <2>1. UNCHANGED <<rows, batch, lastProducedHeight, dropped, run>>
    BY <1>7 DEF Pop, tableVars
  <2>2. \A x \in TxHeights : Accounted(x) => Accounted(x)'
    BY <1>7, <2>1, AccountedStep DEF Kill, Start, Pop
  <2>3. ASSUME NEW y, Covered(y) PROVE Covered(y)'
    BY <2>1, <2>2, <2>3 DEF Covered
  <2>4. indexed' = indexed
    BY <2>1, <1>r
  <2>5. /\ work' = workQueue[1] /\ 1 \in 1 .. Len(workQueue)
        /\ \A k \in 1 .. Len(workQueue') :
             k + 1 \in 1 .. Len(workQueue) /\ workQueue'[k] = workQueue[k + 1]
    BY <1>7, <1>q, QueueAfterPop
  <2>6. Cover'
    BY <2>1, <2>3, <2>4, <2>5 DEF Cover
  <2> QED  BY <2>1, <2>2, <2>6 DEF NothingSkipped
<1>8. CASE ConsumeFail
  <2>1. /\ UNCHANGED <<workQueue, rows, batch, lastProducedHeight>>
        /\ work' = 0 /\ work # 0 /\ dropped \subseteq dropped'
    BY <1>8 DEF ConsumeFail, tableVars
  <2>2. \A x \in TxHeights : Accounted(x) => Accounted(x)'
    BY <1>8, <2>1, AccountedStep DEF Kill, Start, ConsumeFail, Running
  <2>3. ASSUME NEW y, Covered(y) PROVE Covered(y)'
    BY <2>1, <2>2, <2>3 DEF Covered
  <2>4. indexed' = indexed
    BY <2>1, <1>r
  <2>5. Cover'
    BY <2>1, <2>3, <2>4 DEF Cover
  <2> QED  BY <2>1, <2>2, <2>5 DEF NothingSkipped
<1>9. CASE UNCHANGED <<workQueue, work, rows, batch, lastProducedHeight, dropped>>
  <2>1. indexed' = indexed
    BY <1>9, <1>r
  <2>2. \A h : Accounted(h)' <=> Accounted(h)
    BY <1>9, <2>1 DEF Accounted
  <2>3. ASSUME NEW y, Covered(y) PROVE Covered(y)'
    BY <1>9, <2>2, <2>3 DEF Covered
  <2>4. Cover'
    BY <1>9, <2>1, <2>3 DEF Cover
  <2> QED  BY <1>9, <2>2, <2>4 DEF NothingSkipped
<1> QED
  BY <1>1, <1>2, <1>3, <1>4, <1>5, <1>6, <1>7, <1>8, <1>9
  DEF Next, Producer, Consumer, BlockCommit, extVars, tableVars, StartSkipped, ScrapeDone
-----------------------------------------------------------------------------
LEMMA InvInit == Init => Inv
<1> SUFFICES ASSUME Init PROVE Inv
  OBVIOUS
<1>1. TypeInv
  BY TypeInit
<1>2. Running /\ PushHasRoom
  BY FS_EmptySet DEF Init, Running, PushHasRoom
<1>3. FlowInOrder
  BY DEF Init, FlowInOrder, Beyond
<1>4. NumberedInOrder
  BY DEF Init, NumberedInOrder
<1>5. Cover /\ NothingSkipped
  BY DEF Init, Cover, NothingSkipped
<1> QED  BY <1>1, <1>2, <1>3, <1>4, <1>5 DEF Inv

LEMMA InvStep == Inv /\ [Next]_vars => Inv'
<1> SUFFICES ASSUME Inv, [Next]_vars PROVE Inv'
  OBVIOUS
<1>1. CASE Next
  BY <1>1, TypeStep, RunningStep, FlowStep, RoomStep, NumberedStep, CoverStep DEF Inv
<1>2. CASE UNCHANGED vars
  <2>1. indexed' = indexed
    BY <1>2 DEF vars, tableVars, indexed
  <2>2. \A h : Accounted(h)' <=> Accounted(h)
    BY <1>2, <2>1 DEF vars, extVars, Accounted
  <2>3. ASSUME NEW y, Covered(y) PROVE Covered(y)'
    BY <1>2, <2>2, <2>3 DEF Covered, vars, extVars
  <2>4. Cover' /\ NothingSkipped'
    BY <1>2, <2>1, <2>2, <2>3 DEF Inv, Cover, NothingSkipped, vars, extVars, tableVars
  <2>5. Running' /\ PushHasRoom'
    BY <1>2 DEF Inv, Running, PushHasRoom, vars, extVars
  <2>6. FlowInOrder' /\ NumberedInOrder'
    BY <1>2 DEF Inv, FlowInOrder, Beyond, NumberedInOrder, vars, extVars, tableVars
  <2> QED  BY <2>4, <2>5, <2>6, TypeStep DEF Inv
<1> QED  BY <1>1, <1>2

(* The producer never waits for room in the queue: getBatchHeights asks    *)
(* for no more heights than fit, and nobody else fills the queue.          *)
THEOREM PushNeverWaits == Spec => []PushHasRoom
<1>1. Inv => PushHasRoom
  BY DEF Inv
<1> QED  BY <1>1, InvInit, InvStep, PTL DEF Spec

(* CollectInternalTxs numbers the rows of the whole chain in order and     *)
(* without a gap, and leaves no edge without its row, whatever is killed,  *)
(* retried or rolled back.                                                 *)
THEOREM RowsNumberedInOrder == Spec => []NumberedInOrder
<1>1. Inv => NumberedInOrder
  BY DEF Inv
<1> QED  BY <1>1, InvInit, InvStep, PTL DEF Spec

(* Up to the last produced height, a height with calls is indexed, on its  *)
(* way or was dropped by a failed transaction of the consumer: batches,    *)
(* retries and restarts lose nothing.                                      *)
THEOREM NothingIsSkipped == Spec => []NothingSkipped
<1>1. Inv => NothingSkipped
  BY DEF Inv
<1> QED  BY <1>1, InvInit, InvStep, PTL DEF Spec
-----------------------------------------------------------------------------
(* The tables are a log: a step leaves them alone, or appends the rows of  *)
(* one height above all that are there, with the next sequences, their     *)
(* edges and the counter together.  No row is rewritten, and the insert    *)
(* never meets a row of its height, where it would do nothing              *)
(* (CollectInternalTxs).                                                   *)
AppendsRows ==
  \/ UNCHANGED tableVars
  \/ \E h \in Heights :
       /\ \A r \in rows : r.height < h /\ r.sequence <= seqInfo
       /\ rows' = rows \union {[height |-> h, sequence |-> s] : s \in newSeqs(h)}
       /\ edges' = edges \union newSeqs(h)
       /\ seqInfo' = seqInfo + Calls[h]

LEMMA AppendsRowsStep == Inv /\ [Next]_vars => AppendsRows
<1> SUFFICES ASSUME Inv, [Next]_vars PROVE AppendsRows
  OBVIOUS
<1>1. ASSUME UNCHANGED tableVars PROVE AppendsRows
  BY <1>1 DEF AppendsRows
<1>2. CASE ConsumeCommit
  <2>1. TypeOK /\ FlowInOrder /\ NumberedInOrder
    BY DEF Inv, TypeInv
  <2>2. work \in Heights /\ work # 0
    BY <1>2, <2>1, IndexedAfterCommit DEF ConsumeCommit
  <2>3. \A r \in rows : r.height < work
    BY <2>1, <2>2 DEF FlowInOrder
  <2>4. work \notin indexed
    BY <2>2, <2>3 DEF indexed, Heights
  <2>5. \A r \in rows : r.sequence <= seqInfo
    <3>1. seqInfo \in Nat /\ \A r \in rows : r.sequence \in 1 .. seqInfo
      BY <2>1 DEF TypeOK, NumberedInOrder
    <3> QED  BY <3>1
  <2>6. /\ rows' = rows \union {[height |-> work, sequence |-> s] : s \in newSeqs(work)}
        /\ edges' = edges \union newSeqs(work)
        /\ seqInfo' = seqInfo + Calls[work]
    BY <1>2, <2>4 DEF ConsumeCommit
  <2> QED  BY <2>2, <2>3, <2>5, <2>6 DEF AppendsRows
<1>3. CASE BlockCommit \/ Start \/ StartSkipped \/ Kill \/ Producer \/ Pop \/ ConsumeFail
  <2>1. UNCHANGED tableVars
    BY <1>3 DEF BlockCommit, Start, StartSkipped, Kill, Producer, ProduceStart, ScrapeDone,
                ScrapeFail, Push, Pop, ConsumeFail
  <2> QED  BY <1>1, <2>1
<1>4. CASE UNCHANGED vars
  BY <1>1, <1>4 DEF vars
<1> QED  BY <1>2, <1>3, <1>4 DEF Next, Consumer

(* Whatever is killed, retried or rolled back, the internal transactions   *)
(* of a height are appended once, after those of all lower heights.        *)
THEOREM RowsAreAppended == Spec => [][AppendsRows]_vars
<1>1. Inv /\ [Next]_vars => [AppendsRows]_vars
  BY AppendsRowsStep
<1> QED  BY <1>1, InvInit, InvStep, PTL DEF Spec
=============================================================================
