--------------------------- MODULE IndexerProofs ---------------------------
(***************************************************************************)
(* Proofs about Indexer for every value of its constants: any number of    *)
(* nodes, prepare goroutines, crashes, any batch size and channel          *)
(* capacity, with and without START_HEIGHT, 40001 answers and a second     *)
(* indexer.                                                                *)
(***************************************************************************)
EXTENDS Indexer, FiniteSetTheorems, SequenceTheorems, TLAPS

USE ScraperAssumption, IndexerAssumption

(* The counter is exact and the last block is defined: what TypeOK needs   *)
(* to be inductive.                                                        *)
TypeInv == TypeOK /\ CountExact /\ HasLast

(* The last row of a database that has one is a height.                    *)
LEMMA LastBlockNat ==
  ASSUME db \in SUBSET (Nat \ {0}), HasLast
  PROVE  /\ lastBlock \in Nat
         /\ \A x \in db : x <= lastBlock
         /\ db # {} => lastBlock \in db
<1>1. CASE db = {}
  BY <1>1 DEF lastBlock
<1>2. CASE db # {}
  <2>1. \E m \in db : \A x \in db : x <= m
    BY <1>2 DEF HasLast
  <2>2. lastBlock \in db /\ \A x \in db : x <= lastBlock
    BY <1>2, <2>1 DEF lastBlock
  <2> QED  BY <2>2
<1> QED  BY <1>1, <1>2

(* Where a process starts: at or above the row after the last one, and not *)
(* above it unless START_HEIGHT says so.                                   *)
LEMMA StartHeightBounds ==
  ASSUME NEW d \in Nat \ {0}, NEW c \in Nat
  PROVE  LET h == computeStartHeight(d, c, StartSet, StartVal)
         IN  h \in Nat \ {0} /\ (h = d \/ (StartSet /\ d < h /\ h <= StartVal))
BY DEF computeStartHeight, MaxOf, MinOf

(* Adding a row keeps a last one.                                          *)
LEMMA LastAfterInsert ==
  ASSUME db \in SUBSET (Nat \ {0}), HasLast, NEW h \in Nat \ {0},
         db' = db \union {h}
  PROVE  HasLast'
<1>1. CASE db = {}
  BY <1>1 DEF HasLast
<1>2. CASE db # {}
  <2>1. PICK m \in db : \A x \in db : x <= m
    BY <1>2 DEF HasLast
  <2>2. CASE h <= m
    BY <2>1, <2>2 DEF HasLast
  <2>3. CASE m < h
    BY <2>1, <2>3 DEF HasLast
  <2> QED  BY <2>2, <2>3
<1> QED  BY <1>1, <1>2

LEMMA TypeInit == Init => TypeInv
<1> SUFFICES ASSUME Init PROVE TypeInv
  OBVIOUS
<1>1. TypeOK
  <2>1. batch \in [Offsets -> {"fetch", "send", "ok", "err"}]
    BY DEF Init, NewBatch
  <2>2. prepDone \in [PrepIds -> SUBSET Submodules]
    BY DEF Init
  <2>3. cache \in [Submodules -> SUBSET (Nat \ {0})]
    BY DEF Init
  <2>4. blockChan \in Seq(Nat \ {0}) /\ controlChan \in Seq({"pause", "start"})
    BY DEF Init
  <2>5. nodeHead \in [Nodes -> Nat] /\ prep \in [PrepIds -> Nat]
    BY DEF Init
  <2>6. paused \in BOOLEAN
    BY DEF Init
  <2> QED  BY <2>1, <2>2, <2>3, <2>4, <2>5, <2>6 DEF Init, TypeOK
<1>2. CountExact
  <2>1. active = {}
    BY DEF Init, active
  <2> QED  BY <2>1, FS_EmptySet DEF CountExact, Init
<1>3. HasLast
  BY DEF Init, HasLast
<1> QED  BY <1>1, <1>2, <1>3 DEF TypeInv

(* The steps of the scraper keep the types.                                *)
LEMMA TypeScraper == TypeOK /\ ScraperStep => TypeOK'
<1> SUFFICES ASSUME TypeOK, ScraperStep PROVE TypeOK'
  OBVIOUS
<1> USE DEF TypeOK, chainVars, pipelineVars, storeVars, ScraperStep
<1>1. CASE CtlLoad
  <2>1. ctl' \in {"idle", "pause", "start"}
    BY <1>1 DEF CtlLoad
  <2>2. controlChan' \in Seq({"pause", "start"})
    BY <1>1 DEF CtlLoad
  <2> QED  BY <1>1, <2>1, <2>2 DEF CtlLoad
<1>2. CASE CtlStore
  BY <1>2 DEF CtlStore
<1>3. CASE FastPoll
  BY <1>3 DEF FastPoll
<1>4. CASE FastSpawn
  BY <1>4 DEF FastSpawn
<1>5. CASE \E h \in fetching : FastFetched(h)
  BY <1>5 DEF FastFetched
<1>6. CASE \E h \in fetching : FastReachedLatest(h)
  BY <1>6 DEF FastReachedLatest
<1>7. CASE \E h \in sending : FastSend(h)
  BY <1>7 DEF FastSend
<1>8. CASE FastReturn
  BY <1>8 DEF FastReturn, NewBatch
<1>9. CASE \E i \in Offsets : SlowFetched(i)
  BY <1>9 DEF SlowFetched
<1>10. CASE \E i \in Offsets : SlowFailed(i)
  BY <1>10 DEF SlowFailed
<1>11. CASE \E i \in Offsets : SlowSend(i)
  BY <1>11 DEF SlowSend, Offsets
<1>12. CASE SlowAdvance
  BY <1>12 DEF SlowAdvance, NewBatch
<1> QED
  BY <1>1, <1>2, <1>3, <1>4, <1>5, <1>6, <1>7, <1>8, <1>9, <1>10, <1>11,
     <1>12 DEF ScraperNext, FastNext, SlowNext

(* A process that starts or dies: every variable of the process is set     *)
(* afresh.                                                                 *)
LEMMA TypeReset ==
  ASSUME TypeInv, NEW q \in {"off", "check"}, NEW h \in Nat \ {0},
         ScraperReset(q, h), PipelineReset(h), UNCHANGED <<chainVars, db>>,
         crashes' \in Nat
  PROVE  TypeInv'
<1>1. TypeOK'
  <2> USE DEF TypeInv, TypeOK, ScraperReset, PipelineReset, chainVars
  <2>1. batch' \in [Offsets -> {"fetch", "send", "ok", "err"}]
    BY DEF NewBatch
  <2>2. prepDone' \in [PrepIds -> SUBSET Submodules]
    OBVIOUS
  <2>3. cache' \in [Submodules -> SUBSET (Nat \ {0})]
    OBVIOUS
  <2>4. blockChan' \in Seq(Nat \ {0}) /\ controlChan' \in Seq({"pause", "start"})
    OBVIOUS
  <2>5. prep' \in [PrepIds -> Nat]
    OBVIOUS
  <2>6. paused' \in BOOLEAN
    OBVIOUS
  <2>7. pc' \in {"off", "check"}
    OBVIOUS
  <2> QED  BY <2>1, <2>2, <2>3, <2>4, <2>5, <2>6, <2>7
<1>2. CountExact'
  <2>1. active' = {}
    BY DEF PipelineReset, active
  <2> QED  BY <2>1, FS_EmptySet DEF CountExact, PipelineReset
<1>3. HasLast'
  BY DEF TypeInv, HasLast
<1> QED  BY <1>1, <1>2, <1>3 DEF TypeInv

(* Start, Crash and CollectFail are such resets.                           *)
LEMMA StartIsReset ==
  ASSUME TypeInv, Start
  PROVE  \E h \in Nat \ {0} :
           /\ ScraperReset("check", h) /\ PipelineReset(h)
           /\ h = lastBlock + 1 \/ (StartSet /\ lastBlock + 1 < h /\ h <= StartVal)
<1>1. lastBlock + 1 \in Nat \ {0}
  BY LastBlockNat DEF TypeInv, TypeOK
<1>2. PICK n \in Nodes :
        LET h == computeStartHeight(lastBlock + 1, nodeHead[n], StartSet, StartVal)
        IN  ScraperReset("check", h) /\ PipelineReset(h)
  BY DEF Start
<1>3. nodeHead[n] \in Nat
  BY DEF TypeInv, TypeOK
<1> DEFINE h == computeStartHeight(lastBlock + 1, nodeHead[n], StartSet, StartVal)
<1>4. h \in Nat \ {0} /\ (h = lastBlock + 1
                          \/ (StartSet /\ lastBlock + 1 < h /\ h <= StartVal))
  BY <1>1, <1>3, StartHeightBounds
<1> QED  BY <1>2, <1>4

LEMMA TypeRestart ==
  ASSUME TypeInv, Start \/ Crash \/ CollectFail
  PROVE  TypeInv'
<1>1. CASE Start
  <2>1. PICK h \in Nat \ {0} : ScraperReset("check", h) /\ PipelineReset(h)
    BY <1>1, StartIsReset
  <2>2. UNCHANGED <<chainVars, db>> /\ crashes' \in Nat
    BY <1>1 DEF Start, storeVars, TypeInv, TypeOK
  <2> QED  BY <2>1, <2>2, TypeReset
<1>2. CASE Crash
  <2>1. crashes' \in Nat
    BY <1>2 DEF Crash, TypeInv, TypeOK
  <2> QED  BY <1>2, <2>1, TypeReset DEF Crash, Dead
<1>3. CASE CollectFail
  <2>1. crashes' \in Nat
    BY <1>3 DEF CollectFail, TypeInv, TypeOK
  <2> QED  BY <1>3, <2>1, TypeReset DEF CollectFail, Dead
<1> QED  BY <1>1, <1>2, <1>3

(* A new goroutine is one more active one ...                              *)
LEMMA CountUp ==
  ASSUME TypeOK, CountExact, NEW p \in PrepIds, p \notin active,
         NEW h \in Nat \ {0}, prep' = [prep EXCEPT ![p] = h],
         prepareCount' = prepareCount + 1
  PROVE  CountExact'
<1>1. active' = active \union {p}
  BY DEF active, TypeOK
<1> QED  BY <1>1, FS_AddElement DEF CountExact

(* ... and a finished one is one less.                                     *)
LEMMA CountDown ==
  ASSUME TypeOK, CountExact, NEW p \in PrepIds, p \in active,
         prep' = [prep EXCEPT ![p] = 0], prepareCount' = prepareCount - 1
  PROVE  CountExact' /\ prepareCount' \in Nat
<1>1. active' = active \ {p}
  BY DEF active, TypeOK
<1>2. IsFiniteSet(active') /\ Cardinality(active') = Cardinality(active) - 1
  BY <1>1, FS_RemoveElement DEF CountExact
<1>3. CountExact'
  BY <1>2 DEF CountExact
<1> QED  BY <1>2, <1>3, FS_CardinalityType DEF CountExact

LEMMA CountSame ==
  ASSUME CountExact, UNCHANGED <<prep, prepareCount>>
  PROVE  CountExact'
<1>1. active' = active
  BY DEF active
<1> QED  BY <1>1 DEF CountExact

(* The steps of prepare() and of its goroutines.                           *)
LEMMA TypePrepare == TypeInv /\ PrepareStep => TypeInv'
<1> SUFFICES ASSUME TypeInv, NEW p \in PrepIds,
                    \/ PrepareRecv(p)
                    \/ \E s \in Submodules : SubPrepared(p, s)
                    \/ PrepRetry(p)
                    \/ PrepFinish(p)
             PROVE  TypeInv'
  BY DEF PrepareStep
<1> USE DEF TypeInv
<1>1. CASE PrepareRecv(p)
  <2>1. blockChan' \in Seq(Nat \ {0}) /\ Head(blockChan) \in Nat \ {0}
    BY <1>1 DEF PrepareRecv, TypeOK
  <2>2. HasLast'
    BY <1>1 DEF PrepareRecv, storeVars, HasLast
  <2>3. CASE UNCHANGED <<prep, prepDone, prepareCount>>
    <3>1. TypeOK'
      BY <1>1, <2>1, <2>3 DEF PrepareRecv, TypeOK, chainVars, storeVars
    <3> QED  BY <2>2, <2>3, <3>1, CountSame
  <2>4. CASE /\ p \notin active
             /\ prepareCount' = prepareCount + 1
             /\ prep' = [prep EXCEPT ![p] = Head(blockChan)]
             /\ prepDone' = [prepDone EXCEPT ![p] = {}]
    <3>1. TypeOK'
      BY <1>1, <2>1, <2>4 DEF PrepareRecv, TypeOK, chainVars, storeVars
    <3> QED  BY <2>1, <2>2, <2>4, <3>1, CountUp
  <2> QED  BY <1>1, <2>3, <2>4 DEF PrepareRecv
<1>2. CASE \E s \in Submodules : SubPrepared(p, s)
  <2>1. PICK s \in Submodules : SubPrepared(p, s)
    BY <1>2
  <2>2. prep[p] \in Nat \ {0}
    BY <2>1 DEF SubPrepared, active, TypeOK
  <2>3. /\ cache' \in [Submodules -> SUBSET (Nat \ {0})]
        /\ prepDone' \in [PrepIds -> SUBSET Submodules]
    BY <2>1, <2>2 DEF SubPrepared, TypeOK
  <2>4. TypeOK'
    BY <2>1, <2>3 DEF SubPrepared, TypeOK, chainVars, scraperVars, storeVars
  <2>5. HasLast'
    BY <2>1 DEF SubPrepared, storeVars, HasLast
  <2> QED  BY <2>1, <2>4, <2>5, CountSame DEF SubPrepared
<1>3. CASE PrepRetry(p)
  <2>1. TypeOK'
    BY <1>3 DEF PrepRetry, TypeOK, chainVars, scraperVars, storeVars
  <2>2. HasLast'
    BY <1>3 DEF PrepRetry, storeVars, HasLast
  <2> QED  BY <1>3, <2>1, <2>2, CountSame DEF PrepRetry
<1>4. CASE PrepFinish(p)
  <2>1. CountExact' /\ prepareCount' \in Nat
    BY <1>4, CountDown DEF PrepFinish
  <2>2. prep[p] \in Nat \ {0}
    BY <1>4 DEF PrepFinish, active, TypeOK
  <2>3. TypeOK'
    BY <1>4, <2>1, <2>2 DEF PrepFinish, TypeOK, chainVars, scraperVars, storeVars
  <2>4. HasLast'
    BY <1>4 DEF PrepFinish, storeVars, HasLast
  <2> QED  BY <2>1, <2>3, <2>4
<1> QED  BY <1>1, <1>2, <1>3, <1>4

(* The steps of collect() that leave the process alive.                    *)
LEMMA TypeCollect ==
  ASSUME TypeInv,
         \/ CollectPoll \/ CollectLock \/ CollectSignal \/ CollectSkip
         \/ CollectCommit \/ CollectAdvance
         \/ \E ss \in {{}, {"tx"}, Submodules} : CollectSerialization(ss)
  PROVE  TypeInv'
<1> USE DEF TypeInv
<1>1. UNCHANGED <<prep, prepareCount>>
  BY DEF CollectPoll, CollectLock, CollectSignal, CollectSkip, CollectCommit,
         CollectAdvance, CollectSerialization
<1>2. CountExact'
  BY <1>1, CountSame
<1>3. HasLast'
  <2>1. CASE CollectCommit
    BY <2>1, LastAfterInsert DEF CollectCommit, TypeOK
  <2>2. CASE db' = db
    BY <2>2 DEF HasLast
  <2> QED
    BY <2>1, <2>2 DEF CollectPoll, CollectLock, CollectSignal, CollectSkip,
                      CollectAdvance, CollectSerialization, storeVars
<1>4. TypeOK'
  <2> USE DEF TypeOK, chainVars, scraperVars, storeVars
  <2>1. CASE CollectPoll
    BY <2>1 DEF CollectPoll, TakeBlock
  <2>2. CASE CollectLock
    BY <2>2 DEF CollectLock
  <2>3. CASE CollectSignal
    <3>1. controlChan' \in Seq({"pause", "start"})
      BY <2>3 DEF CollectSignal
    <3>2. paused' \in BOOLEAN
      BY <2>3 DEF CollectSignal, needPause
    <3> QED  BY <2>3, <3>1, <3>2 DEF CollectSignal, TakeBlock
  <2>4. CASE CollectSkip
    BY <2>4 DEF CollectSkip
  <2>5. CASE CollectCommit
    <3>1. cache' \in [Submodules -> SUBSET (Nat \ {0})]
      BY <2>5 DEF CollectCommit
    <3> QED  BY <2>5, <3>1 DEF CollectCommit
  <2>6. CASE CollectAdvance
    BY <2>6 DEF CollectAdvance
  <2>7. CASE \E ss \in {{}, {"tx"}, Submodules} : CollectSerialization(ss)
    <3>1. cache' \in [Submodules -> SUBSET (Nat \ {0})]
      BY <2>7 DEF CollectSerialization
    <3> QED  BY <2>7, <3>1 DEF CollectSerialization
  <2> QED  BY <2>1, <2>2, <2>3, <2>4, <2>5, <2>6, <2>7
<1> QED  BY <1>2, <1>3, <1>4

LEMMA TypeNext == TypeInv /\ [Next]_vars => TypeInv'
<1> SUFFICES ASSUME TypeInv, [Next]_vars PROVE TypeInv'
  OBVIOUS
<1>1. CASE ChainStep
  <2>1. UNCHANGED <<scraperVars, pipelineVars, storeVars>>
    BY <1>1 DEF ChainStep, NodeAdvance
  <2>2. TypeOK'
    BY <1>1, <2>1 DEF TypeInv, TypeOK, ChainStep, NodeAdvance, scraperVars,
                      pipelineVars, storeVars
  <2>3. HasLast'
    BY <2>1 DEF TypeInv, HasLast, storeVars
  <2> QED  BY <2>1, <2>2, <2>3, CountSame DEF TypeInv, pipelineVars
<1>2. CASE ScraperStep
  <2>1. UNCHANGED <<pipelineVars, storeVars>>
    BY <1>2 DEF ScraperStep
  <2>2. HasLast'
    BY <2>1 DEF TypeInv, HasLast, storeVars
  <2> QED  BY <1>2, <2>1, <2>2, CountSame, TypeScraper DEF TypeInv, pipelineVars
<1>3. CASE Start \/ Crash \/ CollectFail
  BY <1>3, TypeRestart
<1>4. CASE PrepareStep
  BY <1>4, TypePrepare
<1>5. CASE CollectStep /\ ~CollectFail
  BY <1>5, TypeCollect DEF CollectStep
<1>6. CASE \E h \in 1 .. MaxHeight : OtherCommit(h)
  <2>1. PICK h \in 1 .. MaxHeight : OtherCommit(h)
    BY <1>6
  <2>2. UNCHANGED <<chainVars, scraperVars, pipelineVars, crashes>>
    BY <2>1 DEF OtherCommit
  <2>3. db' = db \union {h} /\ h \in Nat \ {0}
    BY <2>1 DEF OtherCommit
  <2>4. TypeOK'
    BY <2>2, <2>3 DEF TypeInv, TypeOK, chainVars, scraperVars, pipelineVars
  <2>5. HasLast'
    BY <2>3, LastAfterInsert DEF TypeInv, TypeOK
  <2> QED  BY <2>2, <2>4, <2>5, CountSame DEF TypeInv, pipelineVars
<1>7. CASE UNCHANGED vars
  <2>1. UNCHANGED <<chainVars, scraperVars, pipelineVars, storeVars>>
    BY <1>7 DEF vars
  <2>2. TypeOK'
    BY <2>1 DEF TypeInv, TypeOK, chainVars, scraperVars, pipelineVars, storeVars
  <2>3. HasLast'
    BY <2>1 DEF TypeInv, HasLast, storeVars
  <2> QED  BY <2>1, <2>2, <2>3, CountSame DEF TypeInv, pipelineVars
<1> QED
  BY <1>1, <1>2, <1>3, <1>4, <1>5, <1>6, <1>7 DEF Next, CollectStep

(* Every variable keeps its type, prepareCount is the number of prepare    *)
(* goroutines that are running, and the database has a last row unless it  *)
(* is empty.                                                               *)
THEOREM TypeInvariant == Spec => []TypeInv
BY TypeInit, TypeNext, PTL DEF Spec

(* The type invariant of the model.                                        *)
THEOREM TypeCorrect == Spec => []TypeOK
<1>1. TypeInv => TypeOK
  BY DEF TypeInv
<1> QED  BY <1>1, TypeInvariant, PTL
-----------------------------------------------------------------------------
(***************************************************************************)
(* The database.  Whatever the process does, a step adds at most one row,  *)
(* and that one passed the block submodule's look at the previous row.     *)
(***************************************************************************)
LEMMA DbStep ==
  ASSUME TypeInv, [Next]_vars
  PROVE  \/ db' = db
         \/ \E h \in Nat \ {0} : h \notin db /\ Linked(h) /\ db' = db \union {h}
<1>1. CASE ChainStep \/ ScraperStep \/ Start
  BY <1>1 DEF ChainStep, ScraperStep, Start, storeVars
<1>2. CASE Crash \/ CollectFail
  BY <1>2 DEF Crash, CollectFail, Dead
<1>3. CASE PrepareStep
  BY <1>3 DEF PrepareStep, PrepareRecv, SubPrepared, PrepRetry, PrepFinish,
              storeVars
<1>4. CASE CollectPoll \/ CollectLock \/ CollectSignal \/ CollectSkip
           \/ CollectAdvance
           \/ \E ss \in {{}, {"tx"}, Submodules} : CollectSerialization(ss)
  BY <1>4 DEF CollectPoll, CollectLock, CollectSignal, CollectSkip,
              CollectAdvance, CollectSerialization, storeVars
<1>5. CASE CollectCommit
  BY <1>5 DEF CollectCommit, TypeInv, TypeOK
<1>6. CASE \E h \in 1 .. MaxHeight : OtherCommit(h)
  BY <1>6 DEF OtherCommit
<1>7. CASE UNCHANGED vars
  BY <1>7 DEF vars, storeVars
<1> QED
  BY <1>1, <1>2, <1>3, <1>4, <1>5, <1>6, <1>7 DEF Next, CollectStep

LEMMA FloorType == Floor \in Nat \ {0} /\ (StartSet => StartVal <= Floor)
BY DEF Floor, MaxOf

(* A height above Floor is linked only to a row that exists.               *)
LEMMA LinkedAboveFloor ==
  ASSUME NEW h \in Nat \ {0}, Linked(h), h > Floor
  PROVE  h - 1 \in db
BY DEF Linked, Floor, MaxOf

LEMMA NoHolesInsert ==
  ASSUME db \in SUBSET (Nat \ {0}), NoHoles,
         NEW h \in Nat \ {0}, Linked(h), db' = db \union {h}
  PROVE  NoHoles'
<1> SUFFICES ASSUME NEW x \in db', NEW y \in Floor .. x PROVE y \in db'
  BY DEF NoHoles, Floor
<1>1. CASE x \in db
  BY <1>1 DEF NoHoles
<1>2. CASE x = h
  <2>1. Floor \in Nat /\ y \in Nat
    BY <1>2, FloorType
  <2>2. CASE y = h
    BY <2>2
  <2>3. CASE y < h
    <3>1. h - 1 \in db
      BY <1>2, <2>1, <2>3, FloorType, LinkedAboveFloor
    <3>2. y \in Floor .. h - 1
      BY <1>2, <2>1, <2>3
    <3> QED  BY <3>1, <3>2 DEF NoHoles
  <2> QED  BY <1>2, <2>1, <2>2, <2>3
<1> QED  BY <1>1, <1>2

LEMMA NoHolesNext == TypeInv /\ NoHoles /\ [Next]_vars => NoHoles'
<1> SUFFICES ASSUME TypeInv, NoHoles, [Next]_vars PROVE NoHoles'
  OBVIOUS
<1>1. CASE db' = db
  BY <1>1 DEF NoHoles, Floor
<1>2. CASE \E h \in Nat \ {0} : h \notin db /\ Linked(h) /\ db' = db \union {h}
  BY <1>2, NoHolesInsert DEF TypeInv, TypeOK
<1> QED  BY <1>1, <1>2, DbStep

(* The rows of the database from START_HEIGHT on never have a hole:        *)
(* through crashes and restarts, after 40001 answers that make collect()   *)
(* pass over a block, and with a second indexer writing.                   *)
THEOREM DatabaseHasNoHoles == Spec => []NoHoles
<1>1. Init => NoHoles
  BY DEF Init, NoHoles
<1> QED  BY <1>1, NoHolesNext, TypeInvariant, PTL DEF Spec

(* A row that is added above START_HEIGHT is the successor of the last     *)
(* one: a row above it would, without a hole, have it below.               *)
LEMMA InsertIsLogStep ==
  ASSUME TypeInv, NoHoles, NEW h \in Nat \ {0}, h \notin db, Linked(h),
         db' = db \union {h}
  PROVE  Log!LogNext
<1>1. h \in db' \ db
  OBVIOUS
<1>2. CASE h <= Floor /\ StartSet /\ h <= StartVal
  BY <1>1, <1>2 DEF Log!LogNext, Log!Early
<1>3. CASE ~(StartSet /\ h <= StartVal)
  <2>1. h = 1 \/ h - 1 \in db
    BY <1>3 DEF Linked
  <2>2. Floor <= h
    BY <1>3 DEF Floor, MaxOf
  <2>3. ASSUME NEW x \in db PROVE x < h
    <3>1. x \in Nat /\ Floor \in Nat
      BY FloorType DEF TypeInv, TypeOK
    <3>2. CASE h <= x
      <4>1. h \in Floor .. x
        BY <2>2, <3>1, <3>2
      <4> QED  BY <4>1 DEF NoHoles
    <3> QED  BY <3>1, <3>2
  <2> QED  BY <1>1, <2>1, <2>3 DEF Log!LogNext, Log!Append1
<1> QED  BY <1>2, <1>3 DEF Floor, MaxOf

(* The pipeline implements the append-only log its readers rely on.        *)
THEOREM ImplementsLog == Spec => LogSpec
<1>1. Init => Log!LogInit
  BY DEF Init, Log!LogInit
<1>2. TypeInv /\ NoHoles /\ [Next]_vars => [Log!LogNext]_db
  BY DbStep, InsertIsLogStep
<1> QED
  BY <1>1, <1>2, TypeInvariant, DatabaseHasNoHoles, PTL
     DEF Spec, LogSpec, Log!Spec
-----------------------------------------------------------------------------
(***************************************************************************)
(* Back pressure.  SignalAgreement is inductive with two facts: at most    *)
(* one signal is in the channel, and collect() still has a reason for the  *)
(* signal while it holds the mutex.                                        *)
(***************************************************************************)
SignalInv == SignalHeld /\ SignalAgreement

(* What the invariant is about, apart from the counts.                     *)
signalVars == <<status, ctl, controlChan, paused>>

LEMMA AgreementSame ==
  ASSUME SignalAgreement, UNCHANGED signalVars
  PROVE  SignalAgreement'
BY DEF SignalAgreement, Settled, Stored, signalVars

LEMMA HeldSame ==
  ASSUME SignalHeld, controlChan' = controlChan, coll' # "signal"
  PROVE  SignalHeld'
BY DEF SignalHeld

LEMMA HeldStill ==
  ASSUME SignalHeld, UNCHANGED <<controlChan, coll, blockMap, prepareCount, paused>>
  PROVE  SignalHeld'
BY DEF SignalHeld, needPause, needStart, inflightCount

(* A process that starts or dies has no signal under way.                  *)
LEMMA SignalReset ==
  ASSUME NEW q, NEW h, ScraperReset(q, h), PipelineReset(h)
  PROVE  SignalInv'
BY DEF ScraperReset, PipelineReset, SignalInv, SignalHeld, SignalAgreement,
       Settled, Stored

LEMMA SignalScraper == TypeInv /\ SignalInv /\ ScraperStep => SignalInv'
<1> SUFFICES ASSUME TypeInv, SignalInv, ScraperStep PROVE SignalInv'
  OBVIOUS
<1>1. UNCHANGED <<coll, blockMap, prepareCount, paused>>
  BY DEF ScraperStep, pipelineVars
<1>2. ASSUME UNCHANGED <<status, ctl, controlChan>> PROVE SignalInv'
  BY <1>1, <1>2, AgreementSame, HeldStill DEF SignalInv, signalVars
<1>3. CASE CtlLoad
  <2>1. controlChan \in {<<"pause">>, <<"start">>}
    BY <1>3 DEF CtlLoad, SignalInv, SignalHeld
  <2>2. controlChan' = <<>>
    <3>1. controlChan \in Seq({"pause", "start"}) /\ Len(controlChan) = 1
      <4>1. Len(<<"pause">>) = 1 /\ Len(<<"start">>) = 1
        OBVIOUS
      <4> QED  BY <2>1, <4>1 DEF TypeInv, TypeOK
    <3>2. Tail(controlChan) \in Seq({"pause", "start"}) /\ Len(Tail(controlChan)) = 0
      BY <3>1
    <3>3. Tail(controlChan) = <<>>
      BY <3>2, EmptySeq
    <3> QED  BY <1>3, <3>3 DEF CtlLoad
  <2>3. SignalHeld'
    BY <1>1, <2>2 DEF SignalInv, SignalHeld, needPause, needStart, inflightCount
  <2>4. CASE controlChan = <<"pause">>
    <3>1. Head(controlChan) = "pause"
      BY <2>4
    <3>2. ctl' = (IF status = "running" THEN "pause" ELSE "idle")
      BY <1>3, <3>1 DEF CtlLoad
    <3> QED
      BY <1>1, <1>3, <2>2, <2>3, <2>4, <3>2
         DEF CtlLoad, SignalInv, SignalAgreement, Settled, Stored, TypeInv, TypeOK
  <2>5. CASE controlChan = <<"start">>
    <3>1. Head(controlChan) = "start"
      BY <2>5
    <3>2. ctl' = (IF status = "paused" THEN "start" ELSE "idle")
      BY <1>3, <3>1 DEF CtlLoad
    <3> QED
      BY <1>1, <1>3, <2>2, <2>3, <2>5, <3>2
         DEF CtlLoad, SignalInv, SignalAgreement, Settled, Stored, TypeInv, TypeOK
  <2> QED  BY <2>1, <2>4, <2>5
<1>4. CASE CtlStore
  <2>1. SignalHeld'
    BY <1>1, <1>4, HeldStill DEF CtlStore, SignalInv
  <2>2. Stored' = Stored
    BY <1>4 DEF CtlStore, Stored, TypeInv, TypeOK
  <2>3. SignalAgreement'
    BY <1>1, <1>4, <2>2 DEF CtlStore, SignalInv, SignalAgreement, Settled
  <2> QED  BY <2>1, <2>3 DEF SignalInv
<1>5. CASE \E h \in fetching : FastReachedLatest(h)
  <2>1. status' = "stopped" /\ UNCHANGED <<ctl, controlChan>>
    BY <1>5 DEF FastReachedLatest
  <2>2. SignalHeld'
    BY <1>1, <2>1, HeldStill DEF SignalInv
  <2>3. SignalAgreement'
    BY <1>1, <2>1 DEF SignalInv, SignalAgreement, Settled, Stored, TypeInv, TypeOK
  <2> QED  BY <2>2, <2>3 DEF SignalInv
<1>6. CASE FastPoll \/ FastSpawn \/ FastReturn
           \/ (\E h \in fetching : FastFetched(h)) \/ \E h \in sending : FastSend(h)
  BY <1>2, <1>6 DEF FastPoll, FastSpawn, FastReturn, FastFetched, FastSend
<1>7. CASE SlowNext
  BY <1>2, <1>7 DEF SlowNext, SlowFetched, SlowFailed, SlowSend, SlowAdvance
<1> QED
  BY <1>3, <1>4, <1>5, <1>6, <1>7 DEF ScraperStep, ScraperNext, FastNext

LEMMA SignalPrepare == TypeInv /\ SignalInv /\ PrepareStep => SignalInv'
<1> SUFFICES ASSUME TypeInv, SignalInv, NEW p \in PrepIds,
                    \/ PrepareRecv(p)
                    \/ \E s \in Submodules : SubPrepared(p, s)
                    \/ PrepRetry(p)
                    \/ PrepFinish(p)
             PROVE  SignalInv'
  BY DEF PrepareStep
<1>1. UNCHANGED signalVars /\ coll' = coll
  BY DEF signalVars, PrepareRecv, SubPrepared, PrepRetry, PrepFinish, scraperVars
<1>2. SignalAgreement'
  BY <1>1, AgreementSame DEF SignalInv
<1>3. coll # "signal" \/ UNCHANGED <<blockMap, prepareCount>>
  BY DEF PrepareRecv, SubPrepared, PrepRetry, PrepFinish
<1>4. SignalHeld'
  BY <1>1, <1>3, HeldSame, HeldStill DEF SignalInv, signalVars
<1> QED  BY <1>2, <1>4 DEF SignalInv

LEMMA SignalCollect == TypeInv /\ SignalInv /\ CollectStep => SignalInv'
<1> SUFFICES ASSUME TypeInv, SignalInv, CollectStep PROVE SignalInv'
  OBVIOUS
<1>1. CASE CollectPoll \/ CollectSkip \/ CollectCommit \/ CollectAdvance
           \/ \E ss \in {{}, {"tx"}, Submodules} : CollectSerialization(ss)
  <2>1. UNCHANGED signalVars /\ coll' # "signal"
    BY <1>1 DEF CollectPoll, TakeBlock, CollectSkip, CollectCommit,
                CollectAdvance, CollectSerialization, signalVars, scraperVars
  <2> QED  BY <2>1, AgreementSame, HeldSame DEF SignalInv, signalVars
<1>2. CASE CollectLock
  <2>1. UNCHANGED signalVars /\ UNCHANGED <<blockMap, prepareCount>>
    BY <1>2 DEF CollectLock, signalVars, scraperVars
  <2>2. SignalHeld'
    BY <1>2, <2>1 DEF CollectLock, SignalInv, SignalHeld, needPause, needStart,
                      inflightCount, signalVars
  <2> QED  BY <2>1, <2>2, AgreementSame DEF SignalInv
<1>3. CASE CollectSignal
  <2>1. /\ controlChan = <<>> /\ coll' # "signal" /\ UNCHANGED <<status, ctl>>
        /\ controlChan' = <<IF needPause THEN "pause" ELSE "start">>
        /\ paused' = needPause
    BY <1>3 DEF CollectSignal, TakeBlock
  <2>2. SignalHeld'
    BY <2>1 DEF SignalHeld
  <2>3. CASE needPause
    <3>1. paused = FALSE /\ paused' = TRUE
      BY <2>1, <2>3 DEF needPause, TypeInv, TypeOK
    <3>2. controlChan' = <<"pause">>
      BY <2>1, <2>3
    <3> QED
      BY <2>1, <2>2, <3>1, <3>2
         DEF SignalInv, SignalAgreement, Settled, Stored, TypeInv, TypeOK
  <2>4. CASE ~needPause
    <3>1. needStart
      BY <1>3, <2>4 DEF CollectSignal, SignalInv, SignalHeld
    <3>2. paused = TRUE /\ paused' = FALSE
      BY <2>1, <2>4, <3>1 DEF needPause, needStart, TypeInv, TypeOK
    <3>3. controlChan' = <<"start">>
      BY <2>1, <2>4
    <3> QED
      BY <2>1, <2>2, <3>2, <3>3
         DEF SignalInv, SignalAgreement, Settled, Stored, TypeInv, TypeOK
  <2> QED  BY <2>3, <2>4
<1>4. CASE CollectFail
  BY <1>4, SignalReset DEF CollectFail, Dead
<1> QED  BY <1>1, <1>2, <1>3, <1>4 DEF CollectStep

LEMMA SignalNext == TypeInv /\ SignalInv /\ [Next]_vars => SignalInv'
<1> SUFFICES ASSUME TypeInv, SignalInv, [Next]_vars PROVE SignalInv'
  OBVIOUS
<1>1. ASSUME UNCHANGED <<scraperVars, pipelineVars>> PROVE SignalInv'
  <2>1. UNCHANGED <<status, ctl, controlChan, paused, coll, blockMap, prepareCount>>
    BY <1>1 DEF scraperVars, pipelineVars
  <2> QED  BY <2>1, AgreementSame, HeldStill DEF SignalInv, signalVars
<1>2. CASE ChainStep \/ UNCHANGED vars \/ \E h \in 1 .. MaxHeight : OtherCommit(h)
  BY <1>1, <1>2 DEF ChainStep, NodeAdvance, vars, OtherCommit
<1>3. CASE Start
  BY <1>3, StartIsReset, SignalReset
<1>4. CASE Crash
  BY <1>4, SignalReset DEF Crash, Dead
<1>5. CASE ScraperStep \/ PrepareStep \/ CollectStep
  BY <1>5, SignalScraper, SignalPrepare, SignalCollect
<1> QED  BY <1>2, <1>3, <1>4, <1>5 DEF Next

(* collect()'s paused flag and the status fastSync polls agree once the    *)
(* signals under way are handled, unless fastSync has stopped.             *)
THEOREM SignalsAgree == Spec => []SignalAgreement
<1>1. Init => SignalInv
  BY DEF Init, SignalInv, SignalHeld, SignalAgreement, Settled, Stored
<1>2. SignalInv => SignalAgreement
  BY DEF SignalInv
<1> QED  BY <1>1, <1>2, SignalNext, TypeInvariant, PTL DEF Spec
-----------------------------------------------------------------------------
(***************************************************************************)
(* collect() never panics on missing data.  The height it waits for is     *)
(* linked to the database from the moment the process starts, and what     *)
(* was cached for a height that is still to be collected stays cached.     *)
(***************************************************************************)
LEMMA HeightLinkedReset ==
  ASSUME NEW h, PipelineReset(h), Linked(h), db' = db
  PROVE  HeightLinked'
BY DEF PipelineReset, HeightLinked, Linked

LEMMA HeightLinkedSame ==
  ASSUME HeightLinked, UNCHANGED <<height, coll>>, db \subseteq db'
  PROVE  HeightLinked'
BY DEF HeightLinked, Linked

LEMMA HeightLinkedCollect ==
  ASSUME TypeInv, HeightLinked, CollectStep
  PROVE  HeightLinked'
<1>1. CASE CollectPoll \/ CollectLock \/ CollectSignal
  <2>1. height' = height /\ db' = db /\ coll # "advance" /\ coll' # "advance"
    BY <1>1 DEF CollectPoll, CollectLock, CollectSignal, TakeBlock, storeVars
  <2> QED  BY <2>1 DEF HeightLinked, Linked
<1>2. CASE CollectSkip
  BY <1>2 DEF CollectSkip, storeVars, HeightLinked
<1>3. CASE CollectCommit
  BY <1>3 DEF CollectCommit, HeightLinked
<1>4. CASE \E ss \in {{}, {"tx"}, Submodules} : CollectSerialization(ss)
  BY <1>4 DEF CollectSerialization, HeightLinked
<1>5. CASE CollectAdvance
  <2>1. /\ coll = "advance" /\ coll' = "poll" /\ height' = height + 1
        /\ db' = db /\ height \in Nat
    BY <1>5 DEF CollectAdvance, storeVars, TypeInv, TypeOK
  <2>2. CASE SerializationErrors
    BY <2>2 DEF HeightLinked
  <2>3. CASE height \in db
    <3>1. height' - 1 \in db'
      BY <2>1, <2>3
    <3> QED  BY <2>1, <3>1 DEF HeightLinked, Linked
  <2> QED  BY <2>1, <2>2, <2>3 DEF HeightLinked
<1>6. CASE CollectFail
  <2>1. Linked(1) /\ PipelineReset(1) /\ db' = db
    BY <1>6 DEF CollectFail, Dead, Linked
  <2> QED  BY <2>1, HeightLinkedReset
<1> QED  BY <1>1, <1>2, <1>3, <1>4, <1>5, <1>6 DEF CollectStep

LEMMA HeightLinkedNext == TypeInv /\ HeightLinked /\ [Next]_vars => HeightLinked'
<1> SUFFICES ASSUME TypeInv, HeightLinked, [Next]_vars PROVE HeightLinked'
  OBVIOUS
<1>1. CASE Start
  <2>1. PICK h \in Nat \ {0} :
          /\ PipelineReset(h)
          /\ h = lastBlock + 1 \/ (StartSet /\ h <= StartVal)
    BY <1>1, StartIsReset
  <2>2. lastBlock \in Nat /\ (db # {} => lastBlock \in db)
    BY LastBlockNat DEF TypeInv, TypeOK
  <2>3. db = {} => lastBlock = 0
    BY DEF lastBlock
  <2>4. Linked(h)
    BY <2>1, <2>2, <2>3 DEF Linked
  <2>5. db' = db
    BY <1>1 DEF Start, storeVars
  <2> QED  BY <2>1, <2>4, <2>5, HeightLinkedReset
<1>2. CASE Crash
  <2>1. Linked(1) /\ PipelineReset(1) /\ db' = db
    BY <1>2 DEF Crash, Dead, Linked
  <2> QED  BY <2>1, HeightLinkedReset
<1>3. CASE CollectStep
  BY <1>3, HeightLinkedCollect
<1>4. CASE ~(Start \/ Crash \/ CollectStep)
  <2>1. UNCHANGED <<height, coll>>
    BY <1>4 DEF Next, ChainStep, ScraperStep, PrepareStep, PrepareRecv,
                SubPrepared, PrepRetry, PrepFinish, OtherCommit, vars, pipelineVars
  <2>2. db \subseteq db'
    BY DbStep
  <2> QED  BY <2>1, <2>2, HeightLinkedSame
<1> QED  BY <1>1, <1>2, <1>3, <1>4

cacheVars == <<height, prep, prepDone, blockMap, cache, coll>>

LEMMA CacheHeldReset ==
  ASSUME NEW h, PipelineReset(h)
  PROVE  CacheHeld'
BY DEF PipelineReset, CacheHeld

LEMMA CacheHeldPrepare ==
  ASSUME TypeInv, CacheHeld, PrepareStep
  PROVE  CacheHeld'
<1> SUFFICES ASSUME NEW p \in PrepIds,
                    \/ PrepareRecv(p)
                    \/ \E s \in Submodules : SubPrepared(p, s)
                    \/ PrepRetry(p)
                    \/ PrepFinish(p)
             PROVE  CacheHeld'
  BY DEF PrepareStep
<1>1. UNCHANGED <<height, coll>>
  BY DEF PrepareRecv, SubPrepared, PrepRetry, PrepFinish
<1>2. \A h : Uncollected(h)' = Uncollected(h)
  BY <1>1 DEF Uncollected
<1> USE DEF TypeInv, TypeOK, CacheHeld
<1>3. CASE PrepareRecv(p)
  BY <1>2, <1>3 DEF PrepareRecv, Prepared, Uncollected
<1>4. CASE \E s \in Submodules : SubPrepared(p, s)
  <2>1. PICK s \in Submodules : SubPrepared(p, s)
    BY <1>4
  <2>2. /\ cache' = [cache EXCEPT ![s] = @ \union {prep[p]}]
        /\ prepDone' = [prepDone EXCEPT ![p] = @ \union {s}]
        /\ UNCHANGED <<prep, blockMap>>
    BY <2>1 DEF SubPrepared
  <2>3. \A r \in Submodules : cache[r] \subseteq cache'[r]
    BY <2>2
  <2>4. \A h : Prepared(h) => Prepared(h)'
    BY <2>3 DEF Prepared
  <2>5. prep[p] \in cache'[s]
    BY <2>2
  <2>6. ASSUME NEW q \in PrepIds, NEW r \in prepDone'[q],
               prep'[q] # 0, Uncollected(prep[q])'
        PROVE  prep'[q] \in cache'[r]
    <3>1. prep'[q] = prep[q] /\ Uncollected(prep[q])
      BY <1>1, <2>2, <2>6 DEF Uncollected
    <3>2. CASE r \in prepDone[q]
      <4>1. r \in Submodules
        BY <3>2
      <4> QED  BY <2>3, <2>6, <3>1, <3>2, <4>1
    <3>3. CASE r \notin prepDone[q]
      <4>1. q = p /\ r = s
        BY <2>2, <2>6, <3>3
      <4> QED  BY <2>5, <3>1, <4>1
    <3> QED  BY <3>2, <3>3
  <2>7. \A h \in blockMap' : Uncollected(h)' => Prepared(h)'
    BY <1>2, <2>2, <2>4
  <2>8. coll' = "collect" => Prepared(height)'
    BY <1>1, <2>4 DEF Prepared
  <2> QED  BY <2>6, <2>7, <2>8
<1>5. CASE PrepRetry(p)
  BY <1>2, <1>5 DEF PrepRetry, Prepared, Uncollected
<1>6. CASE PrepFinish(p)
  <2>1. /\ prepDone[p] = Submodules /\ prep[p] # 0
        /\ blockMap' = blockMap \union {prep[p]}
        /\ prep' = [prep EXCEPT ![p] = 0]
        /\ prepDone' = [prepDone EXCEPT ![p] = {}]
        /\ cache' = cache
    BY <1>6 DEF PrepFinish, active
  <2>2. Uncollected(prep[p]) => Prepared(prep[p])
    BY <2>1 DEF Prepared
  <2>3. \A h : Prepared(h)' = Prepared(h)
    BY <2>1 DEF Prepared
  <2>4. \A h \in blockMap' : Uncollected(h)' => Prepared(h)'
    BY <1>2, <2>1, <2>2, <2>3
  <2>5. \A q \in PrepIds : \A r \in prepDone'[q] :
          prep'[q] # 0 /\ Uncollected(prep[q])' => prep'[q] \in cache'[r]
    BY <1>1, <2>1 DEF Uncollected
  <2>6. coll' = "collect" => Prepared(height)'
    BY <1>1, <2>1 DEF Prepared
  <2> QED  BY <2>4, <2>5, <2>6
<1> QED  BY <1>3, <1>4, <1>5, <1>6

(* The three ways out of "collect" take nothing but the collected height   *)
(* out of the caches, and from then on that height no longer counts.       *)
LEMMA CacheHeldCollected ==
  ASSUME TypeInv, CacheHeld, coll = "collect", coll' = "advance",
         UNCHANGED <<height, prep, prepDone, blockMap>>,
         \A s \in Submodules : cache[s] \ {height} \subseteq cache'[s]
  PROVE  CacheHeld'
<1>1. \A h : Uncollected(h)' => h > height
  BY DEF Uncollected
<1>2. \A h : h > height => Uncollected(h)
  BY DEF Uncollected
<1>3. ASSUME NEW h \in Nat, h > height, Prepared(h) PROVE Prepared(h)'
  BY <1>3 DEF Prepared, TypeInv, TypeOK
<1>4. \A h \in blockMap' : Uncollected(h)' => Prepared(h)'
  BY <1>1, <1>2, <1>3 DEF CacheHeld, TypeInv, TypeOK
<1>5. ASSUME NEW q \in PrepIds, NEW r \in prepDone'[q],
             prep'[q] # 0, Uncollected(prep[q])'
      PROVE  prep'[q] \in cache'[r]
  <2>1. prep[q] > height /\ Uncollected(prep[q])
    BY <1>5 DEF Uncollected
  <2>2. prep[q] \in cache[r] /\ r \in Submodules
    BY <1>5, <2>1 DEF CacheHeld, TypeInv, TypeOK
  <2>3. prep[q] # height
    BY <2>1 DEF TypeInv, TypeOK
  <2> QED  BY <2>2, <2>3
<1> QED  BY <1>4, <1>5 DEF CacheHeld

LEMMA CacheHeldCollect ==
  ASSUME TypeInv, CacheHeld, CollectStep
  PROVE  CacheHeld'
<1>1. CASE CollectPoll \/ CollectSignal
  <2>1. /\ coll \in {"poll", "signal"} /\ coll' \in {"poll", "collect"}
        /\ UNCHANGED <<height, prep, prepDone, cache>>
        /\ blockMap' = blockMap \ {height}
        /\ coll' = "collect" => height \in blockMap
    BY <1>1 DEF CollectPoll, CollectSignal, TakeBlock
  <2>2. \A h : Uncollected(h)' = Uncollected(h) /\ Prepared(h)' = Prepared(h)
    BY <2>1 DEF Uncollected, Prepared
  <2>3. \A h \in blockMap' : Uncollected(h)' => Prepared(h)'
    BY <2>1, <2>2 DEF CacheHeld
  <2>4. \A q \in PrepIds : \A r \in prepDone'[q] :
          prep'[q] # 0 /\ Uncollected(prep[q])' => prep'[q] \in cache'[r]
    BY <2>1 DEF CacheHeld, Uncollected
  <2>5. coll' = "collect" => Prepared(height)'
    <3>1. Uncollected(height)
      BY <2>1 DEF Uncollected
    <3>2. coll' = "collect" => Prepared(height)
      BY <2>1, <3>1 DEF CacheHeld
    <3> QED  BY <2>1, <3>2 DEF Prepared
  <2> QED  BY <2>3, <2>4, <2>5 DEF CacheHeld
<1>2. CASE CollectLock
  <2>1. /\ coll = "poll" /\ coll' = "signal"
        /\ UNCHANGED <<height, prep, prepDone, cache, blockMap>>
    BY <1>2 DEF CollectLock
  <2> QED  BY <2>1 DEF CacheHeld, Uncollected, Prepared
<1>3. CASE CollectSkip
  BY <1>3, CacheHeldCollected DEF CollectSkip
<1>4. CASE CollectCommit
  BY <1>4, CacheHeldCollected DEF CollectCommit
<1>5. CASE \E ss \in {{}, {"tx"}, Submodules} : CollectSerialization(ss)
  <2>1. \A s \in Submodules : cache[s] \ {height} \subseteq cache'[s]
    BY <1>5 DEF CollectSerialization
  <2> QED  BY <1>5, <2>1, CacheHeldCollected DEF CollectSerialization
<1>6. CASE CollectAdvance
  <2>1. /\ coll = "advance" /\ coll' = "poll" /\ height' = height + 1
        /\ UNCHANGED <<prep, prepDone, cache, blockMap>>
    BY <1>6 DEF CollectAdvance
  <2>2. \A h \in Nat : Uncollected(h)' => Uncollected(h)
    BY <2>1 DEF Uncollected, TypeInv, TypeOK
  <2>3. \A h : Prepared(h)' = Prepared(h)
    BY <2>1 DEF Prepared
  <2>4. \A h \in blockMap' : Uncollected(h)' => Prepared(h)'
    BY <2>1, <2>2, <2>3 DEF CacheHeld, TypeInv, TypeOK
  <2>5. \A q \in PrepIds : Uncollected(prep[q])' => Uncollected(prep[q])
    BY <2>1 DEF Uncollected, TypeInv, TypeOK
  <2>6. \A q \in PrepIds : \A r \in prepDone'[q] :
          prep'[q] # 0 /\ Uncollected(prep[q])' => prep'[q] \in cache'[r]
    BY <2>1, <2>5 DEF CacheHeld
  <2> QED  BY <2>1, <2>4, <2>6 DEF CacheHeld
<1>7. CASE CollectFail
  BY <1>7, CacheHeldReset DEF CollectFail, Dead
<1> QED  BY <1>1, <1>2, <1>3, <1>4, <1>5, <1>6, <1>7 DEF CollectStep

LEMMA CacheHeldNext == TypeInv /\ CacheHeld /\ [Next]_vars => CacheHeld'
<1> SUFFICES ASSUME TypeInv, CacheHeld, [Next]_vars PROVE CacheHeld'
  OBVIOUS
<1>1. CASE Start
  BY <1>1, StartIsReset, CacheHeldReset
<1>2. CASE Crash
  BY <1>2, CacheHeldReset DEF Crash, Dead
<1>3. CASE PrepareStep
  BY <1>3, CacheHeldPrepare
<1>4. CASE CollectStep
  BY <1>4, CacheHeldCollect
<1>5. CASE ~(Start \/ Crash \/ PrepareStep \/ CollectStep)
  <2>1. UNCHANGED cacheVars
    BY <1>5 DEF Next, ChainStep, ScraperStep, OtherCommit, vars, pipelineVars,
                cacheVars
  <2> QED  BY <2>1 DEF CacheHeld, Uncollected, Prepared, cacheVars
<1> QED  BY <1>1, <1>2, <1>3, <1>4, <1>5

(* Collect never fails with "data is not prepared", and, unless a 40001    *)
(* answer made collect() pass over a block, never misses the previous one: *)
(* neither duplicates of a block, retried preparations, restarts nor a     *)
(* second indexer make the process panic.                                  *)
THEOREM CollectIsReady == Spec => []CollectReady
<1>1. Init => HeightLinked /\ CacheHeld
  BY DEF Init, HeightLinked, CacheHeld, Linked
<1>2. HeightLinked /\ CacheHeld => CollectReady
  BY DEF HeightLinked, CacheHeld, CollectReady
<1> QED
  BY <1>1, <1>2, HeightLinkedNext, CacheHeldNext, TypeInvariant, PTL DEF Spec
-----------------------------------------------------------------------------
(***************************************************************************)
(* No block is lost.  Once a height is in the pipeline it stays there      *)
(* until the process dies, wherever a step moves it.                       *)
(***************************************************************************)
InChan(c, h) == \E k \in 1 .. Len(c) : c[k] = h

LEMMA InChanAppend ==
  ASSUME NEW S, NEW c \in Seq(S), NEW x \in S
  PROVE  /\ InChan(Append(c, x), x)
         /\ \A h : InChan(c, h) => InChan(Append(c, x), h)
<1>1. /\ Append(c, x) \in Seq(S) /\ Len(Append(c, x)) = Len(c) + 1
      /\ \A k \in 1 .. Len(c) : Append(c, x)[k] = c[k]
      /\ Append(c, x)[Len(c) + 1] = x
  BY AppendProperties
<1>2. Len(c) \in Nat
  BY LenProperties
<1> QED  BY <1>1, <1>2 DEF InChan

LEMMA InChanTail ==
  ASSUME NEW S, NEW c \in Seq(S), c # <<>>
  PROVE  \A h : InChan(c, h) => h = Head(c) \/ InChan(Tail(c), h)
<1> SUFFICES ASSUME NEW k \in 1 .. Len(c), k # 1
             PROVE  InChan(Tail(c), c[k])
  BY DEF InChan
<1>1. /\ Len(Tail(c)) = Len(c) - 1
      /\ \A i \in 1 .. Len(Tail(c)) : Tail(c)[i] = c[i + 1]
  BY HeadTailProperties
<1>2. k - 1 \in 1 .. Len(Tail(c)) /\ (k - 1) + 1 = k
  BY <1>1, LenProperties
<1> QED  BY <1>1, <1>2 DEF InChan

(* The steps of the scraper only add to blockChan.                         *)
LEMMA PipelineKeepsScraper ==
  ASSUME TypeInv, ScraperStep, NEW h, InPipeline(h)
  PROVE  InPipeline(h)'
<1>1. UNCHANGED <<height, prep, blockMap, coll>>
  BY DEF ScraperStep, pipelineVars
<1>2. blockChan' = blockChan \/ \E x \in Nat \ {0} : blockChan' = Append(blockChan, x)
  <2>1. CASE \E x \in sending : FastSend(x)
    BY <2>1 DEF FastSend, TypeInv, TypeOK
  <2>2. CASE \E i \in Offsets : SlowSend(i)
    BY <2>2 DEF SlowSend, Offsets, TypeInv, TypeOK
  <2> QED
    BY <2>1, <2>2 DEF ScraperStep, ScraperNext, FastNext, SlowNext, CtlLoad,
       CtlStore, FastPoll, FastSpawn, FastFetched, FastReachedLatest, FastReturn,
       SlowFetched, SlowFailed, SlowAdvance
<1>3. InChan(blockChan, h) => InChan(blockChan', h)
  <2>1. CASE blockChan' = blockChan
    BY <2>1
  <2>2. ASSUME NEW x \in Nat \ {0}, blockChan' = Append(blockChan, x)
        PROVE  InChan(blockChan, h) => InChan(blockChan', h)
    <3>1. blockChan \in Seq(Nat \ {0})
      BY DEF TypeInv, TypeOK
    <3> QED  BY <2>2, <3>1, InChanAppend
  <2> QED  BY <1>2, <2>1, <2>2
<1> QED  BY <1>1, <1>3 DEF InPipeline, InChan

LEMMA PipelineKeepsPrepare ==
  ASSUME TypeInv, PrepareStep, NEW h \in Nat \ {0}, InPipeline(h)
  PROVE  InPipeline(h)'
<1> SUFFICES ASSUME NEW p \in PrepIds,
                    \/ PrepareRecv(p)
                    \/ \E s \in Submodules : SubPrepared(p, s)
                    \/ PrepRetry(p)
                    \/ PrepFinish(p)
             PROVE  InPipeline(h)'
  BY DEF PrepareStep
<1>1. CASE PrepareRecv(p)
  <2>1. blockChan \in Seq(Nat \ {0}) /\ blockChan # <<>> /\ blockChan' = Tail(blockChan)
    BY <1>1 DEF PrepareRecv, TypeInv, TypeOK
  <2>2. InChan(blockChan, h) => h = Head(blockChan) \/ InChan(blockChan', h)
    BY <2>1, InChanTail
  <2>3. UNCHANGED <<height, blockMap, coll>>
    BY <1>1 DEF PrepareRecv
  <2>4. CASE Head(blockChan) < height /\ prep' = prep
    BY <2>2, <2>3, <2>4 DEF InPipeline, InChan
  <2>5. CASE p \notin active /\ prep' = [prep EXCEPT ![p] = Head(blockChan)]
    <3>1. prep'[p] = Head(blockChan) /\ \A q \in PrepIds : prep[q] = h => prep'[q] = h
      BY <2>5 DEF active, TypeInv, TypeOK
    <3> QED  BY <2>2, <2>3, <3>1 DEF InPipeline, InChan
  <2> QED  BY <1>1, <2>4, <2>5 DEF PrepareRecv
<1>2. CASE (\E s \in Submodules : SubPrepared(p, s)) \/ PrepRetry(p)
  <2>1. UNCHANGED <<height, blockChan, prep, blockMap, coll>>
    BY <1>2 DEF SubPrepared, PrepRetry, scraperVars
  <2> QED  BY <2>1 DEF InPipeline
<1>3. CASE PrepFinish(p)
  <2>1. /\ UNCHANGED <<height, blockChan, coll>>
        /\ blockMap' = blockMap \union {prep[p]}
        /\ prep' = [prep EXCEPT ![p] = 0]
    BY <1>3 DEF PrepFinish, scraperVars
  <2>2. \A q \in PrepIds : prep[q] = h => prep'[q] = h \/ h \in blockMap'
    BY <2>1 DEF TypeInv, TypeOK
  <2> QED  BY <2>1, <2>2 DEF InPipeline
<1> QED  BY <1>1, <1>2, <1>3

LEMMA PipelineKeepsCollect ==
  ASSUME TypeInv, CollectStep, ~CollectFail, NEW h \in Nat \ {0}, InPipeline(h)
  PROVE  InPipeline(h)'
<1>1. UNCHANGED <<blockChan, prep>>
  BY DEF CollectStep, CollectPoll, CollectLock, CollectSignal, CollectSkip,
         CollectCommit, CollectSerialization, CollectAdvance, scraperVars
<1>2. CASE CollectPoll \/ CollectSignal
  <2>1. /\ height' = height /\ blockMap' = blockMap \ {height}
        /\ coll' = IF height \in blockMap THEN "collect" ELSE "poll"
        /\ coll \in {"poll", "signal"}
    BY <1>2 DEF CollectPoll, CollectSignal, TakeBlock
  <2> QED  BY <1>1, <2>1 DEF InPipeline
<1>3. CASE CollectLock
  BY <1>1, <1>3 DEF CollectLock, InPipeline
<1>4. CASE CollectSkip \/ CollectCommit
           \/ \E ss \in {{}, {"tx"}, Submodules} : CollectSerialization(ss)
  <2>1. UNCHANGED <<height, blockMap>> /\ coll' = "advance"
    BY <1>4 DEF CollectSkip, CollectCommit, CollectSerialization
  <2> QED  BY <1>1, <2>1 DEF InPipeline
<1>5. CASE CollectAdvance
  <2>1. height' = height + 1 /\ UNCHANGED blockMap /\ height \in Nat
    BY <1>5 DEF CollectAdvance, TypeInv, TypeOK
  <2> QED  BY <1>1, <2>1 DEF InPipeline
<1> QED  BY <1>2, <1>3, <1>4, <1>5 DEF CollectStep

(* A height that is sent is in the pipeline.                               *)
LEMMA SentIsInPipeline ==
  ASSUME TypeInv, NEW g \in Nat \ {0}, blockChan' = Append(blockChan, g)
  PROVE  InPipeline(g)'
<1>1. blockChan \in Seq(Nat \ {0})
  BY DEF TypeInv, TypeOK
<1>2. InChan(blockChan', g)
  BY <1>1, InChanAppend
<1> QED  BY <1>2 DEF InPipeline, InChan

(* What NoBlockLost needs to be inductive.                                 *)
FlowInv == ScraperBounds /\ BatchSent /\ NoBlockLost /\ SlowSyncNoSkip

(* Outside the scraper nothing but the pipeline moves.                     *)
LEMMA FlowSame ==
  ASSUME TypeInv, FlowInv,
         UNCHANGED <<pc, from, next, synced, fetching, sending, batch, sent, gaveUp>>,
         height' \in Nat, height <= height',
         \A h \in Nat \ {0} : InPipeline(h) => InPipeline(h)'
  PROVE  FlowInv'
<1> USE DEF TypeInv, TypeOK, FlowInv
<1>1. busy' = busy
  BY DEF busy
<1>2. ScraperBounds'
  BY <1>1 DEF ScraperBounds
<1>3. BatchSent'
  <2> SUFFICES ASSUME pc = "slow", NEW i \in Offsets, batch[i] = "ok"
               PROVE  next + i \in sent /\ InPipeline(next + i)'
    BY DEF BatchSent, InPipeline
  <2>1. next + i \in Nat \ {0}
    BY DEF Offsets
  <2> QED  BY <2>1 DEF BatchSent
<1>4. NoBlockLost'
  <2> SUFFICES ASSUME pc # "off", NEW h \in from .. next - 1
               PROVE  InPipeline(h)' \/ h \in busy \/ h \in gaveUp
    BY <1>1 DEF NoBlockLost
  <2>1. h \in Nat \ {0}
    OBVIOUS
  <2> QED  BY <2>1 DEF NoBlockLost
<1>5. SlowSyncNoSkip'
  BY DEF SlowSyncNoSkip
<1> QED  BY <1>2, <1>3, <1>4, <1>5

LEMMA FlowReset ==
  ASSUME NEW q \in {"off", "check"}, NEW h \in Nat \ {0},
         ScraperReset(q, h), PipelineReset(h)
  PROVE  FlowInv'
<1>1. busy' = {}
  BY DEF busy, ScraperReset
<1>2. /\ pc' # "slow" /\ from' = h /\ next' = h /\ synced' = h - 1
      /\ height' = h
  BY DEF ScraperReset, PipelineReset
<1> QED
  BY <1>1, <1>2 DEF FlowInv, ScraperBounds, BatchSent, NoBlockLost,
                    SlowSyncNoSkip

(* The steps of fastSync.                                                  *)
LEMMA FlowFast ==
  ASSUME TypeInv, FlowInv, ScraperStep, FastNext
  PROVE  FlowInv'
<1> USE DEF TypeInv, TypeOK, FlowInv
<1>1. UNCHANGED pipelineVars
  BY DEF ScraperStep
<1>2. \A h : InPipeline(h) => InPipeline(h)'
  BY PipelineKeepsScraper
<1>3. height' = height
  BY <1>1 DEF pipelineVars
<1>4. CASE FastPoll
  <2>1. /\ pc \notin {"off", "slow"} /\ pc' \notin {"off", "slow"}
        /\ UNCHANGED <<from, next, synced, fetching, sending, gaveUp>>
    BY <1>4 DEF FastPoll
  <2> QED
    BY <1>2, <1>3, <2>1 DEF ScraperBounds, BatchSent, NoBlockLost,
                            SlowSyncNoSkip, busy
<1>5. CASE FastSpawn
  <2>1. /\ pc = "acquire" /\ pc' = "check" /\ next' = next + 1
        /\ busy' = busy \union {next}
        /\ UNCHANGED <<from, synced, gaveUp>>
    BY <1>5 DEF FastSpawn, busy
  <2>2. \A h \in busy : h \in Nat
    BY DEF busy
  <2>3. ScraperBounds'
    BY <1>3, <2>1, <2>2 DEF ScraperBounds
  <2>4. NoBlockLost'
    BY <1>2, <2>1 DEF NoBlockLost
  <2> QED  BY <2>1, <2>3, <2>4 DEF BatchSent, SlowSyncNoSkip
<1>6. CASE \E h \in fetching : FastFetched(h)
  <2>1. /\ busy' = busy
        /\ UNCHANGED <<pc, from, next, synced, batch, sent, gaveUp>>
    BY <1>6 DEF FastFetched, busy
  <2>2. pc # "slow"
    BY <1>6 DEF ScraperBounds, busy
  <2> QED
    BY <1>2, <1>3, <2>1, <2>2 DEF ScraperBounds, BatchSent, NoBlockLost,
                                  SlowSyncNoSkip
<1>7. CASE \E h \in fetching : FastReachedLatest(h)
  <2>1. PICK g \in fetching : FastReachedLatest(g)
    BY <1>7
  <2>2. /\ busy' \subseteq busy /\ busy \subseteq busy' \union {g}
        /\ gaveUp' = gaveUp \union {g}
        /\ UNCHANGED <<pc, from, next, synced, batch, sent>>
    BY <2>1 DEF FastReachedLatest, busy
  <2>3. pc # "slow"
    BY <2>1 DEF ScraperBounds, busy
  <2> QED
    BY <1>2, <1>3, <2>2, <2>3 DEF ScraperBounds, BatchSent, NoBlockLost,
                                  SlowSyncNoSkip
<1>8. CASE \E h \in sending : FastSend(h)
  <2>1. PICK g \in sending : FastSend(g)
    BY <1>8
  <2>2. /\ busy' \subseteq busy /\ busy \subseteq busy' \union {g}
        /\ synced' = (IF g > synced THEN g ELSE synced)
        /\ blockChan' = Append(blockChan, g)
        /\ UNCHANGED <<pc, from, next, batch, gaveUp>>
    BY <2>1 DEF FastSend, busy
  <2>3. pc # "slow" /\ g \in Nat \ {0} /\ g < next
    BY <2>1 DEF ScraperBounds, busy
  <2>4. InPipeline(g)'
    BY <2>2, <2>3, SentIsInPipeline
  <2>5. ScraperBounds'
    BY <1>3, <2>2, <2>3 DEF ScraperBounds
  <2>6. NoBlockLost'
    BY <1>2, <2>2, <2>4 DEF NoBlockLost
  <2> QED  BY <2>2, <2>3, <2>5, <2>6 DEF BatchSent, SlowSyncNoSkip
<1>9. CASE FastReturn
  <2>1. /\ pc = "wait" /\ pc' = "slow" /\ busy = {} /\ busy' = {}
        /\ next' = synced + 1 /\ batch' = NewBatch
        /\ UNCHANGED <<from, synced, sent, gaveUp>>
    BY <1>9 DEF FastReturn, busy
  <2>2. ScraperBounds'
    BY <1>3, <2>1 DEF ScraperBounds
  <2>3. BatchSent'
    BY <2>1 DEF BatchSent, NewBatch
  <2>4. NoBlockLost'
    BY <1>2, <2>1 DEF NoBlockLost, ScraperBounds
  <2>5. SlowSyncNoSkip'
    BY <2>1 DEF SlowSyncNoSkip
  <2> QED  BY <2>2, <2>3, <2>4, <2>5
<1> QED  BY <1>4, <1>5, <1>6, <1>7, <1>8, <1>9 DEF FastNext

LEMMA RangeBound ==
  ASSUME NEW a \in Nat, NEW b \in Nat, NEW h \in a .. b - 1
  PROVE  h \in Int /\ h < b
OBVIOUS

(* The steps of slowSync.                                                  *)
LEMMA FlowSlow ==
  ASSUME TypeInv, FlowInv, ScraperStep, SlowNext
  PROVE  FlowInv'
<1> USE DEF TypeInv, TypeOK, FlowInv
<1>1. height' = height /\ \A h : InPipeline(h) => InPipeline(h)'
  BY PipelineKeepsScraper DEF ScraperStep, pipelineVars
<1>2. /\ pc = "slow" /\ pc' = "slow"
      /\ UNCHANGED <<from, synced, fetching, sending, gaveUp>>
  BY DEF SlowNext, SlowFetched, SlowFailed, SlowSend, SlowAdvance
<1>3. busy' = busy
  BY <1>2 DEF busy
<1>4. CASE (\E i \in Offsets : SlowFetched(i)) \/ \E i \in Offsets : SlowFailed(i)
  <2>1. /\ UNCHANGED <<next, sent>>
        /\ \A i \in Offsets : batch'[i] = "ok" => batch[i] = "ok"
    BY <1>4 DEF SlowFetched, SlowFailed
  <2>2. ScraperBounds'
    BY <1>1, <1>2, <1>3, <2>1 DEF ScraperBounds
  <2>3. BatchSent'
    <3> SUFFICES ASSUME NEW i \in Offsets, batch'[i] = "ok"
                 PROVE  next + i \in sent /\ InPipeline(next + i)'
      BY <2>1 DEF BatchSent
    <3>1. next + i \in sent /\ InPipeline(next + i)
      BY <1>2, <2>1 DEF BatchSent
    <3>2. next' + i = next + i
      BY <2>1
    <3> QED  BY <1>1, <3>1, <3>2 DEF InPipeline
  <2>4. NoBlockLost'
    BY <1>1, <1>2, <1>3, <2>1 DEF NoBlockLost
  <2>5. SlowSyncNoSkip'
    BY <1>2, <2>1 DEF SlowSyncNoSkip
  <2> QED  BY <2>2, <2>3, <2>4, <2>5
<1>5. CASE \E i \in Offsets : SlowSend(i)
  <2>1. PICK j \in Offsets : SlowSend(j)
    BY <1>5
  <2>2. /\ next' = next /\ sent' = sent \union {next + j}
        /\ blockChan' = Append(blockChan, next + j)
        /\ next + j \in Nat \ {0}
        /\ \A i \in Offsets : batch'[i] = "ok" => i = j \/ batch[i] = "ok"
    BY <2>1 DEF SlowSend, Offsets
  <2> DEFINE g == next + j
  <2>3. g \in sent' /\ \A x \in sent : x \in sent'
    BY <2>2
  <2>4. ASSUME NEW x, x = g PROVE InPipeline(x)'
    <3>1. x \in Nat \ {0} /\ blockChan' = Append(blockChan, x)
      BY <2>2, <2>4
    <3> QED  BY <3>1, SentIsInPipeline
  <2>5. ScraperBounds'
    BY <1>1, <1>2, <1>3, <2>2 DEF ScraperBounds
  <2>6. BatchSent'
    <3> SUFFICES ASSUME NEW i \in Offsets, batch'[i] = "ok",
                        NEW x, x = next + i
                 PROVE  x \in sent' /\ InPipeline(x)'
      BY <2>2 DEF BatchSent, InPipeline
    <3>1. CASE i = j
      BY <2>3, <2>4, <3>1
    <3>2. CASE batch[i] = "ok"
      <4>1. x \in sent /\ InPipeline(x)
        BY <1>2, <3>2 DEF BatchSent
      <4> QED  BY <1>1, <2>3, <4>1
    <3> QED  BY <2>2, <3>1, <3>2
  <2>7. NoBlockLost'
    BY <1>1, <1>2, <1>3, <2>2 DEF NoBlockLost
  <2>8. SlowSyncNoSkip'
    BY <1>2, <2>2, <2>3 DEF SlowSyncNoSkip
  <2> QED  BY <2>5, <2>6, <2>7, <2>8
<1>6. CASE SlowAdvance
  <2>1. PICK d \in 0 .. BatchScrapSize : IsAdvance(d) /\ next' = next + d
    BY <1>6 DEF SlowAdvance
  <2>2. sent' = sent /\ batch' = NewBatch
    BY <1>6 DEF SlowAdvance
  <2>3. ASSUME NEW h \in Int, next <= h, h < next'
        PROVE  h \in sent /\ InPipeline(h)
    <3>1. d \in Nat /\ h - next \in Offsets /\ h - next < d /\ next + (h - next) = h
      BY <2>1, <2>3 DEF Offsets
    <3>2. batch[h - next] = "ok"
      BY <2>1, <3>1 DEF IsAdvance
    <3>3. next + (h - next) \in sent /\ InPipeline(next + (h - next))
      BY <1>2, <3>1, <3>2 DEF BatchSent
    <3> QED  BY <3>1, <3>3
  <2>4. next' \in Nat /\ next <= next'
    BY <2>1
  <2>5. ScraperBounds'
    BY <1>1, <1>2, <1>3, <2>4 DEF ScraperBounds
  <2>6. BatchSent'
    BY <2>2 DEF BatchSent, NewBatch
  <2>7. NoBlockLost'
    <3> SUFFICES ASSUME NEW h \in from .. next' - 1
                 PROVE  InPipeline(h)' \/ h \in busy \/ h \in gaveUp
      BY <1>2, <1>3 DEF NoBlockLost
    <3>1. CASE h < next
      <4>1. h \in from .. next - 1
        BY <2>4, <3>1
      <4> QED  BY <1>1, <1>2, <4>1 DEF NoBlockLost
    <3>2. CASE next <= h
      <4>1. h \in Int /\ h < next'
        BY <2>4, RangeBound
      <4> QED  BY <1>1, <2>3, <3>2, <4>1
    <3> QED  BY <2>4, <3>1, <3>2
  <2>8. SlowSyncNoSkip'
    <3> SUFFICES ASSUME NEW h \in synced + 1 .. next' - 1 PROVE h \in sent
      BY <1>2, <2>2 DEF SlowSyncNoSkip
    <3>1. CASE h < next
      <4>1. h \in synced + 1 .. next - 1
        BY <2>4, <3>1
      <4> QED  BY <1>2, <4>1 DEF SlowSyncNoSkip
    <3>2. CASE next <= h
      <4>1. synced + 1 \in Nat
        OBVIOUS
      <4>2. h \in Int /\ h < next'
        BY <2>4, <4>1, RangeBound
      <4> QED  BY <2>3, <3>2, <4>2
    <3> QED  BY <2>4, <3>1, <3>2
  <2> QED  BY <2>5, <2>6, <2>7, <2>8
<1> QED  BY <1>4, <1>5, <1>6 DEF SlowNext

LEMMA FlowNext == TypeInv /\ FlowInv /\ [Next]_vars => FlowInv'
<1> SUFFICES ASSUME TypeInv, FlowInv, [Next]_vars PROVE FlowInv'
  OBVIOUS
<1>1. height \in Nat
  BY DEF TypeInv, TypeOK
<1>2. CASE Start
  BY <1>2, StartIsReset, FlowReset
<1>3. CASE Crash \/ CollectFail
  BY <1>3, FlowReset DEF Crash, CollectFail, Dead
<1>4. CASE ScraperStep
  <2>1. CASE FastNext
    BY <1>4, <2>1, FlowFast
  <2>2. CASE SlowNext
    BY <1>4, <2>2, FlowSlow
  <2>3. CASE CtlLoad \/ CtlStore
    <3>1. UNCHANGED <<pc, from, next, synced, fetching, sending, batch, sent, gaveUp>>
      BY <2>3 DEF CtlLoad, CtlStore
    <3>2. height' = height
      BY <1>4 DEF ScraperStep, pipelineVars
    <3> QED  BY <1>1, <1>4, <3>1, <3>2, PipelineKeepsScraper, FlowSame
  <2> QED  BY <1>4, <2>1, <2>2, <2>3 DEF ScraperStep, ScraperNext
<1>5. CASE PrepareStep
  <2>1. /\ UNCHANGED <<pc, from, next, synced, fetching, sending, batch, sent, gaveUp>>
        /\ height' = height
    BY <1>5 DEF PrepareStep, PrepareRecv, SubPrepared, PrepRetry, PrepFinish,
                scraperVars
  <2> QED  BY <1>1, <1>5, <2>1, PipelineKeepsPrepare, FlowSame
<1>6. CASE CollectStep /\ ~CollectFail
  <2>1. UNCHANGED <<pc, from, next, synced, fetching, sending, batch, sent, gaveUp>>
    BY <1>6 DEF CollectStep, CollectPoll, CollectLock, CollectSignal, CollectSkip,
                CollectCommit, CollectSerialization, CollectAdvance, scraperVars
  <2>2. height' \in Nat /\ height <= height'
    BY <1>1, <1>6 DEF CollectStep, CollectPoll, CollectLock, CollectSignal,
                CollectSkip, CollectCommit, CollectSerialization, CollectAdvance
  <2> QED  BY <1>6, <2>1, <2>2, PipelineKeepsCollect, FlowSame
<1>7. CASE ChainStep \/ UNCHANGED vars \/ \E h \in 1 .. MaxHeight : OtherCommit(h)
  <2>1. UNCHANGED <<scraperVars, pipelineVars>>
    BY <1>7 DEF ChainStep, NodeAdvance, vars, OtherCommit
  <2>2. UNCHANGED <<pc, from, next, synced, fetching, sending, batch, sent, gaveUp,
                    blockChan, height, prep, blockMap, coll>>
    BY <2>1 DEF scraperVars, pipelineVars
  <2>3. \A h : InPipeline(h) => InPipeline(h)'
    BY <2>2 DEF InPipeline
  <2> QED  BY <1>1, <2>2, <2>3, FlowSame
<1> QED
  BY <1>2, <1>3, <1>4, <1>5, <1>6, <1>7 DEF Next, CollectStep

LEMMA FlowInvariant == Spec => []FlowInv
<1>1. Init => FlowInv
  BY DEF Init, FlowInv, ScraperBounds, BatchSent, NoBlockLost, SlowSyncNoSkip, busy
<1> QED  BY <1>1, FlowNext, TypeInvariant, PTL DEF Spec

(* Every height the scraper has passed is collected, on its way, or one    *)
(* that fastSync gave up at the end of a node's chain: with that one       *)
(* exception the hand-overs of the pipeline lose no block.                 *)
THEOREM BlocksAreNotLost == Spec => []NoBlockLost
<1>1. FlowInv => NoBlockLost
  BY DEF FlowInv
<1> QED  BY <1>1, FlowInvariant, PTL

(* slowSync never moves past a height it has not sent.                     *)
THEOREM SlowSyncSkipsNothing == Spec => []SlowSyncNoSkip
<1>1. FlowInv => SlowSyncNoSkip
  BY DEF FlowInv
<1> QED  BY <1>1, FlowInvariant, PTL
=============================================================================
