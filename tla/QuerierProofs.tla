--------------------------- MODULE QuerierProofs ---------------------------
(***************************************************************************)
(* Proofs about the querier: permits are never lost or invented, and a     *)
(* call is given up only when every endpoint has failed it as often as it  *)
(* may, wherever the rotation started.                                     *)
(***************************************************************************)
EXTENDS Querier, FiniteSetTheorems, TLAPS

InHttp == {c \in Callers : at[c] = "http"}

(* A permit is free or held by a request.                                  *)
PermitsInv == permits + Cardinality(InHttp) = MaxConcurrent

(* How many endpoints the rotation of c comes to before e.                 *)
Turn(c, e) == IF e >= start[c] THEN e - start[c] ELSE e - start[c] + Endpoints

(* The rotation leaves an endpoint when it has had all its retries, and    *)
(* the endpoints it has not come to have had none.                         *)
RotationInv ==
  \A c \in Callers :
    /\ at[c] = "find" => retries[c] = 0 /\ \A e \in URLs : failed[c][e] = 0
    /\ at[c] \in {"acquire", "http"} => retries[c] < maxRetriesPerURL
    /\ at[c] \in {"loop", "acquire", "http"} =>
         \A e \in URLs :
           failed[c][e] = IF e = index[c] THEN retries[c]
                          ELSE IF Turn(c, e) < Turn(c, index[c]) THEN maxRetriesPerURL ELSE 0

QuerierInv == TypeOK /\ PermitsInv /\ RotationInv /\ ExhaustedMeansAll
-----------------------------------------------------------------------------
LEMMA Constants ==
  /\ IsFiniteSet(Callers)
  /\ Endpoints \in Nat /\ Endpoints > 0
  /\ maxRetriesPerURL \in Nat /\ maxRetriesPerURL > 0
  /\ maxRetries \in Nat /\ maxRetries > 0
  /\ MaxConcurrent \in Nat /\ MaxConcurrent > 0
  /\ RotationLimit \in Nat
  BY QuerierAssumption

(* The endpoint after the last is the first.                               *)
LEMMA NextEndpoint ==
  ASSUME NEW i \in URLs
  PROVE  (i + 1) % Endpoints = IF i = Endpoints - 1 THEN 0 ELSE i + 1
<1>1. i \in Nat /\ i < Endpoints /\ Endpoints \in Nat
  BY Constants DEF URLs
<1> QED
  BY <1>1

(* Who waits for an answer holds a permit.                                 *)
LEMMA PermitTaken ==
  ASSUME TypeOK, PermitsInv, NEW c \in Callers, at[c] # "http", permits > 0,
         at' = [at EXCEPT ![c] = "http"], permits' = permits - 1
  PROVE  PermitsInv' /\ permits' \in 0 .. MaxConcurrent
<1>1. InHttp' = InHttp \union {c} /\ c \notin InHttp
  BY DEF InHttp, TypeOK
<1>2. IsFiniteSet(InHttp)
  BY Constants, FS_Subset DEF InHttp
<1>3. Cardinality(InHttp') = Cardinality(InHttp) + 1 /\ Cardinality(InHttp) \in Nat
  BY <1>1, <1>2, FS_AddElement, FS_CardinalityType
<1> QED
  BY <1>3, Constants DEF PermitsInv, TypeOK

LEMMA PermitReturned ==
  ASSUME TypeOK, PermitsInv, NEW c \in Callers, at[c] = "http",
         NEW place, place # "http",
         at' = [at EXCEPT ![c] = place], permits' = permits + 1
  PROVE  PermitsInv' /\ permits' \in 0 .. MaxConcurrent
<1>1. InHttp' = InHttp \ {c} /\ c \in InHttp
  BY DEF InHttp, TypeOK
<1>2. IsFiniteSet(InHttp) /\ IsFiniteSet(InHttp')
  BY Constants, FS_Subset DEF InHttp
<1>3. Cardinality(InHttp') = Cardinality(InHttp) - 1 /\ Cardinality(InHttp') \in Nat
  BY <1>1, <1>2, FS_RemoveElement, FS_CardinalityType
<1>4. Cardinality(InHttp) \in Nat
  BY <1>2, FS_CardinalityType
<1> QED
  BY <1>3, <1>4, Constants DEF PermitsInv, TypeOK

LEMMA PermitsKept ==
  ASSUME TypeOK, PermitsInv, permits' = permits,
         \A c \in Callers : at'[c] = "http" <=> at[c] = "http"
  PROVE  PermitsInv' /\ permits' \in 0 .. MaxConcurrent
<1>1. InHttp' = InHttp
  BY DEF InHttp
<1> QED
  BY <1>1 DEF PermitsInv, TypeOK
-----------------------------------------------------------------------------
LEMMA QuerierInit == Init => QuerierInv
<1> SUFFICES ASSUME Init PROVE QuerierInv
  OBVIOUS
<1>1. 0 \in URLs /\ 0 \in 0 .. maxRetriesPerURL /\ 0 \in 0 .. maxRetries - 1
      /\ MaxConcurrent \in 0 .. MaxConcurrent
  BY Constants DEF URLs
<1>2. TypeOK
  BY <1>1 DEF Init, TypeOK
<1>3. InHttp = {}
  BY DEF Init, InHttp
<1>4. PermitsInv
  BY <1>3, FS_EmptySet, Constants DEF Init, PermitsInv
<1>5. RotationInv /\ ExhaustedMeansAll
  BY Constants DEF Init, RotationInv, ExhaustedMeansAll
<1> QED
  BY <1>2, <1>4, <1>5 DEF QuerierInv

(* A step of one caller leaves the rotations of the others alone.          *)
LEMMA OtherRotations ==
  ASSUME QuerierInv, NEW c \in Callers, TypeOK',
         \A d \in Callers \ {c} :
           /\ at'[d] = at[d] /\ index'[d] = index[d] /\ start'[d] = start[d]
           /\ retries'[d] = retries[d] /\ failed'[d] = failed[d] /\ rotations'[d] = rotations[d],
         at'[c] = "find" => retries'[c] = 0 /\ \A e \in URLs : failed'[c][e] = 0,
         at'[c] \in {"acquire", "http"} => retries'[c] < maxRetriesPerURL,
         at'[c] \in {"loop", "acquire", "http"} =>
           \A e \in URLs :
             failed'[c][e] = IF e = index'[c] THEN retries'[c]
                             ELSE IF Turn(c, e)' < Turn(c, index[c])' THEN maxRetriesPerURL ELSE 0,
         \A e \in URLs : failed'[c][e] <= maxRetriesPerURL,
         at'[c] = "exhausted" => \A e \in URLs : failed'[c][e] = maxRetriesPerURL,
         at'[c] = "overdue" => rotations'[c] > RotationLimit
  PROVE  RotationInv' /\ ExhaustedMeansAll'
<1>1. RotationInv'
  BY DEF QuerierInv, RotationInv, Turn
<1>2. ExhaustedMeansAll'
  BY DEF QuerierInv, ExhaustedMeansAll
<1> QED
  BY <1>1, <1>2

LEMMA TimePassesInv ==
  ASSUME QuerierInv, NEW e \in URLs, TimePasses(e)
  PROVE  QuerierInv'
<1>1. UNCHANGED <<at, up, index, start, retries, inner, rotations, calls, failed, failures, permits>>
  BY DEF TimePasses, callVars
<1>2. TypeOK'
  BY <1>1 DEF QuerierInv, TypeOK, TimePasses
<1> QED
  BY <1>1, <1>2 DEF QuerierInv, PermitsInv, InHttp, RotationInv, Turn, ExhaustedMeansAll

LEMMA CallInv ==
  ASSUME QuerierInv, NEW c \in Callers, Call(c)
  PROVE  QuerierInv'
<1>1. PermitsInv' /\ permits' \in 0 .. MaxConcurrent
  <2>1. permits' = permits /\ \A d \in Callers : at'[d] = "http" <=> at[d] = "http"
    BY DEF Call, ended, QuerierInv, TypeOK
  <2> QED
    BY <2>1, PermitsKept DEF QuerierInv
<1>2. TypeOK'
  <2>1. 0 \in URLs /\ 0 \in 0 .. maxRetriesPerURL /\ 0 \in 0 .. maxRetries - 1
    BY Constants DEF URLs
  <2> QED
    BY <1>1, <2>1 DEF QuerierInv, TypeOK, Call
<1>3. /\ at'[c] = "find" /\ retries'[c] = 0 /\ \A e \in URLs : failed'[c][e] = 0
      /\ \A d \in Callers \ {c} :
           /\ at'[d] = at[d] /\ index'[d] = index[d] /\ start'[d] = start[d]
           /\ retries'[d] = retries[d] /\ failed'[d] = failed[d] /\ rotations'[d] = rotations[d]
  BY DEF Call, QuerierInv, TypeOK
<1>4. RotationInv' /\ ExhaustedMeansAll'
  BY <1>2, <1>3, Constants, OtherRotations
<1> QED
  BY <1>1, <1>2, <1>4 DEF QuerierInv

(* The rotation starts at the endpoint it is at.                           *)
LEMMA FindHealthyEndpointInv ==
  ASSUME QuerierInv, NEW c \in Callers, FindHealthyEndpoint(c)
  PROVE  QuerierInv'
<1>1. /\ at[c] = "find" /\ retries[c] = 0 /\ \A e \in URLs : failed[c][e] = 0
      /\ UNCHANGED <<up, retries, inner, rotations, calls, failed, failures, recent, permits>>
  BY DEF FindHealthyEndpoint, QuerierInv, RotationInv
<1>2. index[c] \in URLs /\ 0 \in URLs
  BY Constants DEF QuerierInv, TypeOK, URLs
<1>3. PICK e \in URLs :
        \/ /\ at' = [at EXCEPT ![c] = "loop"]
           /\ index' = [index EXCEPT ![c] = e]
           /\ start' = [start EXCEPT ![c] = e]
        \/ /\ at' = at /\ start' = start
           /\ index' = [index EXCEPT ![c] = e]
  <2>1. index[c] < Endpoints - 1 => index[c] + 1 \in URLs
    BY <1>2, Constants DEF URLs
  <2> QED
    BY <1>2, <2>1 DEF FindHealthyEndpoint, StartIndex
<1>4. /\ at'[c] \in {"find", "loop"}
      /\ \A d \in Callers : at'[d] = "http" <=> at[d] = "http"
  BY <1>1, <1>3 DEF QuerierInv, TypeOK
<1>5. PermitsInv' /\ permits' \in 0 .. MaxConcurrent
  BY <1>1, <1>4, PermitsKept DEF QuerierInv
<1>6. TypeOK'
  <2>1. /\ at' \in [Callers -> ended \union {"idle", "find", "loop", "acquire", "http"}]
        /\ index' \in [Callers -> URLs] /\ start' \in [Callers -> URLs]
    BY <1>3, ZenonT(40) DEF QuerierInv, TypeOK
  <2> QED
    BY <1>1, <1>5, <2>1 DEF QuerierInv, TypeOK
<1>7. \A d \in Callers \ {c} :
        /\ at'[d] = at[d] /\ index'[d] = index[d] /\ start'[d] = start[d]
        /\ retries'[d] = retries[d] /\ failed'[d] = failed[d] /\ rotations'[d] = rotations[d]
  BY <1>1, <1>3 DEF QuerierInv, TypeOK
<1>8. at'[c] = "loop" => start'[c] = index'[c]
  BY <1>1, <1>3 DEF QuerierInv, TypeOK
<1>9. at'[c] = "loop" => \A e2 \in URLs : ~(Turn(c, e2)' < Turn(c, index[c])')
  <2> SUFFICES ASSUME at'[c] = "loop", NEW e2 \in URLs
               PROVE  ~(Turn(c, e2)' < Turn(c, index[c])')
    OBVIOUS
  <2>1. start'[c] \in URLs /\ index'[c] = start'[c]
    BY <1>6, <1>8 DEF TypeOK
  <2>2. start'[c] \in Nat /\ start'[c] < Endpoints /\ e2 \in Nat /\ Endpoints \in Nat
    BY <2>1, Constants DEF URLs
  <2>3. Turn(c, e2)' = IF e2 >= start'[c] THEN e2 - start'[c] ELSE e2 - start'[c] + Endpoints
    BY DEF Turn
  <2>4. Turn(c, index[c])' = 0
    BY <2>1, <2>2 DEF Turn
  <2> QED
    BY <2>2, <2>3, <2>4
<1>10. RotationInv' /\ ExhaustedMeansAll'
  BY <1>1, <1>4, <1>6, <1>7, <1>9, Constants, OtherRotations
<1> QED
  BY <1>5, <1>6, <1>10 DEF QuerierInv

(* The next endpoint is one turn further, unless it is the one the         *)
(* rotation started at, when all have had their turn.                      *)
LEMMA NextTurn ==
  ASSUME TypeOK, NEW c \in Callers, NEW next, next = (index[c] + 1) % Endpoints
  PROVE  /\ next \in URLs
         /\ next # start[c] =>
              \A e \in URLs : Turn(c, e) < Turn(c, next) <=>
                                e = index[c] \/ Turn(c, e) < Turn(c, index[c])
         /\ next = start[c] =>
              \A e \in URLs : e = index[c] \/ Turn(c, e) < Turn(c, index[c])
         /\ next = index[c] => next = start[c]
<1>1. index[c] \in URLs /\ start[c] \in URLs
  BY DEF TypeOK
<1>2. next = IF index[c] = Endpoints - 1 THEN 0 ELSE index[c] + 1
  BY <1>1, NextEndpoint
<1>3. next \in URLs
  BY <1>1, <1>2, Constants DEF URLs
<1>4. next # start[c] => Turn(c, next) = Turn(c, index[c]) + 1
  BY <1>1, <1>2, Constants DEF Turn, URLs
<1>5. next = start[c] => Turn(c, index[c]) = Endpoints - 1
  BY <1>1, <1>2, Constants DEF Turn, URLs
<1>6. \A e \in URLs : Turn(c, e) \in 0 .. Endpoints - 1
  BY <1>1, Constants DEF Turn, URLs
<1>7. \A e \in URLs : Turn(c, e) = Turn(c, index[c]) => e = index[c]
  BY <1>1, Constants DEF Turn, URLs
<1>8. next = index[c] => next = start[c]
  BY <1>1, <1>2, Constants DEF URLs
<1>9. ASSUME next # start[c], NEW e \in URLs
      PROVE  Turn(c, e) < Turn(c, next) <=> e = index[c] \/ Turn(c, e) < Turn(c, index[c])
  BY <1>1, <1>4, <1>6, <1>7, <1>9, Constants
<1>10. ASSUME next = start[c], NEW e \in URLs
       PROVE  e = index[c] \/ Turn(c, e) < Turn(c, index[c])
  BY <1>1, <1>5, <1>6, <1>7, <1>10, Constants
<1> QED
  BY <1>3, <1>8, <1>9, <1>10

(* The head of the loop.                                                   *)
LEMMA LoopInv ==
  ASSUME QuerierInv, NEW c \in Callers, Loop(c)
  PROVE  QuerierInv'
<1> DEFINE next == (index[c] + 1) % Endpoints
<1>1. /\ at[c] = "loop"
      /\ UNCHANGED <<up, start, inner, calls, failed, failures, recent, permits>>
  BY DEF Loop
<1>2. \A e \in URLs :
        failed[c][e] = IF e = index[c] THEN retries[c]
                       ELSE IF Turn(c, e) < Turn(c, index[c]) THEN maxRetriesPerURL ELSE 0
  BY <1>1 DEF QuerierInv, RotationInv
<1>3. /\ next \in URLs
      /\ next # start[c] =>
           \A e \in URLs : Turn(c, e) < Turn(c, next) <=>
                             e = index[c] \/ Turn(c, e) < Turn(c, index[c])
      /\ next = start[c] =>
           \A e \in URLs : e = index[c] \/ Turn(c, e) < Turn(c, index[c])
      /\ next = index[c] => next = start[c]
  BY NextTurn DEF QuerierInv
<1>4. \A e \in URLs : failed[c][e] <= maxRetriesPerURL
  BY DEF QuerierInv, ExhaustedMeansAll
<1>5. CASE /\ retries[c] < maxRetriesPerURL
           /\ at' = [at EXCEPT ![c] = "acquire"]
           /\ UNCHANGED <<index, retries, rotations>>
  <2>1. PermitsInv' /\ permits' \in 0 .. MaxConcurrent
    <3>1. \A d \in Callers : at'[d] = "http" <=> at[d] = "http"
      BY <1>1, <1>5 DEF QuerierInv, TypeOK
    <3> QED
      BY <1>1, <3>1, PermitsKept DEF QuerierInv
  <2>2. TypeOK'
    BY <1>1, <1>5, <2>1 DEF QuerierInv, TypeOK
  <2>3. /\ at'[c] = "acquire"
        /\ \A d \in Callers \ {c} : at'[d] = at[d]
        /\ \A e \in URLs : Turn(c, e)' = Turn(c, e)
        /\ Turn(c, index[c])' = Turn(c, index[c])
    BY <1>1, <1>5 DEF QuerierInv, TypeOK, Turn
  <2>4. RotationInv' /\ ExhaustedMeansAll'
    BY <1>1, <1>2, <1>4, <1>5, <2>2, <2>3, OtherRotations
  <2> QED
    BY <2>1, <2>2, <2>4 DEF QuerierInv
<1>6. CASE /\ retries[c] >= maxRetriesPerURL
           /\ index' = [index EXCEPT ![c] = next]
           /\ retries' = [retries EXCEPT ![c] = 0]
           /\ rotations' = [rotations EXCEPT ![c] = @ + 1]
           /\ at' = [at EXCEPT ![c] = IF next = start[c] THEN "exhausted" ELSE "acquire"]
  <2> HIDE DEF next
  <2>1. PermitsInv' /\ permits' \in 0 .. MaxConcurrent
    <3>1. \A d \in Callers : at'[d] = "http" <=> at[d] = "http"
      BY <1>1, <1>6 DEF QuerierInv, TypeOK
    <3> QED
      BY <1>1, <3>1, PermitsKept DEF QuerierInv
  <2>2. TypeOK'
    <3>1. at' \in [Callers -> ended \union {"idle", "find", "loop", "acquire", "http"}]
      BY <1>6 DEF QuerierInv, TypeOK, ended
    <3>2. /\ index' \in [Callers -> URLs] /\ retries' \in [Callers -> 0 .. maxRetriesPerURL]
          /\ rotations' \in [Callers -> Nat]
      BY <1>3, <1>6, Constants DEF QuerierInv, TypeOK
    <3> QED
      BY <1>1, <2>1, <3>1, <3>2 DEF QuerierInv, TypeOK
  <2>3. retries[c] = maxRetriesPerURL
    <3>1. retries[c] \in 0 .. maxRetriesPerURL
      BY DEF QuerierInv, TypeOK
    <3> QED
      BY <1>6, <3>1, Constants
  <2>4. /\ at'[c] = (IF next = start[c] THEN "exhausted" ELSE "acquire")
        /\ index'[c] = next /\ retries'[c] = 0
        /\ \A d \in Callers \ {c} :
             at'[d] = at[d] /\ index'[d] = index[d] /\ retries'[d] = retries[d]
             /\ rotations'[d] = rotations[d]
    BY <1>6 DEF QuerierInv, TypeOK
  <2>5. /\ \A e \in URLs : Turn(c, e)' = Turn(c, e)
        /\ Turn(c, index[c])' = Turn(c, next)
    BY <1>1, <2>4 DEF Turn
  <2>6. CASE next = start[c]
    <3>1. \A e \in URLs : failed[c][e] = maxRetriesPerURL
      BY <1>2, <1>3, <2>3, <2>6
    <3> QED
      BY <1>1, <1>4, <2>1, <2>2, <2>4, <2>6, <3>1, OtherRotations DEF QuerierInv
  <2>7. CASE next # start[c]
    <3>1. failed[c][next] = 0
      <4>1. Turn(c, next) \in Int
        <5>1. start[c] \in Int /\ next \in Int
          BY <1>3, Constants DEF QuerierInv, TypeOK, URLs
        <5> QED
          BY <5>1, Constants DEF Turn
      <4> QED
        BY <1>2, <1>3, <2>7, <4>1
    <3>2. \A e \in URLs :
            failed'[c][e] = IF e = index'[c] THEN retries'[c]
                            ELSE IF Turn(c, e)' < Turn(c, index[c])' THEN maxRetriesPerURL ELSE 0
      BY <1>1, <1>2, <1>3, <2>3, <2>4, <2>5, <2>7, <3>1
    <3>3. RotationInv' /\ ExhaustedMeansAll'
      BY <1>1, <1>4, <2>2, <2>4, <2>7, <3>2, Constants, OtherRotations
    <3> QED
      BY <2>1, <2>2, <3>3 DEF QuerierInv
  <2> QED
    BY <2>6, <2>7
<1> QED
  BY <1>5, <1>6 DEF Loop

(* A step that changes neither the rotation of c nor its retries, and only *)
(* its place.                                                              *)
LEMMA PlaceInv ==
  ASSUME QuerierInv, NEW c \in Callers, TypeOK', PermitsInv',
         NEW place, at' = [at EXCEPT ![c] = place],
         UNCHANGED <<index, start, retries, rotations, failed>>,
         \/ place \in {"ok", "cancelled"}
         \/ at[c] \in {"acquire", "http"} /\ place \in {"acquire", "http"}
  PROVE  QuerierInv'
<1>1. at'[c] = place /\ \A d \in Callers \ {c} : at'[d] = at[d]
  BY DEF QuerierInv, TypeOK
<1>2. /\ at[c] \in {"loop", "acquire", "http"} =>
           \A e \in URLs :
             failed[c][e] = IF e = index[c] THEN retries[c]
                            ELSE IF Turn(c, e) < Turn(c, index[c]) THEN maxRetriesPerURL ELSE 0
      /\ at[c] \in {"acquire", "http"} => retries[c] < maxRetriesPerURL
      /\ \A e \in URLs : failed[c][e] <= maxRetriesPerURL
  BY DEF QuerierInv, RotationInv, ExhaustedMeansAll
<1>3. (\A e \in URLs : Turn(c, e)' = Turn(c, e)) /\ Turn(c, index[c])' = Turn(c, index[c])
  BY DEF Turn
<1>4. RotationInv' /\ ExhaustedMeansAll'
  BY <1>1, <1>2, <1>3, OtherRotations
<1> QED
  BY <1>4 DEF QuerierInv

LEMMA CancelInv ==
  ASSUME QuerierInv, NEW c \in Callers, Cancel(c)
  PROVE  QuerierInv'
<1>1. /\ at[c] \in {"loop", "acquire"} /\ at' = [at EXCEPT ![c] = "cancelled"]
      /\ UNCHANGED <<up, index, start, retries, inner, rotations, calls, failed, permits>>
  BY DEF Cancel, callVars
<1>2. PermitsInv' /\ permits' \in 0 .. MaxConcurrent
  <2>1. \A d \in Callers : at'[d] = "http" <=> at[d] = "http"
    BY <1>1 DEF QuerierInv, TypeOK
  <2> QED
    BY <1>1, <2>1, PermitsKept DEF QuerierInv
<1>3. failures' \in [URLs -> Nat] /\ recent' \in [URLs -> BOOLEAN]
  <2>1. CASE at[c] = "loop"
    BY <2>1 DEF Cancel, QuerierInv, TypeOK
  <2>2. CASE at[c] # "loop"
    <3>1. /\ failures' = [failures EXCEPT ![index[c]] = @ + 1]
          /\ recent' = [recent EXCEPT ![index[c]] = TRUE]
          /\ failures \in [URLs -> Nat] /\ recent \in [URLs -> BOOLEAN] /\ index[c] \in URLs
      BY <2>2 DEF Cancel, QuerierInv, TypeOK
    <3>2. failures' \in [URLs -> Nat]
      BY <3>1
    <3>3. recent' \in [URLs -> BOOLEAN]
      BY <3>1
    <3> QED
      BY <3>2, <3>3
  <2> QED
    BY <2>1, <2>2
<1>4. TypeOK'
  BY <1>1, <1>2, <1>3 DEF QuerierInv, TypeOK, ended
<1> QED
  BY <1>1, <1>2, <1>4, PlaceInv

LEMMA AcquireInv ==
  ASSUME QuerierInv, NEW c \in Callers, Acquire(c)
  PROVE  QuerierInv'
<1>1. /\ at[c] = "acquire" /\ at' = [at EXCEPT ![c] = "http"] /\ permits > 0
      /\ permits' = permits - 1
      /\ UNCHANGED <<up, index, start, retries, inner, rotations, calls, failed, failures, recent>>
  BY DEF Acquire, callVars
<1>2. PermitsInv' /\ permits' \in 0 .. MaxConcurrent
  BY <1>1, PermitTaken DEF QuerierInv
<1>3. TypeOK'
  BY <1>1, <1>2 DEF QuerierInv, TypeOK
<1> QED
  BY <1>1, <1>2, <1>3, PlaceInv

LEMMA AnswerOKInv ==
  ASSUME QuerierInv, NEW c \in Callers, AnswerOK(c)
  PROVE  QuerierInv'
<1>1. /\ at[c] = "http" /\ at' = [at EXCEPT ![c] = "ok"] /\ permits' = permits + 1
      /\ UNCHANGED <<up, index, start, retries, inner, rotations, calls, failed>>
  BY DEF AnswerOK, callVars
<1>2. PermitsInv' /\ permits' \in 0 .. MaxConcurrent
  BY <1>1, PermitReturned DEF QuerierInv
<1>3. failures' \in [URLs -> Nat] /\ recent' \in [URLs -> BOOLEAN]
  BY DEF AnswerOK, QuerierInv, TypeOK
<1>4. TypeOK'
  BY <1>1, <1>2, <1>3 DEF QuerierInv, TypeOK, ended
<1> QED
  BY <1>1, <1>2, <1>4, PlaceInv

(* The answers after which executeWithRetry tries again.                   *)
LEMMA AnswerAgainInv ==
  ASSUME QuerierInv, NEW c \in Callers, AnswerLater(c) \/ AnswerRetried(c)
  PROVE  QuerierInv'
<1>1. /\ at[c] = "http" /\ at' = [at EXCEPT ![c] = "acquire"] /\ permits' = permits + 1
      /\ UNCHANGED <<up, index, start, retries, rotations, calls, failed, failures, recent>>
  BY DEF AnswerLater, AnswerRetried, callVars
<1>2. PermitsInv' /\ permits' \in 0 .. MaxConcurrent
  BY <1>1, PermitReturned DEF QuerierInv
<1>3. inner' \in [Callers -> 0 .. maxRetries - 1]
  BY Constants DEF AnswerLater, AnswerRetried, callVars, QuerierInv, TypeOK
<1>4. TypeOK'
  BY <1>1, <1>2, <1>3 DEF QuerierInv, TypeOK
<1> QED
  BY <1>1, <1>2, <1>4, PlaceInv

(* A failure counts for the endpoint the rotation is at.                   *)
LEMMA AnswerFailedInv ==
  ASSUME QuerierInv, NEW c \in Callers, AnswerFailed(c)
  PROVE  QuerierInv'
<1> DEFINE e == index[c]
<1>1. PICK place \in {"loop", "overdue"} :
        /\ at[c] = "http" /\ at' = [at EXCEPT ![c] = place] /\ permits' = permits + 1
        /\ inner' = [inner EXCEPT ![c] = 0]
        /\ failed' = [failed EXCEPT ![c][e] = @ + 1]
        /\ retries' = [retries EXCEPT ![c] = @ + 1]
        /\ place = "overdue" => rotations[c] > RotationLimit
        /\ UNCHANGED <<up, index, start, rotations, calls>>
  BY DEF AnswerFailed
<1>2. PermitsInv' /\ permits' \in 0 .. MaxConcurrent
  BY <1>1, PermitReturned DEF QuerierInv
<1>3. failures' \in [URLs -> Nat] /\ recent' \in [URLs -> BOOLEAN]
  BY DEF AnswerFailed, QuerierInv, TypeOK
<1>4. e \in URLs /\ retries[c] \in Nat /\ retries[c] < maxRetriesPerURL
  BY <1>1, Constants DEF QuerierInv, TypeOK, RotationInv
<1>5. /\ inner' \in [Callers -> 0 .. maxRetries - 1]
      /\ retries' \in [Callers -> 0 .. maxRetriesPerURL]
      /\ failed' \in [Callers -> [URLs -> Nat]]
  BY <1>1, <1>4, Constants DEF QuerierInv, TypeOK
<1>6. TypeOK'
  BY <1>1, <1>2, <1>3, <1>5 DEF QuerierInv, TypeOK, ended
<1>7. /\ at'[c] = place /\ retries'[c] = retries[c] + 1
      /\ failed'[c][e] = failed[c][e] + 1
      /\ \A f \in URLs \ {e} : failed'[c][f] = failed[c][f]
      /\ \A d \in Callers \ {c} :
           at'[d] = at[d] /\ retries'[d] = retries[d] /\ failed'[d] = failed[d]
  BY <1>1, <1>4 DEF QuerierInv, TypeOK
<1>8. \A f \in URLs :
        failed[c][f] = IF f = index[c] THEN retries[c]
                       ELSE IF Turn(c, f) < Turn(c, index[c]) THEN maxRetriesPerURL ELSE 0
  BY <1>1 DEF QuerierInv, RotationInv
<1>9. (\A f \in URLs : Turn(c, f)' = Turn(c, f)) /\ Turn(c, index[c])' = Turn(c, index[c])
  BY <1>1 DEF Turn
<1>10. \A f \in URLs :
         failed'[c][f] = IF f = index'[c] THEN retries'[c]
                         ELSE IF Turn(c, f)' < Turn(c, index[c])' THEN maxRetriesPerURL ELSE 0
  BY <1>1, <1>4, <1>7, <1>8, <1>9
<1>11. \A f \in URLs : failed'[c][f] <= maxRetriesPerURL
  BY <1>1, <1>4, <1>7, <1>10, Constants
<1>12. RotationInv' /\ ExhaustedMeansAll'
  BY <1>1, <1>6, <1>7, <1>10, <1>11, OtherRotations
<1> QED
  BY <1>2, <1>6, <1>12 DEF QuerierInv

LEMMA QuerierNext == QuerierInv /\ [Next]_vars => QuerierInv'
<1> SUFFICES ASSUME QuerierInv, [Next]_vars PROVE QuerierInv'
  OBVIOUS
<1>1. CASE UNCHANGED vars
  <2>1. UNCHANGED <<at, up, index, start, retries, inner, rotations, calls, failed, failures, recent, permits>>
    BY <1>1 DEF vars, callVars
  <2> QED
    BY <2>1 DEF QuerierInv, TypeOK, PermitsInv, InHttp, RotationInv, Turn, ExhaustedMeansAll
<1> QED
  BY <1>1, CallInv, FindHealthyEndpointInv, LoopInv, CancelInv, AcquireInv, AnswerOKInv,
     AnswerAgainInv, AnswerFailedInv, TimePassesInv DEF Next, Step, Definite

LEMMA QuerierInvariant == Spec => []QuerierInv
  BY QuerierInit, QuerierNext, PTL DEF Spec

(* Types; the limiter never has fewer than no permits nor more than it     *)
(* began with, so that no request keeps or invents one.                    *)
THEOREM QuerierTypes == Spec => []TypeOK
<1>1. QuerierInv => TypeOK
  BY DEF QuerierInv
<1> QED
  BY <1>1, QuerierInvariant, PTL

(* executeWithEndpointRotation gives a call up only when every endpoint    *)
(* has failed it maxRetriesPerURL times, or when it is overdue, for any    *)
(* number of callers and endpoints and any health.                         *)
THEOREM GivenUpOnlyWhenAllFailed == Spec => []ExhaustedMeansAll
<1>1. QuerierInv => ExhaustedMeansAll
  BY DEF QuerierInv
<1> QED
  BY <1>1, QuerierInvariant, PTL
-----------------------------------------------------------------------------
(* What EveryCallAnswered rests on, apart from fairness.                   *)

(* An endpoint that is up fails no call.                                   *)
UpInv == \A c \in Callers : \A e \in up : failed[c][e] = 0

(* A call is given up as exhausted only if no endpoint is up               *)
(* (executeWithEndpointRotation).                                          *)
ExhaustedMeansNoneUp == \A c \in Callers : at[c] = "exhausted" => up = {}

LEMMA UpInvNext == QuerierInv /\ UpInv /\ [Next]_vars => UpInv'
<1> SUFFICES ASSUME QuerierInv, UpInv, [Next]_vars PROVE UpInv'
  OBVIOUS
<1>1. failed \in [Callers -> [URLs -> Nat]] /\ up \subseteq URLs
  BY DEF QuerierInv, TypeOK
<1>2. ASSUME UNCHANGED <<up, failed>> PROVE UpInv'
  BY <1>2 DEF UpInv
<1>3. ASSUME NEW c \in Callers, Call(c) PROVE UpInv'
  <2>1. up' = up /\ failed' = [failed EXCEPT ![c] = [e \in URLs |-> 0]]
    BY <1>3 DEF Call
  <2> QED
    BY <1>1, <2>1 DEF UpInv
<1>4. ASSUME NEW c \in Callers, AnswerFailed(c) PROVE UpInv'
  <2>1. index[c] \notin up /\ up' = up /\ failed' = [failed EXCEPT ![c][index[c]] = @ + 1]
    BY <1>4 DEF AnswerFailed
  <2> QED
    BY <1>1, <2>1 DEF UpInv
<1>5. ASSUME NEW c \in Callers, Step(c) PROVE UpInv'
  BY <1>2, <1>3, <1>4, <1>5
     DEF Step, Definite, FindHealthyEndpoint, Loop, Cancel, Acquire, AnswerLater, AnswerOK,
         AnswerRetried, callVars
<1>6. ASSUME NEW e \in URLs, TimePasses(e) PROVE UpInv'
  BY <1>2, <1>6 DEF TimePasses, callVars
<1>7. CASE UNCHANGED vars
  BY <1>2, <1>7 DEF vars, callVars
<1> QED
  BY <1>5, <1>6, <1>7 DEF Next

(* As long as one endpoint answers, no call runs out of endpoints, however *)
(* many fail and whatever their health says.                               *)
THEOREM OneUpIsEnough == Spec => []ExhaustedMeansNoneUp
<1>1. Init => UpInv
  BY DEF Init, UpInv
<1>2. QuerierInv /\ UpInv => ExhaustedMeansNoneUp
  <2> SUFFICES ASSUME QuerierInv, UpInv, NEW c \in Callers, at[c] = "exhausted", NEW e \in up
               PROVE  FALSE
    BY DEF ExhaustedMeansNoneUp
  <2>1. e \in URLs
    BY DEF QuerierInv, TypeOK
  <2>2. failed[c][e] = maxRetriesPerURL
    BY <2>1 DEF QuerierInv, ExhaustedMeansAll
  <2> QED
    BY <2>2, Constants DEF UpInv
<1> QED
  BY <1>1, <1>2, UpInvNext, QuerierInvariant, PTL DEF Spec

(* Every permit of the limiter is free or held by a request that waits for *)
(* its answer: when a caller finds none, as many requests as there are     *)
(* permits will return theirs (executeHTTPRequest).                        *)
THEOREM PermitsAreAccountedFor == Spec => []PermitsInv
<1>1. QuerierInv => PermitsInv
  BY DEF QuerierInv
<1> QED
  BY <1>1, QuerierInvariant, PTL
-----------------------------------------------------------------------------
Asking == {"loop", "acquire", "http"}

Stays(c) ==
  index'[c] = index[c] /\ retries'[c] = retries[c] /\ inner'[c] = inner[c]

(* The rotation of c has come to a later endpoint, to a later retry of the *)
(* endpoint, or to a later repetition within it.                           *)
Further(c) ==
  \/ Turn(c, index[c]) < Turn(c, index'[c])
  \/ /\ index'[c] = index[c]
     /\ \/ retries[c] < retries'[c]
        \/ retries'[c] = retries[c] /\ inner[c] < inner'[c]

(* While a call is under way no step takes it back to an endpoint or a     *)
(* retry that it has left, and every answer that is not "later" takes it   *)
(* further.  There are at most Endpoints, maxRetriesPerURL and maxRetries  *)
(* of them (TypeOK), so it ends (executeWithEndpointRotation,              *)
(* executeWithRetry).                                                      *)
CallsMoveOn ==
  \A c \in Callers :
    at[c] \in Asking /\ at'[c] \in Asking =>
      /\ start'[c] = start[c]
      /\ Stays(c) \/ Further(c)
      /\ Definite(c) => Further(c)

LEMMA CallsMoveOnStep == QuerierInv /\ [Next]_vars => CallsMoveOn
<1> SUFFICES ASSUME QuerierInv, [Next]_vars,
                    NEW c \in Callers, at[c] \in Asking, at'[c] \in Asking
             PROVE  /\ start'[c] = start[c]
                    /\ Stays(c) \/ Further(c)
                    /\ Definite(c) => Further(c)
  BY DEF CallsMoveOn
<1>1. /\ at \in [Callers -> ended \union {"idle", "find", "loop", "acquire", "http"}]
      /\ index \in [Callers -> URLs] /\ start \in [Callers -> URLs]
      /\ retries \in [Callers -> 0 .. maxRetriesPerURL] /\ inner \in [Callers -> 0 .. maxRetries - 1]
  BY DEF QuerierInv, TypeOK
<1>2. retries[c] \in Nat /\ inner[c] \in Nat
  BY <1>1, Constants
<1>3. ASSUME Definite(c) PROVE start'[c] = start[c] /\ Further(c)
  <2>1. CASE AnswerOK(c)
    <3>1. at'[c] = "ok"
      BY <1>1, <2>1 DEF AnswerOK
    <3> QED
      BY <3>1 DEF Asking
  <2>2. CASE AnswerRetried(c)
    <3>1. /\ start' = start /\ index' = index /\ retries' = retries
          /\ inner'[c] = inner[c] + 1
      BY <1>1, <2>2 DEF AnswerRetried
    <3>2. inner[c] < inner'[c]
      BY <1>2, <3>1
    <3> QED
      BY <3>1, <3>2 DEF Further
  <2>3. CASE AnswerFailed(c)
    <3>1. start' = start /\ index' = index /\ retries'[c] = retries[c] + 1
      BY <1>1, <2>3 DEF AnswerFailed
    <3>2. retries[c] < retries'[c]
      BY <1>2, <3>1
    <3> QED
      BY <3>1, <3>2 DEF Further
  <2> QED
    BY <1>3, <2>1, <2>2, <2>3 DEF Definite
<1>4. ASSUME start'[c] = start[c], Stays(c) PROVE start'[c] = start[c] /\ (Stays(c) \/ Further(c))
  BY <1>4
<1>5. ASSUME Loop(c) PROVE start'[c] = start[c] /\ (Stays(c) \/ Further(c))
  <2> DEFINE next == (index[c] + 1) % Endpoints
  <2>1. start' = start /\ inner' = inner
    BY <1>5 DEF Loop
  <2>2. CASE UNCHANGED <<index, retries, rotations>>
    BY <2>1, <2>2 DEF Stays
  <2>3. CASE /\ index' = [index EXCEPT ![c] = next]
             /\ at' = [at EXCEPT ![c] = IF next = start[c] THEN "exhausted" ELSE "acquire"]
    <3>1. index'[c] = next /\ at'[c] = IF next = start[c] THEN "exhausted" ELSE "acquire"
      BY <1>1, <2>3
    <3> HIDE DEF next
    <3>2. next # start[c]
      BY <3>1 DEF Asking
    <3>3. Turn(c, index[c]) < Turn(c, next) <=> index[c] = index[c] \/ Turn(c, index[c]) < Turn(c, index[c])
      <4>1. index[c] \in URLs /\ TypeOK
        BY <1>1 DEF QuerierInv
      <4> QED
        BY <3>2, <4>1, NextTurn DEF next
    <3> QED
      BY <2>1, <3>1, <3>3 DEF Further
  <2> QED
    BY <1>5, <2>2, <2>3 DEF Loop
<1>6. ASSUME Call(c) \/ FindHealthyEndpoint(c) PROVE FALSE
  BY <1>6 DEF Call, FindHealthyEndpoint, Asking, ended
<1>7. ASSUME Cancel(c) \/ Acquire(c) \/ AnswerLater(c) PROVE start'[c] = start[c] /\ Stays(c)
  BY <1>7 DEF Cancel, Acquire, AnswerLater, callVars, Stays
<1>8. ASSUME NEW d \in Callers \ {c}, Step(d) PROVE start'[c] = start[c] /\ Stays(c)
  BY <1>1, <1>8 DEF Step, Definite, Call, FindHealthyEndpoint, Loop, Cancel, Acquire, AnswerLater,
                    AnswerOK, AnswerRetried, AnswerFailed, callVars, Stays
<1>9. ASSUME NEW e \in URLs, TimePasses(e) PROVE start'[c] = start[c] /\ Stays(c)
  BY <1>9 DEF TimePasses, callVars, Stays
<1>10. ASSUME UNCHANGED vars PROVE start'[c] = start[c] /\ Stays(c)
  BY <1>10 DEF vars, callVars, Stays
<1> QED
  BY <1>3, <1>5, <1>6, <1>7, <1>8, <1>9, <1>10 DEF Next, Step

(* No call goes round for ever among the endpoints, however many there are *)
(* and however other calls change their health.                            *)
THEOREM CallsAlwaysMoveOn == Spec => [][CallsMoveOn]_vars
<1>1. QuerierInv /\ [Next]_vars => [CallsMoveOn]_vars
  BY CallsMoveOnStep
<1> QED
  BY <1>1, QuerierInvariant, PTL DEF Spec
=============================================================================
