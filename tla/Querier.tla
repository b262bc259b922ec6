------------------------------ MODULE Querier ------------------------------
(***************************************************************************)
(* util/querier: requests with retries, endpoint rotation and endpoint     *)
(* health, from many goroutines at a time.                                 *)
(*                                                                         *)
(* executeWithEndpointRotation starts at the first healthy endpoint and    *)
(* asks each endpoint up to maxRetriesPerURL times.  One time is a call of *)
(* executeWithRetry, which itself repeats a request up to maxRetries times *)
(* and for ever while the answer is 429, "invalid height" or no permit of  *)
(* the process-wide limiter.  Health is process-wide, too.                 *)
(*                                                                         *)
(* An endpoint is its index.  The clock is reduced to `recent`: whether    *)
(* the last failure of an endpoint is younger than recoveryTimeout.        *)
(***************************************************************************)
EXTENDS Integers, FiniteSets

CONSTANTS
  Callers,           \* goroutines that make requests
  Endpoints,         \* number of endpoints
  maxRetriesPerURL,
  maxRetries,
  failureThreshold,
  MaxConcurrent,     \* MAX_CONCURRENT_REQUESTS
  RotationLimit,     \* rotations after which totalDelay may exceed its limit
  MaxCalls           \* bound: calls in all

URLs == 0 .. Endpoints - 1

ASSUME QuerierAssumption ==
  /\ IsFiniteSet(Callers)
  /\ Endpoints \in Nat \ {0}
  /\ {maxRetriesPerURL, maxRetries, failureThreshold, MaxConcurrent} \subseteq Nat \ {0}
  /\ RotationLimit \in Nat
  /\ MaxCalls \in Nat

VARIABLES
  up,         \* endpoints that never fail, for ever the same ones
  at,         \* caller -> its place
  index,      \* caller -> currentEndpointIndex, or the one it looks at
  start,      \* caller -> startEndpointIndex
  retries,    \* caller -> retriesPerEndpoint
  inner,      \* caller -> retryCount of executeWithRetry
  rotations,  \* caller -> totalDelay, in rotations
  calls,      \* calls made
  failed,     \* history: caller -> endpoint -> failures in this call
  failures,   \* endpoint -> healthState.failures
  recent,     \* endpoint -> its last failure is recent
  permits     \* free permits of the limiter

callVars == <<up, index, start, retries, inner, rotations, calls, failed>>
vars     == <<at, callVars, failures, recent, permits>>

ended == {"ok", "exhausted", "overdue", "cancelled"}
-----------------------------------------------------------------------------
isEndpointHealthy(e) == failures[e] < failureThreshold \/ ~recent[e]

(* recoveryTimeout has passed since the last failure of e.                 *)
TimePasses(e) ==
  /\ recent[e]
  /\ recent' = [recent EXCEPT ![e] = FALSE]
  /\ UNCHANGED <<at, callVars, failures, permits>>

Call(c) ==
  /\ at[c] \in ended \union {"idle"}
  /\ calls < MaxCalls
  /\ calls' = calls + 1
  /\ at' = [at EXCEPT ![c] = "find"]
  /\ index' = [index EXCEPT ![c] = 0]
  /\ retries' = [retries EXCEPT ![c] = 0]
  /\ inner' = [inner EXCEPT ![c] = 0]
  /\ rotations' = [rotations EXCEPT ![c] = 0]
  /\ failed' = [failed EXCEPT ![c] = [e \in URLs |-> 0]]
  /\ UNCHANGED <<up, start, failures, recent, permits>>

(* Bug: the loop is taken to have begun at the first endpoint.             *)
StartIndexZero(c, e) == 0

StartIndex(c, e) == e

(* findHealthyEndpoint looks at one endpoint after the other; the first    *)
(* endpoint if none is healthy.                                            *)
FindHealthyEndpoint(c) ==
  LET e == index[c]
      found == isEndpointHealthy(e)
      first == IF found THEN e ELSE 0
  IN  /\ at[c] = "find"
      /\ \/ /\ found \/ e = Endpoints - 1
            /\ at' = [at EXCEPT ![c] = "loop"]
            /\ index' = [index EXCEPT ![c] = first]
            /\ start' = [start EXCEPT ![c] = StartIndex(c, first)]
         \/ /\ ~found /\ e < Endpoints - 1
            /\ index' = [index EXCEPT ![c] = e + 1]
            /\ UNCHANGED <<at, start>>
      /\ UNCHANGED <<up, retries, inner, rotations, calls, failed, failures, recent, permits>>

(* The head of the loop: rotate when the endpoint has had its retries.     *)
Loop(c) ==
  LET next == (index[c] + 1) % Endpoints
  IN  /\ at[c] = "loop"
      /\ \/ /\ retries[c] < maxRetriesPerURL
            /\ at' = [at EXCEPT ![c] = "acquire"]
            /\ UNCHANGED <<index, retries, rotations>>
         \/ /\ retries[c] >= maxRetriesPerURL
            /\ index' = [index EXCEPT ![c] = next]
            /\ retries' = [retries EXCEPT ![c] = 0]
            /\ rotations' = [rotations EXCEPT ![c] = @ + 1]
            /\ at' = [at EXCEPT ![c] = IF next = start[c] THEN "exhausted" ELSE "acquire"]
      /\ UNCHANGED <<up, start, inner, calls, failed, failures, recent, permits>>

(* The caller's context ends, which the loop of the rotation notices at    *)
(* its head and in its waits, and executeWithRetry in its own.  The error  *)
(* of the latter is counted as a failure of the endpoint.                  *)
Cancel(c) ==
  /\ at[c] \in {"loop", "acquire"}
  /\ at' = [at EXCEPT ![c] = "cancelled"]
  /\ IF at[c] = "loop" THEN UNCHANGED <<failures, recent>>
     ELSE /\ failures' = [failures EXCEPT ![index[c]] = @ + 1]
          /\ recent' = [recent EXCEPT ![index[c]] = TRUE]
  /\ UNCHANGED <<callVars, permits>>

(* Bug: the permit is not waited for.                                      *)
AcquireUnchecked(c) ==
  /\ at[c] = "acquire"
  /\ permits' = permits - 1
  /\ at' = [at EXCEPT ![c] = "http"]
  /\ UNCHANGED <<callVars, failures, recent>>

(* executeHTTPRequest takes a permit.                                      *)
Acquire(c) ==
  /\ at[c] = "acquire"
  /\ permits > 0
  /\ permits' = permits - 1
  /\ at' = [at EXCEPT ![c] = "http"]
  /\ UNCHANGED <<callVars, failures, recent>>

(* 200: the endpoint is healthy again.                                     *)
AnswerOK(c) ==
  /\ at[c] = "http"
  /\ permits' = permits + 1
  /\ failures' = [failures EXCEPT ![index[c]] = 0]
  /\ recent' = [recent EXCEPT ![index[c]] = FALSE]
  /\ at' = [at EXCEPT ![c] = "ok"]
  /\ UNCHANGED callVars

(* 429, or a height the node does not have: try again, without counting.   *)
AnswerLater(c) ==
  /\ at[c] = "http"
  /\ permits' = permits + 1
  /\ at' = [at EXCEPT ![c] = "acquire"]
  /\ UNCHANGED <<callVars, failures, recent>>

(* Any other answer or error, and executeWithRetry tries again.            *)
AnswerRetried(c) ==
  /\ at[c] = "http"
  /\ index[c] \notin up
  /\ inner[c] + 1 < maxRetries
  /\ permits' = permits + 1
  /\ inner' = [inner EXCEPT ![c] = @ + 1]
  /\ at' = [at EXCEPT ![c] = "acquire"]
  /\ UNCHANGED <<up, index, start, retries, rotations, calls, failed, failures, recent>>

(* Bug: a failed request keeps its permit.                                 *)
AnswerFailedKeeps(c) ==
  LET e == index[c]
  IN  /\ at[c] = "http"
      /\ e \notin up
      /\ inner' = [inner EXCEPT ![c] = 0]
      /\ failures' = [failures EXCEPT ![e] = @ + 1]
      /\ recent' = [recent EXCEPT ![e] = TRUE]
      /\ failed' = [failed EXCEPT ![c][e] = @ + 1]
      /\ retries' = [retries EXCEPT ![c] = @ + 1]
      /\ \/ at' = [at EXCEPT ![c] = "loop"]
         \/ rotations[c] > RotationLimit /\ at' = [at EXCEPT ![c] = "overdue"]
      /\ UNCHANGED <<up, index, start, rotations, calls, permits>>

(* The last one, or an answer that cannot be parsed: executeWithRetry or   *)
(* its caller returns the error, and the failure is recorded.  The call is *)
(* given up if the rotations have taken too long.                          *)
AnswerFailed(c) ==
  LET e == index[c]
  IN  /\ at[c] = "http"
      /\ e \notin up
      /\ permits' = permits + 1
      /\ inner' = [inner EXCEPT ![c] = 0]
      /\ failures' = [failures EXCEPT ![e] = @ + 1]
      /\ recent' = [recent EXCEPT ![e] = TRUE]
      /\ failed' = [failed EXCEPT ![c][e] = @ + 1]
      /\ retries' = [retries EXCEPT ![c] = @ + 1]
      /\ \/ at' = [at EXCEPT ![c] = "loop"]
         \/ rotations[c] > RotationLimit /\ at' = [at EXCEPT ![c] = "overdue"]
      /\ UNCHANGED <<up, index, start, rotations, calls>>
-----------------------------------------------------------------------------
Init ==
  /\ up \in SUBSET URLs
  /\ at = [c \in Callers |-> "idle"]
  /\ index = [c \in Callers |-> 0]
  /\ start = [c \in Callers |-> 0]
  /\ retries = [c \in Callers |-> 0]
  /\ inner = [c \in Callers |-> 0]
  /\ rotations = [c \in Callers |-> 0]
  /\ calls = 0
  /\ failed = [c \in Callers |-> [e \in URLs |-> 0]]
  /\ failures = [e \in URLs |-> 0]
  /\ recent = [e \in URLs |-> FALSE]
  /\ permits = MaxConcurrent

Definite(c) == AnswerOK(c) \/ AnswerRetried(c) \/ AnswerFailed(c)

Step(c) ==
  \/ Call(c)
  \/ FindHealthyEndpoint(c)
  \/ Loop(c)
  \/ Cancel(c)
  \/ Acquire(c)
  \/ AnswerLater(c)
  \/ Definite(c)

Next ==
  \/ \E c \in Callers : Step(c)
  \/ \E e \in URLs : TimePasses(e)

Spec == Init /\ [][Next]_vars
-----------------------------------------------------------------------------
(* Type invariant.                                                         *)
TypeOK ==
  /\ at \in [Callers -> ended \union {"idle", "find", "loop", "acquire", "http"}]
  /\ index \in [Callers -> URLs]
  /\ start \in [Callers -> URLs]
  /\ retries \in [Callers -> 0 .. maxRetriesPerURL]
  /\ inner \in [Callers -> 0 .. maxRetries - 1]
  /\ rotations \in [Callers -> Nat]
  /\ calls \in Nat
  /\ up \in SUBSET URLs
  /\ failed \in [Callers -> [URLs -> Nat]]
  /\ failures \in [URLs -> Nat]
  /\ recent \in [URLs -> BOOLEAN]
  /\ permits \in 0 .. MaxConcurrent

(* A call is given up only after every endpoint has failed it exactly      *)
(* maxRetriesPerURL times, wherever it started and whatever other calls    *)
(* did to the endpoints' health, or when it is overdue                     *)
(* (executeWithEndpointRotation).                                          *)
ExhaustedMeansAll ==
  \A c \in Callers :
    /\ \A e \in URLs : failed[c][e] <= maxRetriesPerURL
    /\ at[c] = "exhausted" => \A e \in URLs : failed[c][e] = maxRetriesPerURL
    /\ at[c] = "overdue" => rotations[c] > RotationLimit
-----------------------------------------------------------------------------
(* Fairness: goroutines run, a waiter gets a permit in the end (the        *)
(* semaphore is first in, first out), and no endpoint answers "later" for  *)
(* ever.                                                                   *)
Fairness ==
  \A c \in Callers :
    /\ WF_vars(FindHealthyEndpoint(c))
    /\ WF_vars(Loop(c))
    /\ SF_vars(Acquire(c))
    /\ WF_vars(AnswerLater(c) \/ Definite(c))
    /\ SF_vars(Definite(c))

FairSpec == Spec /\ Fairness

(* If some endpoint never fails, every call is answered unless its caller  *)
(* cancels it, with fewer permits than callers, and whatever the other     *)
(* endpoints do, unless there are so many that it is overdue first.        *)
EveryCallAnswered ==
  \A c \in Callers :
    at[c] = "find" /\ up # {} ~> at[c] \in {"ok", "cancelled", "overdue"}
=============================================================================
