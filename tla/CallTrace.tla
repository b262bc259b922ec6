----------------------------- MODULE CallTrace -----------------------------
(***************************************************************************)
(* internaltx/util.go, processInternalCall, and the loop over the traces   *)
(* of a block in CollectInternalTxs: how the calls of a transaction are    *)
(* flattened into numbered rows.                                           *)
(*                                                                         *)
(* A call is the sequence of the calls nested in it.  A trace is a record  *)
(* of its top-level call and whether the node failed to trace it.          *)
(***************************************************************************)
EXTENDS Integers, Sequences, FiniteSets
LOCAL INSTANCE SequencesExt

CONSTANTS
  Calls,     \* the calls whose traces are checked
  MaxTraces, \* bound: traces of a block
  Sequence   \* the sequence counter when the transaction begins

ASSUME CallTraceAssumption == MaxTraces \in Nat /\ Sequence \in Nat

(* Bug: the rows of the nested call's own calls are not counted.           *)
NextIndexByOne(nextIndex, nestedResults) == nextIndex + 1

NextIndex(nextIndex, nestedResults) == nextIndex + Len(nestedResults)

(* The counter after the rows results have been numbered.                  *)
Counted(seq, results) == seq + Len(results)

RECURSIVE processInternalCall(_, _, _, _)
RECURSIVE processNested(_, _, _, _)

(* The rows of the remaining nested calls of the call with row parent.     *)
processNested(calls, nextIndex, parent, seq) ==
  IF calls = <<>> THEN <<>>
  ELSE LET nestedResults == processInternalCall(Head(calls), nextIndex, parent, seq)
       IN  nestedResults \o
           processNested(Tail(calls), NextIndex(nextIndex, nestedResults),
                         parent, Counted(seq, nestedResults))

(* The row of a call followed by those of the calls nested in it; seq is   *)
(* the value of the sequence counter before.                               *)
processInternalCall(call, index, parent, seq) ==
  <<[Index |-> index, ParentIndex |-> parent, Sequence |-> seq + 1]>> \o
  processNested(call, index + 1, index, seq + 1)

RECURSIVE collectTraces(_, _)

(* One list of rows per traced transaction; a failed trace is skipped.     *)
collectTraces(traces, seq) ==
  IF traces = <<>> THEN <<>>
  ELSE IF Head(traces).Error
  THEN collectTraces(Tail(traces), seq)
  ELSE LET txResults == processInternalCall(Head(traces).Call, 0, -1, seq)
       IN  <<txResults>> \o collectTraces(Tail(traces), Counted(seq, txResults))
-----------------------------------------------------------------------------
VARIABLES
  traces,    \* the traces of the block
  collected  \* the rows, one list per transaction; <<>> before

traceVars == <<traces, collected>>

Trace == [Error : BOOLEAN, Call : Calls]

TraceInit ==
  /\ traces \in UNION {[1 .. n -> Trace] : n \in 1 .. MaxTraces}
  /\ collected = <<>>

Collect ==
  /\ collected = <<>>
  /\ collected' = collectTraces(traces, Sequence)
  /\ UNCHANGED traces

(* All rows, in the order they are stored.                                 *)
CollectedRows == FlattenSeq(collected)
-----------------------------------------------------------------------------
(* The reference: a call is named by its path from the top-level call, and *)
(* rows are in the order of the paths, a call before the calls in it.      *)
RECURSIVE PathsOf(_)
PathsOf(call) ==
  {<<>>} \union UNION {{<<i>> \o p : p \in PathsOf(call[i])} : i \in 1 .. Len(call)}

Before(p, q) ==
  \/ Len(p) < Len(q) /\ SubSeq(q, 1, Len(p)) = p
  \/ \E i \in 1 .. Len(p) :
       /\ i <= Len(q)
       /\ p[i] < q[i]
       /\ SubSeq(p, 1, i - 1) = SubSeq(q, 1, i - 1)

Rank(call, p) == Cardinality({q \in PathsOf(call) : Before(q, p)})

Caller(call, p) == IF p = <<>> THEN -1 ELSE Rank(call, SubSeq(p, 1, Len(p) - 1))

Good == SelectSeq(traces, LAMBDA t : ~t.Error)

(* Every call of every traced transaction has exactly one row, at the      *)
(* place of its path, and its ParentIndex is the Index of the call that    *)
(* made it, at any depth of nesting; the sequence goes on from where it    *)
(* was, one number per row, across the transactions of the block           *)
(* (processInternalCall, CollectInternalTxs).                              *)
RowsFollowCalls ==
  collected # <<>> =>
    /\ Len(collected) = Len(Good)
    /\ \A k \in DOMAIN CollectedRows : CollectedRows[k].Sequence = Sequence + k
    /\ \A t \in 1 .. Len(Good) :
         LET call == Good[t].Call
         IN  {<<collected[t][k].Index, collected[t][k].ParentIndex>> :
                k \in 1 .. Len(collected[t])}
               = {<<Rank(call, p), Caller(call, p)>> : p \in PathsOf(call)}
=============================================================================
